# Notted, specified

A TLA+ development kept beside the code of Notted, a self-hosted workspace for notes:
a pnpm monorepo with a Next.js client (`apps/web`), a NestJS API (`apps/api`) and shared
schemas (`packages/*`). PostgreSQL is the authority. Redis carries BullMQ jobs and the
Socket.io adapter, MinIO stores objects, Meilisearch the index. No transaction spans two
of those stores, so most of what is hard in this code is what happens between two
awaits: that is what the modules model and what their properties are about.

Paths below are relative to `src/apps/api/src` unless they start with `apps/`.

## Inventory

| Part | State it keeps | Operations | Talks to |
|---|---|---|---|
| Job outbox and workers (`queue/`, `maintenance/job-idempotency-cleanup`) | `job_outbox`, `job_idempotency`, BullMQ jobs, per process: dispatcher loop, worker slots | insert intent in the producer's transaction, claim batch, publish, claim execution, complete / release / fail / quarantine, operator retry, cleanup | everything that defers work; Redis |
| Attachments and quota (`attachments/`, `storage/`) | `attachments` rows, objects, quota aggregate | three-transaction upload, compensation, deletion | MinIO, notes, outbox |
| Storage maintenance (`maintenance/storage-maintenance.*`) | none of its own | sweeps: abandoned uploads, orphaned objects, missing objects, expired exports, deleted notes | attachments, exports, notes, MinIO |
| Exports (`export/`) | `exports` rows, artefacts | create, cancel, claim, render, put, mark ready / failed, announce, download | outbox, MinIO, notifications, e-mail |
| Notes (`notes/`) | `notes`, folders, versions, siblings' order | create, edit under a version check, move, trash, restore, delete, checkpoint | search, webhooks, collaboration |
| Collaboration (`realtime/`, `apps/web/src/lib/collaboration`) | Yjs update log, epoch, projection, rooms; client documents | sync handshake, append, project under a version compare-and-set, compact, reset | notes, Socket.io |
| Autosave client (`apps/web/src/lib/notes/autosave-machine.ts`) | reducer state in the tab | edit, save, retry, conflict, recover | notes API |
| Webhooks (`webhooks/`), e-mail (`email/`, auth and invitation mail) | endpoints, delivery log, messages | schedule, deliver, record, replay | outbox, network |
| Memberships (`memberships/`) | members, invitations | invite, resend, accept, change role, remove | e-mail, webhooks |
| Tasks (`tasks/`) | `tasks`, order, recurrence | create, complete (spawning the next occurrence), reorder, bulk | outbox |
| Search (`search/`) | Meilisearch index, embeddings | index a note from its row, reindex, hybrid ranking | outbox, AI |
| AI (`ai/`) | provider config, usage rows, rate windows in Redis | acquire a grant, stream, record usage | providers |
| Authorization (`authorization/`) | none | decide (actor, action, resource) | all |
| Comments, tags, projects, notifications, audit | rows, replay records of requests | single-transaction CRUD under locks, indexes or serializable isolation; mentions notified by a job | outbox, e-mail |
| Auth, API keys, domains | sessions (better-auth), keys, claims of domains, per process: a cache of trusted hosts | sign-in, key use, claim, verify, release | DNS |
| Schema, infrastructure, config, health, metrics, OpenAPI | | | |
| Web user interface, shared packages | | rendering, schemas, formatters | |

What makes each of them correct, and what is hard about it:

* **Outbox and workers.** An accepted intent is executed; one run at a time; an ambiguous
  run is never repeated by the machine; completion is true and final. Hard: several
  processes, at-least-once delivery, lock expiry, crashes between any two statements,
  timeouts that do not stop the handler, rolling deployments, operator retries.
* **Attachments and maintenance.** A ready row has its bytes, no byte is stranded for ever,
  the quota holds under concurrency, the trash and its purge take nothing the user did
  not delete. Hard: two stores without a common transaction; sweeps that read, decide and
  write in separate statements while uploads and restores go on.
* **Exports.** A ready export can be downloaded, a settled one stays settled, at most one
  announcement, no artefact is left behind. Hard: cancellation racing the worker, late
  handlers, the order of the sweep's phases.
* **Notes.** Trees stay trees, a stale write is refused, the trash is a consistent subtree
  operation. Hard: concurrent moves and trash operations.
* **Collaboration and autosave.** No accepted edit is lost, one durable writer at a time,
  clients converge within an epoch. Hard: reconnects, resets, reordered acknowledgements,
  a save whose answer is lost.
* **Webhooks, e-mail.** An event is delivered at least once while the endpoint is enabled
  (webhooks), at most once by the provider (e-mail). Hard: retries after unknown outcomes.
* **Memberships.** A workspace keeps an owner; whoever grants a role holds the authority
  when the grant commits; an invitation is used once; grants do not outlive a membership.
  Hard: two-person races at READ COMMITTED, locks taken one at a time, a policy decision
  made before the transaction starts.
* **Tasks, search, AI, authorization.** A successor is the first date of its recipe that is
  ahead; the index follows the row; usage stays within quota plus what the burst window
  admits, one usage row on every path; the decisions for the roles are nested and no
  share opens what a project closes. Hard: calendar arithmetic, positions that run out of
  precision, an index without versions, three ways for a stream to end at once.
* **Domains, names, mentions.** A domain is verified for who proved it and distrusted once
  released; two rows have two names and a repeated request creates once; a mention reaches
  those who may read the note, once. Hard: the DNS is asked outside of any transaction,
  caches on every replica, a rule no index backs, two side effects of which one is not
  idempotent.

## Modules

```
JobPromise <-- implemented by -- JobOutbox <-- MCJobOutbox           JobOutbox_proofs
     ^
     +-------- implemented by -- JobConsumer                         JobConsumer_proofs
                                   |  extended by the handlers of each job type
                                   +-- ExportJob                     Requests_proofs
                                   +-- EmailDelivery                 Handlers_proofs
                                   +-- SearchIndex                   Handlers_proofs
                                   +-- WebhookDelivery               Handlers_proofs
                                   +-- MentionNotify                 Handlers_proofs

AttachmentStorage <-- MCAttachmentStorage                            AttachmentStorage_proofs
NoteRoom <-- MCNoteRoom                                              NoteRoom_proofs
NoteTree <-- MCNoteTree

MCHandlers   = SearchIndex, JobOutbox, WebhookDelivery, EmailDelivery, MentionNotify
                                                                     Handlers_proofs
MCRequests   = ExportJob, Autosave, CollabClient, AiGeneration, DomainBinding, NamedCreation
                                                  Requests_proofs, CollabClient_proofs
MCWorkspace  = Membership, NoteTree, SiblingOrder, TaskRecurrence, AuthorizationPolicy,
               AiGeneration                                          Workspace_proofs
```

Operators whose name ends in a variant of a code operator's name and whose comment starts
with "Mutant:" are not part of any specification: each is a plausible bug, and replacing
the definition it varies by it makes the property PROJECT.json names fail.

The last three MC modules put components that do not interact into one state space: the
variable `subject` is drawn at the start of a behaviour and says whose steps it consists
of, while the variables of the others keep their first values. The properties of each
are checked where it is the subject, and under the fairness its own module states.
`MCHandlers` extends its handler modules, because they share the variables of JobConsumer;
what a subject may spend is an allowance on its steps (`Alone`: one intent, the others are
left alone; `Within`: attempts, operator retries and faults).

### JobPromise: what a deferred job may rely on

The abstract specification of one business intent: absent, accepted, executing, done,
dead or withdrawn. `JobOutbox` implements it under a refinement mapping that reads both
tables (`Phase`); `JobConsumer`, which is what the handlers are written against,
implements it whatever a handler does (`IntentsKeepPromise`, proved).

### JobOutbox: the pipeline

| Model | Code |
|---|---|
| `outbox`, `due` | `job_outbox.status`; `due` stands for the clock the row's next transition waits for (`available_at`, `locked_at`, `updated_at`, retention), set by `Elapse` |
| `idem` | `job_idempotency.status` |
| `job` | the BullMQ job whose id is the row id: state, attempts, stall count, lock owner (external, from how the code configures and calls it) |
| `disp[n]`, `work[n]` | program counters of a process's dispatcher loop and of one worker slot: one value per await of `dispatchOnce` and `process` |
| `forwarding`, `retries` | an operator retry between its transaction and the BullMQ call |
| `returned`, `ambiguous` | history variables |

A statement or a transaction is one step; whatever lies between two awaits of the
TypeScript is a step of its own. Faults are a constant set: `crash` (a process dies in
any step), `shutdown`, `abort` (a dispatch cycle throws), `db` (a worker's statement
throws), `redis` (Redis forgets a job), `lock` (a job lock expires under a live worker).
A commit whose confirmation is lost is not modelled: a failing statement has no effect.

### JobConsumer and the handlers

`JobConsumer` is the pipeline seen from inside a handler: attempts of an intent start one
at a time, one that throws is retried or buried, one that times out is buried while its
handler goes on (`abandoned`), one whose process dies is buried, and an operator may
revive what was buried. The late end of an abandoned invocation settles nothing (`End`).
Each handler module adds its rows and one action per statement of its handler.

* **ExportJob**: the row, handler invocations, the object, and the export sweeps phase by
  phase. Bucket keys are deterministic in the export, so an artefact is named by its
  export. An invocation is assumed not to outlive the seven-day retention nor the orphan
  window (`RetentionElapses`, `GrowOld`). Downloads and their grants are left out.
* **WebhookDelivery**: `endpoint` is the `webhooks` row; an update reads and writes it in
  two statements (`edit`), a verification waits for the receiver in between (`probe`).
  `eventOf` tells a replayed delivery from its event. A handler loads the endpoint,
  re-authorizes its creator, sends, and records (`sending`, `deliveries`); `inbox` is what
  the receiver has accepted. `barred` is a history variable: the invocations during
  which the endpoint was at no time allowed to have the event. Left out: secrets,
  signatures and their rotation, the URL guard, the endpoint limit, subscription edits.
* **EmailDelivery**: the three workers as the three kinds of one module, since they share
  the delivery row and differ in how they claim it: a compare-and-set on the delivery, a
  transaction under the invitation's lock, a compare-and-set on a separate intent row.
  `mailbox` counts what the provider accepted; `seen` is the status read before the
  claim. Left out: templates, suppression lists, and duplicates by idempotency key.
* **MentionNotify**: one note; an intent is named by its recipient, because the key of the
  row is the workspace, the note and the recipient. `save` is the producer in the save's
  transaction; the handler asks anew whether the recipient reads the note, reads the
  note, queues the mail or records that it is withheld, and inserts the notification, one
  statement a step, while access, trash and preference change between any two of them.
  `readerOnce` and `unfit` are history variables: who could read the note at some time
  since the mention, and who could not at some time. Left out: the cap on recipients, an
  actor who mentions himself, texts, and users without an address.
* **SearchIndex**: a document stands for the state of its note, named by the moment of the
  last change. The handler reads the rows, writes the documents and deletes the rest in
  three calls; the rebuild (`reindex`) pages, projects, upserts, lists, and deletes what
  is stale, one call a step. `overlapped` records whether two writers of the index were
  ever at work together. Left out: the purge of a workspace, `--all`, further pages,
  embeddings and queries.

### AttachmentStorage: rows and objects

Notes form a constant forest (`Subtree`); a note is live, trashed in a batch, or gone. An
attachment row carries its status, its age in windows, and its upload's program counter;
`objects` is the bucket. The upload is the code's three transactions with its puts in
between and its compensation; deletion, trash, restore, permanent delete and each sweep
are split where the code awaits. `missing` is the row state `failed` with
`processing_error = storage_object_missing`, which the sweeps treat differently. Every
attachment weighs one unit of quota. Left out: dry runs, workspace-scoped runs, batch
limits, plan windows, idempotent replay, moving notes, variants of different sizes,
`reportUnreferencedAttachments`.

### NoteRoom: two writers of one note

| Model | Code |
|---|---|
| `past`, `version`, `content` | `notes.version` and `notes.content`, with the content of every earlier version kept as history |
| `history` | `note_versions` |
| `state` | the row of `note_collaboration_states`: epoch, last and projected revision, projected version |
| `log` | the rows of `note_collaboration_updates` of the current epoch; a reset deletes all others |
| `timer[i]` | the entry of the projection service's `pending` map, plain or owing a boundary checkpoint |
| `run[i]` | a handshake or projection of process i, one value of `pc` per statement that reads, with what it has read |

A document is the set of edits in it, which is what the CRDT guarantees of merging. The
service's transactions run at PostgreSQL's default, READ COMMITTED, so each SELECT is a
step of its own; a transaction's writes lock the rows they compare, so they are one step,
at the point where the last of its compare-and-sets decides. `NotesService` runs its
transactions serializable, and each is one step. In one process at most one projection or
handshake runs at a time here; two processes supply the concurrency. Left out: frames,
acknowledgements and the client (CollabClient has them), authorization, the size ceiling,
the byte trigger of compaction, undecodable logs, the trash (a run that meets a trashed
note ends like a failing one).

### CollabClient: the provider of a tab

`client` is the provider object, field by field; `calls` are its requests without an
outcome, `frames` what is under way to it. Answers and frames arrive in any order, a call
may be refused or time out and its answer still arrive, and a lost connection loses what
was on it. A document is a set of structs marked with the history (the epoch) they were
made in, which is what makes two merged histories visible. The gateway's half of each
call is the `server...` actions. Left out: awareness, presence, what is shown of refusals.

### Autosave: one tab and its row

The reducer is a set of operators on `tab`, one per event of `autosaveReducer`; an action
dispatches one event, and the hook's effects (timers, requests) are part of it. `note` is
the row with its version check, `wire` the requests and answers under way, `render` a
render of the page that still brings an older version. `view` is a history variable: how
many of the others' writes the tab's text includes. The baseline an editor reports when it
has loaded is folded into the document the tab starts with. The editor's own history and the
rendering of documents are left out.

### NoteTree, SiblingOrder: the hierarchy

`NoteTree` has a transaction per session. A move or creation reads, takes the advisory
locks of the sibling groups it computed, reads again and commits (READ COMMITTED); trash,
restore and permanent deletion are SERIALIZABLE: they read one snapshot and fail if a row
they write has changed (`fresh`). `SiblingOrder` has positions in quanta, the distance
below which two doubles are equal, so that midpoints run out after a few placements. A
note's placement reads under the group's lock and is one step; a task's is SERIALIZABLE and
reads a snapshot taken before it waited. Left out: copies, board columns, depth limits.

### Membership

`open[s]` is a transaction with the locks it wants and holds, in the order the code takes
them; `check` evaluates what it reads under them and `commit` writes. What the policy
decides before the transaction starts is the guard of the action that begins it. `abort`
is a refused write, a lost connection or a deadlock victim, at any time; `NoLockCycle` says
that no two transactions ever wait for each other. Left out: tokens and listings;
e-mail is EmailDelivery.

### TaskRecurrence, AuthorizationPolicy: algorithms with a little state

`TaskRecurrence` counts days in a calendar given by constants; `nextOccurrence` is compared
with a reference: the least date of the series that is ahead. The policy is a decision
on a record of facts, for every action of the catalog; its steps change the facts as
sharing does. A project's restriction and its grants have no writer in the code: they are
external steps. Left out of the policy: decisions on sessions and for system actors, and
the loaders of facts.

### AiGeneration

`generation[r]` is a request on its way through admission (configuration, quota, burst
window) and generation; `rows` and `used` are `ai_usage`, `frames` the terminal frames a
reader got. The reader's departure, the deadline and the provider race each other.

### DomainBinding: claims, the DNS and the caches

| Model | Code |
|---|---|
| `claims` | `workspace_domains`; a claim's id stands for its token |
| `mirror` | `workspaces.domain` |
| `call[c]` | a call of `set`, `verify` or `remove`, with the claim it read when it began |
| `cache`, `lookup` | `VerifiedHostsService.cache` on one replica, for one host, and the lookup of it under way |
| `proved`, `unmirrored` | history variables: the claims whose records were seen; those whose mirror an older claim's late removal cleared |

`set` writes, forgets the old host and only then commits (`setCommit`); `verify` asks the
DNS before its transaction, and forgets the host, like `remove`, after it. The two unique
indexes refuse an insert or make it wait (`Undecided`), and a workspace's row, which every
write ends in, stays locked until the commit. The entries of the caches share nothing, so
one host on one replica is followed and a call is made there or elsewhere. What the DNS
answers is arbitrary. A replica that dies forgets, as by an expiry, and a rolled back call
leaves nothing. Left out: the naming rules of hosts, `resolve`, and reading a workspace's
claim.

### NamedCreation: names, keys and retries

Tags (READ COMMITTED, a lock for the ceiling, an index for the names) and the statuses of a
whole workspace (SERIALIZABLE, no index), as two kinds of one module: `request`, the
advisory lock of the idempotency key with the reading of its record, the checks, and the
writes with the commit. A serializable transaction reads from `snap`, taken before it waits
for the lock; a commit it clashes with spoils it, any other may (`Disturbed`), and
`TriesAgain` is the loop of `DatabaseService.transaction`. A lost connection leaves what a
request that never came, or whose answer nobody reads, leaves. Left out: statuses of one
project, which an index guards, colours, assignments, and the authorization.

## Runs

| Run | Question | Result |
|---|---|---|
| `outbox_operator` | one intent, two processes, crashes, shutdowns, aborted cycles, failing statements and an operator retry: do both tables agree, is nothing settled run, is JobPromise implemented, does the intent settle? | holds |
| `outbox_delivery` | a job delivered repeatedly to three workers (expired locks, forgetful Redis, crashes), of a valid, an invalid or an unconsumed intent: nothing open overlapped, nothing ambiguous resent, completion true? | holds |
| `storage` | two uploads under a quota of one, with a pass, deletions and the trash; and two notes with trash, restore, purge and delete in every order | holds |
| `storage_replicas` | two processes sweep at once, nothing is restored: ready rows keep their bytes, every reservation and stranded object is resolved | holds |
| `storage_restored` | a restore inside a purge | `ReadyHasBytes` violated |
| `room_writers` | two processes beside saves, moves, restores and departures, with failures and crashes at will: the two writers of a note never overwrite each other | holds |
| `room_accepted` | two processes, no other writer, no failure | `AcceptedIsNotLost` violated |
| `handlers` | a valid, an invalid and an unconsumed intent on one node, which settle unless a fault leaves them under a failed job; a webhook administered and delivered; a delivery replayed; mail; a mention; the index and its rebuild | holds |
| `requests` | an export, a tab's saves, a tab in a room, AI requests, domains, tags and statuses: is what they are told true, and does each end? | holds |
| `workspace` | members, the tree, the order of notes and of tasks, recurrence, the policy, AI quota: the rules hold under concurrent transactions | holds |
| `tree_cycle` | moves under way at the same time | `Acyclic` violated |
| `tab_histories` | a tab reconnects to a room rebuilt meanwhile | `HistoriesStayApart` violated |

The properties of the last passing runs are conjunctions of what the modules state
separately: `PipelineSettles` (the outbox settles its intents and keeps a record of those
given up on), `JobsConclude` (whatever the outbox does with its rows: events conclude, mail
settles, whoever is mentioned is told), `MessagesAreTrue` (mail and mentions),
`EventsAreTold` (webhook events and replays), `ClaimsInv` (domains, names, ceilings and
repeated requests), `IndexIsRepaired` (a lone writer converges; a rebuild with no other
writer repairs), `RequestsConclude` (exports settle and are reclaimed, saves are answered
and edits saved, synced edits arrive, AI requests end, a released domain is distrusted
everywhere, creations are answered), `TrashIsSound` (restoring undoes one deletion, purging
spares what is live), `EverythingInPlace` (the notes are a forest, with as few moves at a
time as the bounds of `workspace` allow: with more it is false, as `tree_cycle` shows; a row
lands where it was asked for and the others keep their order).

### Bounds, and why they are enough

Two processes make every pairwise race of dispatcher, worker and operator, and the three of
`outbox_delivery` let a worker act on what two others left behind; rows do not influence
each other except through a batch, which the pipeline of `handlers` covers with three (in
`outbox_delivery` the constraint `OneIntent` keeps to behaviours with one). Two attempts
distinguish a retry from a last attempt. Fault budgets of two or more allow a crash during
the recovery from another fault; `MaxRetries = 1` allows a revived intent to fail again. In
AttachmentStorage a two-note chain with the attachment below is the least tree with a batch
inside a batch; `MaxRestores = 2` lets a restored note be trashed again and restored again;
`storage_replicas` has no restores, because one inside a purge violates `ReadyHasBytes`:
that is the finding of `storage_restored`, and what holds without the race is worth a
record. Exports share nothing but workers and sweeps, webhook events nothing but their
endpoint, e-mails nothing but the preference: one intent with two invocations has every
race, and replays and index syncs, which do interact, have two. In NoteRoom, `CompactAt = 2`
stands for 64 rows, and `MaxInputs = 3` lets three of updates, departures, saves, moves and
restores meet in any mix. Statements fail and processes die there without a bound.

In `requests`, a tab types one document over the one it opened and one page size against one
foreign write, one render -- which the writer asked for or a ticked task caused -- and one
network fault: the least in which a lost answer meets a conflict. In the room of a
collaborative tab one edit is made, by it or by another, and it meets two faults, or one and
a rebuild, which share one allowance; the code's own limits are scaled down to two
handshakes and two flushes, so that two faults use either of them up. Two AI requests, one
of them streamed, have every race of the reader, the deadline and the provider; four of them
in `workspace`, against a quota and a burst limit of one and over three minutes, overshoot
the quota by exactly what the bound allows. Two workspaces with two hosts, two claims and
three calls, two at a time, let a verification meet a replacement and a removal, of its own
host and of the other's; three requests with two keys, two names, a ceiling of two and three
tries let a repetition, a clash and a retry meet. In `handlers`, one recipient and two saves
are enough for a mention that is taken back and made again. In `workspace`, three users with
two founding owners and two transactions at a time are the least in which both owners may
leave at once and a third be promoted meanwhile; two sessions on four notes (three of them a
chain and a neighbour) hold with three transactions, and the third concurrent session is the
finding; positions have four quanta a unit, so the third placement in a gap finds it closed;
a year of three months of three and four days has a shorter month after a longer one, and a
horizon within reach.

Deadlock checking is off where the system really may rest: a pipeline whose intents are
all settled and deleted has nothing left to do, nor has a note nobody edits, a workspace
whose bounded transactions are spent or a tab that is closed. In the storage runs a sweep
can always start. `workspace` uses the symmetry of founders, invitations, sessions and
collected AI requests: its properties are safety properties that do not tell them apart.

### Fairness, and why the code justifies it

`JobOutbox`: dispatcher cycles are started by an interval on every process, a started
handler ends because its lane has a timeout, BullMQ redelivers stalled jobs, processes are
restarted by the supervisor and clocks advance (weak fairness). A worker takes a waiting job
it is offered again and again (strong fairness on `WorkerTake`: other workers may take it in
between). Nobody has to insert, retry or clean up, and nothing removes a failed job:
`removeOnFail` is applied when another job of the queue ends, which may never happen, and
until then `queue.add` under the id of the row does nothing. So an intent settles, or it is
`Stranded`: a fault struck, its job failed before the row was written, and the row waits for
an operator (`EventuallySettled`). The modules over `JobConsumer` take delivery and the end
of a started handler from that, for an intent that is not stranded; `SearchIndex` adds that
a started rebuild goes on. `AttachmentStorage` and `ExportJob`: passes are started by the
scheduler, a started request ends or dies, time passes. `Autosave`: timers elapse and a
request is answered or given up on, because the client has a timeout; nobody has to type,
come back online or render. `CollabClient`: timers elapse, a call is answered or times out,
frames arrive or are lost with their connection. `AiGeneration`: statements return, the
deadline fires, and a provider whose call is aborted ends; a provider that is not aborted
need not. Its safety needs a bound on time, too: the deadline ends a generation within
`Timeout` windows, and between the answer of the quota and the burst check at most
`Patience` windows end. The code sets no such number, so the theorem is for every one; with
none, neither is there a bound on what requests that wait there may use beyond the quota.
Runs with liveness have finitely many faults by their bounds. `DomainBinding`: entries of a
cache expire. `NamedCreation`: transactions go on, because the statements of the others end.
`NoteRoom` has no liveness property.

## Findings

Each of these is the counterexample of a run.

* A purge removes the objects it read even when its DELETE matched nothing, so a note
  restored at that moment keeps its rows and loses its files (`storage_restored`).
* `rebuild` reads the epoch it compares against after the decision to rebuild was made, so
  the loser of a race replaces the generation the winner started, and an update accepted
  in between is dropped (`room_accepted`). The projection that loses the version
  compare-and-set to another projection rebuilds in the same way.
* The locks of a move come from the subtree it read; when a note has been moved into that
  subtree since, the locks of two moves miss each other and they close a cycle
  (`tree_cycle`). The comment there expects stale membership, "not a cycle".
* The provider adopts a newer epoch in its handshake without discarding its document, so
  the old history's structs merge into the new one and are sent to the room
  (`tab_histories`).

Observations, stated here without a run of their own:

* Outbox. `releaseExecution` (`queue-outbox.repository.ts:197`) gives back any `processing`
  key of the intent: a crash and then one failing claim statement make the pipeline resend
  what part-50's document says is never resent. `markFailed` (line 218) is fenced neither by
  the row's status nor by the attempt, and `claimExecution` accepts a `failed` key, so once
  an intent has failed a worker that read the row before may run it, and where two more
  deliveries are under way a third may fail the key of that run and a fourth run beside it.
  The handlers' own guards are all there is then; while the intent is open the key holds,
  which is what `NeverOverlappedOrResent` says. The rollout gate can leave a published job
  over a pending row, which the worker then fails for good as `intent_invalid`
  (`outbox-dispatcher.service.ts:37`). `removeOnFail` prunes the BullMQ job the operator's
  retry needs, while the row is kept for it (`queue-infrastructure.service.ts:85`). A worker
  that is refused during a shutdown, or whose statement fails, in the last attempt leaves
  its row `dispatched` under a failed job (`Stranded`): the recovery publishes under an id
  that is taken, and only retention, which runs when another job of the queue ends, or the
  operator can free it.
* Storage. The purge's DELETE repeats `is_deleted` but not the age it selected by: a note
  restored and trashed again in between is purged with its window just begun
  (`storage-maintenance.service.ts:912`, against `docs/tenant-and-retention.md:228`):
  `AttachmentStoragePurged.cfg` has TLC show it, as a violation of `RetentionHonoured`. The
  orphan sweep lists the bucket from its first key with no cursor: enough live objects at
  the front hide the rest (`storage-maintenance.service.ts:341`). An attachment deleted
  during its upload is announced as created (`attachments.service.ts:392`).
* Exports. A queued export can outlive its intent, when every attempt fails before the claim.
* Rooms. A projection superseded by another process's compaction is not scheduled again;
  `note-collaboration.projection.ts:19` counts on the next handshake, which schedules
  nothing. The revision of a rebuilt room is computed from an earlier read and may repeat
  one that was given out. A save or a move made without the log starts a new epoch from the
  note and so drops accepted updates that were not projected yet.
* Collaborative tab. A reset frame is dropped while the provider's epoch is 0, on the ground
  that the handshake in flight reads at or beyond that epoch (line 984); the handshake may
  have read an older one. A late acknowledgement can set the epoch of a document that has
  not been filled (line 707), which `NoteEditorSurface.tsx:358` takes for filled. A send that
  fails after a reset is requeued into the successor of its document (line 730), though line
  1131 has everything local discarded: `CollabRequeued.cfg` has TLC show it, as a violation
  of `PendingIsInDocument`.
* Autosave. A render of the page after a task was ticked, which started before a save,
  replaces what is being typed (`TiptapEditor.tsx:596` says it does not): `AutosaveTask.cfg`
  has TLC show it, as a violation of `RefreshSparesTyping`. A patch merged
  while a backoff timer is pending can outlive the timer.
* Hierarchy. Two sessions can leave a child in the folder its parent has just left, against
  `notes.service.ts:339`; a trash operation whose snapshot precedes a move leaves a live
  note under a trashed parent. Two tasks placed by snapshots can share a position.
* Recurrence. A completed task that is reopened and completed again spawns a second
  successor.
* Webhooks. Deleting an endpoint while a delivery is under way makes the record violate its
  foreign key, so the intent is buried rather than recorded and finished. An endpoint
  moved to another address while its verification is under way may be marked verified.
* Domains. A removal that is slow to write clears `workspaces.domain` even if a newer claim
  has been verified meanwhile (`domains.service.ts:277`). `set` forgets the old host before its
  commit, so a lookup in between remembers it again, for as long as an entry lives.
* Names. The records of idempotency keys carry a date of expiry that nothing reads, and
  nothing prunes them. The notes to index after a tag was renamed are read before the
  update, so a note linked in between keeps the old name (`tags.service.ts:218`).
* Mentions. Access lost between the authorization and the mail still sends the mail, which
  is as much as the code promises.
* E-mail. An invitation whose attempt is cut short may stay `processing`.
* Search. With two handlers at work at once, a document written by the older one after the
  newer one's deletion stays; nothing but a rebuild or the note's next change removes it.
* AI. A reader who leaves during admission is not noticed until the stream begins. A
  generation that times out without a usage event is metered without tokens and never
  counts towards the quota.

## Proofs

`JobOutbox_proofs` holds, for any sets of intents and nodes, any bounds, any fault kinds
(assuming only `ConstantsAssumption`):

* `TypeCorrect`: `Spec => []TypeOK`. TypeOK is inductive as it stands, because it includes
  that a busy slot or loop knows its row.
* `CompletionIsTrue`: `Spec => []CompletedMeansReturned`. The property is not inductive:
  the completing transaction runs two steps after the handler returned. The strengthening
  adds that a slot about to complete holds an intent in `returned`; with it every step
  that writes `completed` (the worker's completion, and a replay that copies a completed
  key to the row) is covered.
* `CompletionIsFinal`: no step leaves `completed` except the retention delete. It is an
  action property that follows from the guards of each write, action by action.
* `KnownAlways`: jobs, slots and batches are about rows that exist, a job, a slot and a key in
  `processing` only about rows somebody consumes (`Known`). The theorems below rest on it.

The others need to know how a job is delivered, and say so. `ExclusiveDelivery` is that no
lock expires under a live worker and Redis keeps its jobs; crashes, shutdowns, aborted
cycles, failing statements and operator retries stay:

* `OneWorkerPerJob`: a busy slot holds the lock of its job (`Delivered`), so two busy slots
  are never about the same row.
* `KeysAreNotPoisoned` and `SettledIsNotRun`: `NoPoisonedKey` and `NoRunAfterSettlement`. The
  inductive invariant is `Exclusive`: Delivered; that the intent of a slot is open from its
  claim to its completion and its key in `processing` during the run (`SlotsHold`); and
  NoPoisonedKey, which needs both.
* `PipelineKeepsPromise`: the refinement to JobPromise (`KeepsPromise`). Every step leaves all
  phases alone or makes one legal move of one intent (`PhasesStep`).
* `RunsAreNotResent`: `NeverOverlappedOrResent`, if moreover no statement of a worker fails
  and every process holds the handler, since otherwise `releaseExecution` gives away a key.
  `AmbiguousHeld` adds that the key of an open intent with an unknown outcome stays in
  `processing` or `reconciliation_required` and that no slot is left that could release it.

`RunsAreNotOverlapped` is the other half: locks do expire and Redis does forget, and
`NeverOverlappedOrResent` still holds, for any number of workers, as long as no process
shuts down or lacks the handler (a pending row would be known to BullMQ), no statement of a
worker fails and nobody reopens intents (`RoughDelivery`). `KeysHeld` says that while an
intent is open the key of a slot past the claim is in `processing` or quarantined, that a
key in `processing` has one such slot at most, and none once an outcome is unknown. An
attempt to prove these two without the guard that the intent is open failed, and TLC found
the run of a failed intent that the observations describe, with three workers.

Three things carry the argument. The lemmas before the theorems say what one statement
(`SetOutboxIf`, `markFailed`, ...) and one move of a slot do to the rows. `NextShape` sorts
every step into what the environment does to rows (`Environment`), a slot that moves
(`SlotOnly`) and a statement by which a worker writes (`SlotWrites`), so that an
invariant has three cases instead of thirty. Each invariant is then kept by those three.

`AttachmentStorage_proofs` holds, for any forest of notes, any number of uploads, passes,
restores and faults:

* `StorageTypeCorrect`: `Spec => []TypeOK`.
* `TrashIsClosed`: the invariant `TreeInv`. `CascadesSpareLive`: no cascade deletes a live
  note (`CascadeSparesLive`). The property is not inductive, since whether a delete spares
  live notes depends on where the batches lie; TreeInv adds that the ancestors of a
  live note are live (`LiveAbove`), that what is below a gone note is gone (`GoneBelow`)
  and that a batch has no holes along a path (`BatchConvex`), which every trash, restore
  and delete keeps.
* `LossRecordsKept`: the record of a lost object is never deleted as an abandoned upload
  (`RecordOfLossIsKept`). Its invariant `LossInv` adds that only the row of an upload that
  is over ages (`OldMeansOver`), and that the rows a sweep is about to delete have no
  upload that could still make them ready (`DoomedRows`).
* `QuotaIsRespected`: `Spec => []QuotaRespected` for any limit. `UploadRows` ties what an
  upload is doing to what its row says, so that nothing but a reservation makes a row count.
* `ReadyRowsKeepBytes` (`ReadyHasBytes`), under `MaxRestores = 0`: with a restore inside a
  purge it is false, which `storage_restored` shows. What a pass means to purge is and stays
  past retention (`CandidatesExpired`). `BytesInv` says what each actor may take for granted
  of the keys it removes many steps after it chose them: those of an abandoned upload and
  those without an owner belong to an upload that is over and whose row can no longer turn
  ready (`Unready`), those of a deletion to a row that is gone, those of a purge to a note
  that is gone; and what an upload has put stays until it commits (`Stored`).

`JobConsumer_proofs` holds, for any intents, invocations, attempts, retries and faults
(assuming only `JobAssumption`):

* `ConsumerImplementsPromise`: every behaviour of a handler's intents is one of JobPromise. A
  step of the pipeline maps to a step of the abstract intent or to a stutter; the two
  that need an invariant are the ends of invocations. `ConsumerInv` says that an
  invocation that was not given up on has its intent executing, that no two such
  invocations share one, that an abandoned one still has its intent, and that an intent not
  yet settled has attempts left, so that an `End` that settles is a legal one.

`Handlers_proofs` holds of four handlers, each over `ConsumerInv` and in the same
generality.

Of mails, for each of the ways in which they are claimed:

* `MailsAreTrue`: `EmailSpec => []MailInv`. Nobody is sent the same mail twice, the record
  agrees with the mailbox, and an intent that ended leaves no open delivery where nothing
  struck. `MailIInv` adds that each delivery has one row that decides who sends (the
  delivery's own, or the intent's for a mail of the sign-in), that the row has left its first
  states before anything is sent (`JobsOK`), and that whoever is sending found it so and
  is alone (`WorkersOK`, `OneSends`; `OneDecides` for the lock of an invitation).
* `SettledMailIsKept`: what is settled stays settled, whatever a late attempt still writes
  (`SettledMailStays`).
* `MailsKeepPromise`: the refinement to JobPromise.

Of the syncs of the search index (assuming also `SearchAssumption`, that the bound on changes
is a number):

* `IndexIsExplained`: `SearchSpec => []IndexInv`. A document that is not its note's state
  has an open intent, an overlap of two writers or a fault to blame; a rebuild is never to
  blame by itself, and the property does not excuse one under way. `SearchIInv` says it of
  what will be written, too: what a writer has read of a note is current, or another open
  intent has the note (`ReadsAreOwed`), and so is what the index and a rebuild have
  (`DriftIsOwed`), because without an overlap one writer is at work at a time (`OneWriter`).
* `RebuildsRepair`: a rebuild that nothing disturbed leaves the index as the notes are,
  whatever was wrong before (`RebuildRepairs`). `RepairOf` says of each stage of the rebuild
  what it has left to do for a note.
* `SyncsKeepPromise`: the refinement to JobPromise (`IntentsKeepPromise`).

Of webhook events, for any administration of the endpoint:

* `HooksAreTrue`: `WebhookSpec => []WebhookInv`. An event is buried or delivered again only
  where something struck or the endpoint is gone, and what is done has a final row that
  claims no success the receiver never saw. `HookIInv` adds what nobody but a fault takes
  from an attempt (`WorkersOK`): it counts the attempts as the pipeline does, and until it
  has sent, the receiver has accepted nothing of the event, unless the endpoint is gone, and
  then it will not send.
* `EntitledSendsOnly`: an attempt that began when its endpoint was disabled, moved, unverified
  or deleted, or when its creator had lost the resource, sends nothing unless that was mended
  meanwhile (`SendsOnlyIfEntitled`): a barred attempt is on its way to be refused (`BarredOK`).
* `HooksKeepPromise`: the refinement to JobPromise.

Of mentions:

* `MentionsAreTrue`: `MentionSpec => []MentionInv`. The hard conjunct is that a recipient
  gets no more notifications than operators and unheard answers asked for. It is proved by
  counting: the notifications that are there, the invocations that may yet insert one
  (`Pending`) and the one still to be asked for (`Expected`) are together no more than that
  (`NoticesCount`), and every step moves one from one place to the next. The others follow
  from what an invocation has established by its place in the handler (`NotifierOK`) and
  from what is remembered of the recipient's access (`PastIsKnown`).
* `MentionsKeepPromise`: the refinement to JobPromise.

Of all of them together, under the specification `handlers` checks, where a step of one
subject leaves the others' variables alone and a handler's step is one of its own module:
`EventsAlwaysTold`, `MessagesAlwaysTrue` and `IndexAlwaysExplained` are the three invariants of
the run, `HandlersStaySound` its action properties with the repair by a rebuild, and
`HandlersKeepPromise` says that whatever handler is looked at, its intents refine JobPromise.

`NoteRoom_proofs` holds, for any number of processes, edits and writers, any compaction
threshold and any number of failures (assuming only `RoomAssumption`):

* `RoomTypeCorrect`: `Spec => []TypeOK`. It needs `VersionsExist`: a run that is about to
  use a version of the note has one that the note had.
* `RoomCoversNoteAlways` and `HistoryIsTrueAlways`: the two state invariants. Neither is
  inductive alone. `RoomInv` adds `CursorOK` (the projected revision and the projected
  version stay behind what they count) and `ViewsOK`: what a run has read of the room is
  of an earlier epoch, or of an earlier or the same revision of this one, and wherever its
  compare-and-set would still succeed its document is the document of the log. Every
  step of another process either advances the epoch or the revision, or leaves the log as
  it is (`ViewsStay`), which is why nobody needs a lock.
* `ProjectionKeepsContentAlways`: the version comparison of a projection gives that the
  room is not behind the note (by `CursorOK`), so the room covers the note, and the
  revision comparison gives that the projection writes the room (`ProjectDocument`).
* `GenerationKeepsUpdatesAlways`: compaction, in a projection or at a boundary, replaces
  the log by its own document (`ProjectDocument`, `SettleDocument`).

`Requests_proofs` holds of four components that `requests` checks. Of exports, over
`ConsumerInv` and in the generality of JobConsumer:

* `ExportsAreTrue`: `Spec => []ExportInv`. The artefact of a ready row is in the bucket, and
  an announcement was made once, of an export that became ready.
* `ExportKeepsPromise`: the refinement to JobPromise, from the theorem above, and that a
  settled export stays settled.

Neither conjunct of `ExportInv` is inductive. `ExportIInv` adds that one invocation at most is
past the claim of an export and that the row of its export is what its place in the
handler requires (`ExportWorkersOK`, `ClaimsOK`), that a row names a key only once it has been
ready (`RowsOK`), and that what a pass has read stays true until it acts on it (`SweepOK`):
rows it releases are expired, and objects it removes belong to no running handler.

Of the autosave of a tab, for any documents, edits, writes of others, faults and attempts,
alone or in a room (assuming only `TabAssumption`):

* `NoUpdateIsLost`: `TabSpec => NoLostUpdate`, for renders of any cause. A patch that the
  server accepts was composed by a writer who had been shown every write of somebody else
  that it lands on.
* `TypedIsKept`: `TabSpec => []TabInv`, likewise for renders of any cause. What the writer
  typed (the history variable `typed`) is queued, or else under way, or else what the server
  acknowledged, until a render with a newer row re-seeds the editor (`TypedIsHeld`). What
  the editor shows is another matter (see the observations): it may lag behind what is
  queued.
* `TabIsGrounded`: the invariant both rest on, `TabIInv`. A version of the row stands for the
  writes of others it includes, so that a tab whose version is the row's has seen them
  all, and has them in what it has queued and sent (`Grounded`); the open request is
  what is in flight, over the tab's version, and the version its answer brings stands for
  the same (`Covered`); what the tab believes is saved is what the row says at that
  version (`SavedOK`). Each operation of the reducer keeps these (`Core`), whatever it does to
  timers and status, except that a reload needs a conflict to be with a newer row
  (`ConflictOK`).

Of domains and of names, for any workspaces, hosts, calls, claims, requests, keys and ceilings
(assuming only `NamesAssumption`: values that mean "none" are none of the others):

* `ClaimsAreTrue`: `MCSpec => []ClaimsInv`. For domains, `DomainIInv` follows each call with
  the claim it has read, possibly long ago: whatever claim has that id now has its workspace
  and host (`CallOK`), a transaction about to commit has nothing in its way and no other
  beside it for the same workspace or host (`CommitOK`, `CommitsApart`), and a lookup that
  is going to be remembered was not outdated since (`LookupIsTrue`). For names, `NamesIInv`
  says what a transaction may rely on although it decides from a snapshot: a tag's key and
  the ceiling are held by a lock (`LocksHold`), a record once written stays (`RecordsStay`),
  and a serializable transaction that nothing has spoiled has seen what matters to it
  (`SeenIsThere`), so the check it made against its snapshot still stands at its commit
  (`NameWasFree`).

`CollabClient_proofs` is about the shared document of a tab, for any handshakes, flushes,
edits, rebuilds and faults (assuming only that `MaxHandshakes` is a number):

* `RoomIsAwaited`: `ClientSpec => [](ClientTypeOK /\ RoomIsComing)`, two of the three
  conjuncts of `ClientInv`. A connected tab whose document has no room, or that has stopped
  writing, has a handshake under way or due or has used them up. `ClientIInv` adds which
  calls may succeed: a sync under way under the token of the present handshake is for the
  present document (`CallGood`), because a reset takes a token of its own, and so a success
  that was overtaken never ends the handshake that overtook it. The other danger is an
  update that is refused because its socket has left the room: until the refusal is read, no
  sync is under way that could be answered before it (`Unread`). The third conjunct,
  `TypedIsCarried`, is model-checked only: what was typed and the room lacks is on its way
  to it.

`Workspace_proofs` holds of five components that `workspace` checks. Of members, for any
number of people, invitations, open transactions and requests (assuming only
`MembershipAssumption`):

* `MembersAlways`: `MemberSpec => []MembersInv`. `MembersIInv` follows each transaction along
  the plan of its operation: it holds the first locks of the plan and waits for the next one
  (`Along`), no lock is held twice (`Exclusive`), and a locked member is there
  (`RowsHeld`). `Decided` is why the statements of a transaction may decide and write
  apart: what its checks found -- another owner, a role its author may grant or manage,
  an invitation not yet settled -- is still so at its commit, because whoever could
  change it needs a lock it holds. `NoLockCycle` is not part of the induction: the plans
  take the owners lock and the addresses before any row of a member, and the operations that
  take two such rows hold the owners lock (`WaitsInOrder`).
* `RolesAreGrantedAlways`: `AuthorityIsCurrent` is `Decided` at the commit, and
  `JoinsByInvitation` says by cases what each commit does to members and invitations.
* `WorkspaceMembers`: the same two under the specification of the run.

Of the authorization policy, for any matrix of verbs (assuming `ProjectAssumption`: that a
resource is in no project is told from its being in one):

* `PolicyAgrees`: `MCSpec => []PolicyInv`, on every request of the shape the loaders give
  (`PolicyTyped`): the decisions for the roles are nested, nobody passes a restricted
  project without a grant, a key may what its scope and its owner may, search shows what
  reading allows.
* `ClosingOpensNothing`: no restriction or revocation lets anybody do what he could not do
  before (`NothingOpensByClosing`). Such a step leaves less to decide in favour (`Tighter`),
  and each predicate is shown to be monotone in that.

Of the hierarchy of notes, for any tree and any number of concurrent transactions (assuming
only `HierarchyAssumption`):

* `TrashIsAlwaysSound`, of two parts. `RestoresUndoDeletions`: what one deletion took comes
  back whole and alone (`RestoreUndoesDeletion`). The code finds what to restore in the
  subtree as it is by then, which moves have changed since the deletion. `TreeIInv` is why
  that is enough: what a deletion took hangs from one note (`Rooted`), along notes that were
  in the trash then or came with it, and none of these can be moved. So the only note of a
  batch whose ancestors are live is that one, and it finds the whole batch below itself.
  Every step keeps this: another deletion adds a batch that hangs from its own root, a
  restoration takes away a whole batch, on whose root no other one rests (its ancestors are
  live), and a purge takes everything below what it takes. `Relies` says what an open
  transaction may still take for granted. `PurgesSpareTheLiving`: a permanent deletion
  removes nothing live (`PurgeSparesTheLiving`): what it has read is trash, only a
  restoration makes a trashed note live, and no other serializable operation is open; what
  was put below meanwhile makes the subtree another one, which refuses it.

That `noteSubtree` is the least set closed under children (`SubtreeIs`) is proved without
induction: of the sets on which the recursive function would be wrong, a largest one
(`GreatestSet`) is a contradiction.

Of recurring tasks, for any week, any horizon and any calendar whose months follow one
another and are none longer than two others together (`CalendarAssumption`, which also has
the calendar reach as far as the updates can put a task off):

* `SuccessorsAreFirst`: `MCSpec => []SuccessorInv`. What `nextOccurrence` computes, by division
  for days and weeks and by a loop over clamped months, is the least date of the series that is
  ahead. Dates of successive months are in order however they are clamped, so the
  first one the loop finds ahead is the least, and the loop ends within the horizon or
  there is none. `RecurrenceIInv` adds that a task lies within the months its updates can have
  reached (`Due`), so that the calendar has the days that are asked for.

Of AI requests, for any number of requests, any quota and any limit (assuming only
`MeteringAssumption`):

* `BooksAgree`: `MCSpec => []MeteringInv`. The bound on the daily quota is not inductive: what
  can still be used depends on what is open, and that on when it was let in. `Counted` says
  that what is open since a minute was let in by the burst windows passed since, that nothing
  generates longer than its timeout or waits for its burst check longer than `Patience`
  (`Lasting`), and that once the quota is reached, what is used and what the open ones may
  still use (`Crowd`) are within the bound: whoever asks for the quota then is refused, and
  those that have its answer are let in by the windows that are left to them.
  `Story` and `Row` tie the stage of a request to the frames its reader got and to its row.

Out of the prover's reach, and therefore only model-checked: liveness under fairness, and
what `ENABLED` says; refinements and invariants that would need induction over data (the
induction theorems of the library take operator parameters). Where an induction is over
numbers or finite sets, a least or a largest counterexample has replaced it here, as for
`noteSubtree` and for the months of a recipe. Also only model-checked:
`EverythingInPlace`, because its first part is false in general (`tree_cycle`) and in the other
positions are computed from sequences sorted by a fold and from halves that run out.
The other safety properties of the passing runs are stated by the theorems above; for those
under a hypothesis the hypothesis is given there.

## Plan

Modelled and checked: JobOutbox, JobPromise, JobConsumer, ExportJob, WebhookDelivery,
EmailDelivery, MentionNotify, SearchIndex, AttachmentStorage, NoteRoom, CollabClient,
Autosave, NoteTree, SiblingOrder, Membership, TaskRecurrence, AuthorizationPolicy,
AiGeneration, DomainBinding, NamedCreation. What remains, by how much depends on it:

1. Theorems: the order of siblings (SiblingOrder); that the notes are a forest as long as no
   two moves meet in one subtree (NoteTree).
2. Scan limits with their missing cursor, batch limits and plan windows of the sweeps.
3. Liveness of a room's projection, and CollabClient composed with NoteRoom.
4. Downloads and grants of exports; embeddings and hybrid ranking.

## Not modelled

Rendering and user interface, schemas and validators, OpenAPI, configuration, metrics and
health; sessions, which better-auth keeps; the CRDT merge of the yjs library; providers
behind the network. They are most of the source by volume: what carries protocol
and state, and is modelled here, is a small part of it. Comments, projects and the
reading of notifications are single-transaction CRUD; sign-in, lockout and API keys write
single rows. PROJECT.json lists every part with its status,
and every hazard with the property that covers it or the reason none does.
