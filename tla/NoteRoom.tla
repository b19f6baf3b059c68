------------------------------ MODULE NoteRoom ------------------------------
(***************************************************************************)
(* The server side of collaborative editing of one note.  Accepted updates *)
(* are appended to a log; a debounced projection folds the log back into   *)
(* notes.content.  Saves, moves and restores write the same notes row      *)
(* without the log.  Nobody holds a lock across transactions: the columns  *)
(* notes.version, epoch and last_revision are compared and set.            *)
(*                                                                         *)
(* A document is the set of the edits applied to it.  Transactions of the  *)
(* collaboration service are READ COMMITTED, so each of their statements   *)
(* reads what is committed at that moment: a SELECT is one step, and the   *)
(* writes of a transaction take effect together in its last step.          *)
(***************************************************************************)
EXTENDS Naturals, Sequences, FiniteSets

CONSTANTS
    Instances,      \* API processes; a process runs one projection or handshake at
                    \* a time here, concurrent ones are those of two processes
    Edits,          \* collaborative updates; a client may send one more than once
    Refused,        \* updates whose document fails the note contract
    Writes,         \* what non-collaborative saves add to the content
    CompactAt,      \* update rows that make a projection fold the log (64 in the code)
    MaxRebuilds,    \* MAX_ROOM_REBUILDS
    MaxInputs,      \* bound: accepted updates, departures and commits of other writers
    Faulty          \* whether statements fail and processes die, any number of times

ASSUME RoomAssumption ==
    /\ Refused \subseteq Edits
    /\ Edits \cap Writes = {}
    /\ CompactAt \in Nat \ {0}
    /\ {MaxRebuilds, MaxInputs} \subseteq Nat
    /\ Faulty \in BOOLEAN

VARIABLES
    past,       \* content of the note by version; the notes row holds the last one
    history,    \* note_versions: the content recorded for some of the versions
    state,      \* the row of note_collaboration_states; epoch 0 means there is none
    log,        \* the rows of note_collaboration_updates, all of the current epoch
    timer,      \* per process: the projection its debounce will start
    run,        \* per process: the projection or handshake it is running
    inputs      \* accepted updates, departures and commits of other writers so far

vars == <<past, history, state, log, timer, run, inputs>>

room == <<state, log>>

Documents == SUBSET (Edits \cup Writes)
version == Len(past)
content == past[version]

State == [epoch : Nat, last : Nat, projected : Nat, version : Nat]
Row == [revision : Nat, kind : {"snapshot", "update"}, items : Documents]
Document(rows) == UNION {r.items : r \in rows}

Jobs == {"none", "sync", "project", "boundary", "settle"}
RunPC == {"idle", "note", "state", "records", "rebuildNote", "rebuildState", "reset",
          "write", "settleNote", "settle"}

\* What a run has read so far: notes.version; the state row, of which owed says that
\* last_revision is past projected_revision; the log.
View == [version : Nat, epoch : Nat, last : Nat, owed : BOOLEAN, doc : Documents,
         updates : SUBSET Nat]
NoView == [version |-> 0, epoch |-> 0, last |-> 0, owed |-> FALSE, doc |-> {},
           updates |-> {}]

\* lost: the run rebuilds because its projection lost the compare-and-set.
Run == [pc : RunPC, job : Jobs, view : View, tries : Nat, lost : BOOLEAN]
Begin(job) == [pc |-> "note", job |-> job, view |-> NoView, tries |-> 0, lost |-> FALSE]
Rest == [Begin("none") EXCEPT !.pc = "idle"]

\* NotesService.create writes version 1 and its checkpoint.
Init ==
    /\ past = <<{}>>
    /\ history = [v \in {1} |-> {}]
    /\ state = [epoch |-> 0, last |-> 0, projected |-> 0, version |-> 0]
    /\ log = {}
    /\ timer = [i \in Instances |-> "none"]
    /\ run = [i \in Instances |-> Rest]
    /\ inputs = 0

----------------------------------------------------------------------------
(* Statements.                                                             *)

Record(v, document) ==
    history' = [u \in DOMAIN history \cup {v} |->
                  IF u = v THEN document ELSE history[u]]

Snapshot(revision, document) ==
    {[revision |-> revision, kind |-> "snapshot", items |-> document]}

\* A new generation: one snapshot row, and every older row deleted.
resetEpoch(epoch, revision, v, document) ==
    /\ state' = [epoch |-> epoch, last |-> revision, projected |-> revision, version |-> v]
    /\ log' = Snapshot(revision, document)

UpdateRevisions(rows) == {r.revision : r \in {q \in rows : q.kind = "update"}}

shouldCompact(forced, updates) ==
    \/ forced /\ updates # {}
    \/ Cardinality(updates) >= CompactAt

\* Mutant: the epoch alone is compared.
sameEpoch(v) == state.epoch = v.epoch

\* The compare-and-set of markProjected and writeSnapshotAndPrune.
unchangedSince(v) == state.epoch = v.epoch /\ state.last = v.last

----------------------------------------------------------------------------
(* Accepting updates.                                                      *)

Input == inputs < MaxInputs /\ inputs' = inputs + 1

\* schedule: an owed checkpoint is not lost to a later ordinary update.
Schedule(i, job) ==
    timer' = [timer EXCEPT ![i] = IF @ = "boundary" THEN @ ELSE job]

\* applyUpdate: the client named the current epoch (any other is refused as stale and
\* changes nothing), so a revision is allocated and the update appended.
AcceptUpdate(i, e) ==
    /\ state.epoch > 0
    /\ Input
    /\ state' = [state EXCEPT !.last = @ + 1]
    /\ log' = log \cup {[revision |-> state.last + 1, kind |-> "update", items |-> {e}]}
    /\ Schedule(i, "project")
    /\ UNCHANGED <<past, history, run>>

\* A participant left or was disconnected.
Leave(i) ==
    /\ Input
    /\ Schedule(i, "boundary")
    /\ UNCHANGED <<past, history, room, run>>

----------------------------------------------------------------------------
(* Loading the room: loadOrRebuild.                                        *)

Set(i, r) == run' = [run EXCEPT ![i] = r]
Idle(i) == run[i].pc = "idle"
Quiet == UNCHANGED <<past, history, room, timer, inputs>>

\* The handshake.
StartSync(i) ==
    /\ Idle(i)
    /\ Set(i, Begin("sync"))
    /\ Quiet

\* The debounce fires, or a shutdown flushes it.
StartProject(i) ==
    /\ Idle(i)
    /\ timer[i] # "none"
    /\ Set(i, Begin(timer[i]))
    /\ timer' = [timer EXCEPT ![i] = "none"]
    /\ UNCHANGED <<past, history, room, inputs>>

\* A projection that wrote nothing still owes the checkpoint of a boundary.
Skipped(job) == IF job = "boundary" THEN Begin("settle") ELSE Rest

\* What follows once a room is loaded.  Either there is nothing to project, or the
\* contract refuses the document and the log is left as it is.
Loaded(job, v) ==
    CASE job = "sync" -> Rest
      [] job = "settle" -> [Begin(job) EXCEPT !.pc = "settleNote", !.view = v]
      [] OTHER -> IF ~v.owed \/ v.doc \cap Refused # {}
                  THEN Skipped(job)
                  ELSE [Begin(job) EXCEPT !.pc = "write", !.view = v]

ReadNote(i) ==
    /\ run[i].pc = "note"
    /\ Set(i, [run[i] EXCEPT !.pc = "state", !.view.version = version])
    /\ Quiet

MustRebuild(r) == [r EXCEPT !.pc = "rebuildNote", !.view = NoView]

\* The room is usable; a handshake that only answers changes nothing any more.
Usable(r) ==
    IF r.job = "sync" THEN Rest
    ELSE [r EXCEPT !.pc = "records", !.view.epoch = state.epoch,
                   !.view.last = state.last, !.view.owed = state.projected < state.last]

\* Mutant: a note that moved on without the log is not noticed.
ReadStateTrusting(i) ==
    LET r == run[i] IN
    /\ r.pc = "state"
    /\ Set(i, IF state.epoch = 0 THEN MustRebuild(r) ELSE Usable(r))
    /\ Quiet

\* No row, or a row that is behind the note: rebuild, or give up after some tries.
ReadState(i) ==
    LET r == run[i] IN
    /\ r.pc = "state"
    /\ Set(i, IF state.epoch > 0 /\ state.version = r.view.version THEN Usable(r)
              ELSE IF r.tries < MaxRebuilds THEN MustRebuild(r) ELSE Rest)
    /\ Quiet

\* The rows of the epoch that was read; when it has been replaced there are none.
ReadRecords(i) ==
    LET r == run[i]
        rows == IF state.epoch = r.view.epoch THEN log ELSE {}
    IN
    /\ r.pc = "records"
    /\ Set(i, Loaded(r.job, [r.view EXCEPT !.doc = Document(rows),
                                           !.updates = UpdateRevisions(rows)]))
    /\ Quiet

----------------------------------------------------------------------------
(* Rebuilding the room from the note: rebuild.                             *)

RebuildReadNote(i) ==
    /\ run[i].pc = "rebuildNote"
    /\ Set(i, [run[i] EXCEPT !.pc = "rebuildState", !.view.version = version])
    /\ Quiet

RebuildReadState(i) ==
    /\ run[i].pc = "rebuildState"
    /\ Set(i, [run[i] EXCEPT !.pc = "reset", !.view.epoch = state.epoch,
                             !.view.last = state.last])
    /\ Quiet

Fresh(epoch, revision, v) ==
    [version |-> v, epoch |-> epoch, last |-> revision, owed |-> FALSE,
     doc |-> past[v], updates |-> {}]

\* The n-th rebuild of one transaction, which read version v of the note.
Rebuild(i, v, n) ==
    LET r == run[i]
        epoch == r.view.epoch + n
        revision == r.view.last + n
    IN
    /\ resetEpoch(epoch, revision, v, past[v])
    /\ Set(i, IF r.lost THEN Skipped(r.job) ELSE Loaded(r.job, Fresh(epoch, revision, v)))

\* The compare-and-set of resetEpoch is on the epoch.  The winner reads the room again
\* before it commits and, when the note moved meanwhile, rebuilds once more.
Reset(i) ==
    LET r == run[i] IN
    /\ r.pc = "reset"
    /\ \/ /\ state.epoch = r.view.epoch
          /\ \/ Rebuild(i, r.view.version, 1)
             \/ /\ version # r.view.version
                /\ ~r.lost
                /\ r.tries + 1 < MaxRebuilds
                /\ Rebuild(i, version, 2)
       \/ /\ state.epoch # r.view.epoch
          /\ Set(i, IF r.lost THEN Skipped(r.job)
                    ELSE [Begin(r.job) EXCEPT !.tries = r.tries + 1])
          /\ UNCHANGED room
    /\ UNCHANGED <<past, history, timer, inputs>>

----------------------------------------------------------------------------
(* Projecting: the second transaction of projectPending.                   *)

\* Steps 3 to 6: the cursor, compaction, the checkpoint.  Whether a checkpoint is due
\* without a boundary depends on the clock.
commitProjection(i) ==
    LET r == run[i]
        forced == r.job = "boundary"
        compact == shouldCompact(forced, r.view.updates)
        revision == IF compact THEN r.view.last + 1 ELSE r.view.last
    IN
    /\ state' = [state EXCEPT !.last = IF compact THEN @ + 1 ELSE @,
                              !.projected = revision, !.version = version + 1]
    /\ log' = IF compact THEN Snapshot(revision, r.view.doc) ELSE log
    /\ \E recorded \in BOOLEAN :
          /\ compact \/ forced => recorded
          /\ IF recorded THEN Record(version + 1, r.view.doc) ELSE UNCHANGED history

\* Mutant: the UPDATE of the note forgets the version.
ProjectBlindly(i) ==
    /\ run[i].pc = "write"
    /\ unchangedSince(run[i].view)
    /\ past' = Append(past, run[i].view.doc)
    /\ commitProjection(i)
    /\ Set(i, Rest)
    /\ UNCHANGED <<timer, inputs>>

Project(i) ==
    /\ run[i].pc = "write"
    /\ run[i].view.version = version
    /\ unchangedSince(run[i].view)
    /\ past' = Append(past, run[i].view.doc)
    /\ commitProjection(i)
    /\ Set(i, Rest)
    /\ UNCHANGED <<timer, inputs>>

\* ProjectionSupersededError: a newer update landed, the transaction rolls back.
ProjectSuperseded(i) ==
    /\ run[i].pc = "write"
    /\ run[i].view.version = version
    /\ ~unchangedSince(run[i].view)
    /\ Set(i, Skipped(run[i].job))
    /\ Quiet

\* The UPDATE of the note matched no row.
ProjectLost(i) ==
    /\ run[i].pc = "write"
    /\ run[i].view.version # version
    /\ Set(i, [MustRebuild(run[i]) EXCEPT !.lost = TRUE])
    /\ Quiet

----------------------------------------------------------------------------
(* The checkpoint a boundary owes: settleBoundary.                         *)

SettleReadNote(i) ==
    /\ run[i].pc = "settleNote"
    /\ Set(i, IF run[i].view.version = version THEN [run[i] EXCEPT !.pc = "settle"]
              ELSE Rest)
    /\ Quiet

\* Mutant: the checkpoint is taken from the room instead of the note.
SettleFromRoom(i) ==
    LET v == run[i].view IN
    /\ run[i].pc = "settle"
    /\ IF v.version \in DOMAIN history THEN UNCHANGED history
       ELSE Record(v.version, v.doc)
    /\ Set(i, Rest)
    /\ UNCHANGED <<past, room, timer, inputs>>

writeSnapshotAndPrune(v) ==
    /\ state' = [state EXCEPT !.last = @ + 1, !.projected = @ + 1]
    /\ log' = {r \in log : r.revision > state.last} \cup Snapshot(state.last + 1, v.doc)

Settle(i) ==
    LET v == run[i].view IN
    /\ run[i].pc = "settle"
    /\ IF shouldCompact(TRUE, v.updates) /\ unchangedSince(v)
       THEN writeSnapshotAndPrune(v) ELSE UNCHANGED room
    /\ IF v.version \in DOMAIN history THEN UNCHANGED history
       ELSE Record(v.version, past[v.version])
    /\ Set(i, Rest)
    /\ UNCHANGED <<past, timer, inputs>>

----------------------------------------------------------------------------
(* The other writers of the note: NotesService, serializable.              *)

\* A save under expectedVersion: its content grew from the one it replaces.
Update(w) ==
    /\ Input
    /\ \A v \in DOMAIN past : w \notin past[v]
    /\ past' = Append(past, content \cup {w})
    /\ Record(version + 1, content \cup {w})
    /\ UNCHANGED <<room, timer, run>>

\* A new title, a move, the trash: the version moves, the content does not.  Only
\* update records a checkpoint.
Touch(recorded) ==
    /\ Input
    /\ past' = Append(past, content)
    /\ IF recorded THEN Record(version + 1, content) ELSE UNCHANGED history
    /\ UNCHANGED <<room, timer, run>>

\* Mutant: the room is rebuilt from the document the restore replaced.
RestoreNoteOnly(v) ==
    /\ Input
    /\ v \in DOMAIN history
    /\ \E u \in DOMAIN history : u > v
    /\ past' = Append(past, history[v])
    /\ Record(version + 1, history[v])
    /\ IF state.epoch = 0 THEN UNCHANGED room
       ELSE resetEpoch(state.epoch + 1, state.last + 1, version + 1, content)
    /\ UNCHANGED <<timer, run>>

\* An earlier checkpoint becomes the content, and the room a new generation of it.
RestoreVersion(v) ==
    /\ Input
    /\ v \in DOMAIN history
    /\ \E u \in DOMAIN history : u > v
    /\ past' = Append(past, history[v])
    /\ Record(version + 1, history[v])
    /\ IF state.epoch = 0 THEN UNCHANGED room
       ELSE resetEpoch(state.epoch + 1, state.last + 1, version + 1, history[v])
    /\ UNCHANGED <<timer, run>>

----------------------------------------------------------------------------
\* A statement throws, or the note was put in the trash: the run is abandoned and
\* nothing retries it.
RunFails(i) ==
    /\ Faulty
    /\ ~Idle(i)
    /\ Set(i, Rest)
    /\ UNCHANGED <<past, history, room, timer, inputs>>

Crash(i) ==
    /\ Faulty
    /\ Set(i, Rest)
    /\ timer' = [timer EXCEPT ![i] = "none"]
    /\ UNCHANGED <<past, history, room, inputs>>

RunStep(i) ==
    \/ ReadNote(i)
    \/ ReadState(i)
    \/ ReadRecords(i)
    \/ RebuildReadNote(i)
    \/ RebuildReadState(i)
    \/ Reset(i)
    \/ Project(i)
    \/ ProjectSuperseded(i)
    \/ ProjectLost(i)
    \/ SettleReadNote(i)
    \/ Settle(i)

OutsideStep ==
    \/ \E w \in Writes : Update(w)
    \/ \E recorded \in BOOLEAN : Touch(recorded)
    \/ \E v \in DOMAIN history : RestoreVersion(v)

Next ==
    \/ \E i \in Instances :
          \/ \E e \in Edits : AcceptUpdate(i, e)
          \/ Leave(i)
          \/ StartSync(i)
          \/ StartProject(i)
          \/ RunStep(i)
          \/ RunFails(i)
          \/ Crash(i)
    \/ OutsideStep

Spec == Init /\ [][Next]_vars

----------------------------------------------------------------------------
(* Properties.                                                             *)

TypeOK ==
    /\ past \in Seq(Documents) /\ past # <<>>
    /\ DOMAIN history \subseteq DOMAIN past
    /\ \A v \in DOMAIN history : history[v] \in Documents
    /\ state \in State
    /\ log \subseteq Row
    /\ timer \in [Instances -> {"none", "project", "boundary"}]
    /\ run \in [Instances -> Run]
    /\ inputs \in 0..MaxInputs

\* The spine: a room that is not behind the note holds everything the note holds, and
\* once projected the two are the same document.
RoomCoversNote ==
    state.epoch > 0 /\ state.version = version =>
        /\ content \subseteq Document(log)
        /\ state.projected = state.last => content = Document(log)

\* "Exactly one durable writer at any instant": a projection never takes from the note
\* what it holds, whoever wrote it and however long ago the projection read the room.
ProjectionKeepsContent ==
    [][run' # run => content \subseteq content']_vars

\* Within a generation the log only grows: no projection, compaction or late boundary
\* of any process folds away an update that was accepted meanwhile.
GenerationKeepsUpdates ==
    [][state'.epoch = state.epoch => Document(log) \subseteq Document(log')]_vars

\* "Checkpointing the version we read then would record a state that is no longer the
\* accepted one": history holds, for each version it has, what the note held.
HistoryIsTrue == \A v \in DOMAIN history : history[v] = past[v]

\* "Nothing that is acknowledged can be lost by the delay": an accepted update leaves
\* the room only when another writer of the note committed since the last projection.
AcceptedIsNotLost ==
    [][run' # run /\ ~(Document(log) \subseteq Document(log')) => state.version # version]_vars
=============================================================================
