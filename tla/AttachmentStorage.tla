------------------------- MODULE AttachmentStorage -------------------------
(***************************************************************************)
(* Attachments live twice: as a row in PostgreSQL and as objects in MinIO. *)
(* No transaction spans both, so uploads, deletions, the trash and the     *)
(* storage-maintenance sweeps each move the two a step at a time and rely  *)
(* on the sweeps to reconcile what a crash or a race left behind.          *)
(*                                                                         *)
(* A database statement or transaction is one step, a storage request is   *)
(* one step.  Every upload carries an Idempotency-Key of its own (a replay *)
(* of a used one returns the row it finds and changes nothing).            *)
(***************************************************************************)
EXTENDS Naturals, FiniteSets

CONSTANTS
    Notes,
    NoNote,         \* the note of a sweep that is not purging one
    Subtree,        \* per note: itself and every note below it
    Attachments,    \* upload requests, each the attachment it would create
    NoteOf,         \* the note an attachment is uploaded to
    Images,         \* attachments stored as several variants
    Sweepers,       \* API processes (or operators) that run maintenance passes
    QuotaLimit,     \* effective limit of the workspace; every attachment weighs 1
    MaxRestores,    \* bound: restores out of the trash
    MaxFaults       \* bound: storage and process faults

ASSUME ConstantsAssumption ==
    /\ NoNote \notin Notes
    /\ Subtree \in [Notes -> SUBSET Notes]
    /\ NoteOf \in [Attachments -> Notes]
    /\ Images \subseteq Attachments
    /\ QuotaLimit \in Nat
    /\ MaxRestores \in Nat
    /\ MaxFaults \in Nat

\* notes.parent_id is a forest: moves refuse cycles (assertNoNoteCycle).
ASSUME ForestAssumption ==
    /\ \A n \in Notes : n \in Subtree[n]
    /\ \A m, n \in Notes : m \in Subtree[n] => Subtree[m] \subseteq Subtree[n]
    /\ \A m, n \in Notes : m \in Subtree[n] /\ n \in Subtree[m] => m = n
    /\ \A k, m, n \in Notes :
          k \in Subtree[m] /\ k \in Subtree[n] => m \in Subtree[n] \/ n \in Subtree[m]

VARIABLES
    note,       \* "live", "trashed" (is_deleted) or "gone" (no row)
    batch,      \* deletion_batch_id of a trashed note: the root of the operation
    expired,    \* trashed notes whose plan's retention window has elapsed
    row,        \* attachments.processing_status; "missing" is failed with the error
                \* storage_object_missing
    age,        \* windows elapsed since the upload: 1 abandoned, 2 orphan
    objects,    \* keys present in the bucket
    up,         \* what each upload request is doing, and the keys it has written
    removing,   \* keys a committed attachment deletion still has to remove
    sweep,      \* what each maintenance pass is doing
    restores,   \* restores so far
    faults,     \* faults so far
    announced,  \* attachments whose "created" event and search intent were recorded
    lost        \* history: keys the object store itself lost

vars == <<note, batch, expired, row, age, objects, up, removing, sweep,
          restores, faults, announced, lost>>

tree == <<note, batch, expired, restores>>
records == <<announced, lost>>

NoteStatus == {"live", "trashed", "gone"}
RowStatus == {"none", "pending", "processing", "ready", "failed", "missing", "gone"}
Charged == {"pending", "processing", "ready"}

Keys == Attachments \X {"original", "variant"}
Original(a) == <<a, "original">>
Objects(a) == {Original(a)} \cup (IF a \in Images THEN {<<a, "variant">>} ELSE {})

UpPC == {"idle", "mark", "put", "commit", "compensate", "cleanup", "ended"}
Up == [pc : UpPC, written : SUBSET Keys]
SweepPC == {"idle", "deleteRows", "removeUploads", "list", "owners",
            "removeOrphans", "findReady", "stat", "mark", "findNotes", "nextNote",
            "noteKeys", "deleteNote", "removeNoteObjects"}
Sweep == [pc : SweepPC, rows : SUBSET Attachments, keys : SUBSET Keys,
          notes : SUBSET Notes, note : Notes \cup {NoNote}]
At(pc, rows, keys, notes) ==
    [pc |-> pc, rows |-> rows, keys |-> keys, notes |-> notes, note |-> NoNote]
AtRest == At("idle", {}, {}, {})

Init ==
    /\ note = [n \in Notes |-> "live"]
    /\ batch = [n \in Notes |-> NoNote]
    /\ expired = {}
    /\ row = [a \in Attachments |-> "none"]
    /\ age = [a \in Attachments |-> 0]
    /\ objects = {}
    /\ up = [a \in Attachments |-> [pc |-> "idle", written |-> {}]]
    /\ removing = {}
    /\ sweep = [s \in Sweepers |-> AtRest]
    /\ restores = 0
    /\ faults = 0
    /\ announced = {}
    /\ lost = {}

----------------------------------------------------------------------------
(* What rows own and how both stores are written.                          *)

Present(a) == row[a] \notin {"none", "gone"}

\* The variants record is written by the ready transaction only.
variantKeys(a) == IF row[a] \in {"ready", "missing"} THEN Objects(a) ELSE {}

attachmentObjectKeys(a) ==
    IF Present(a) THEN {Original(a)} \cup variantKeys(a) ELSE {}

\* An UPDATE of the row by id, whose affected-row count nobody looks at.
setStatus(a, status) ==
    row' = IF Present(a) THEN [row EXCEPT ![a] = status] ELSE row

Fault ==
    /\ faults < MaxFaults
    /\ faults' = faults + 1

\* Bulk removal never throws: when a request fails, some keys may stay behind.
removeObjects(keys) ==
    \/ objects' = objects \ keys /\ UNCHANGED faults
    \/ /\ Fault
       /\ \E kept \in SUBSET (keys \cap objects) :
             kept # {} /\ objects' = objects \ (keys \ kept)

----------------------------------------------------------------------------
(* The upload saga: uploadImage and uploadFile of attachments.service.ts.  *)

UpGoto(a, pc) == up' = [up EXCEPT ![a].pc = pc]

\* Mutant: the quota counts what is stored and forgets what is reserved.
CountsReadyOnly(a) ==
    Cardinality({b \in Attachments : row[b] = "ready"}) < QuotaLimit

fitsWithinQuota(a) ==
    Cardinality({b \in Attachments : row[b] \in Charged}) < QuotaLimit

\* tx1: the workspace row is locked, so reservations are serialised.
Reserve(a) ==
    /\ up[a].pc = "idle"
    /\ note[NoteOf[a]] = "live"
    /\ fitsWithinQuota(a)
    /\ row' = [row EXCEPT ![a] = "pending"]
    /\ UpGoto(a, "mark")
    /\ UNCHANGED <<tree, age, objects, removing, sweep, faults, records>>

MarkProcessing(a) ==
    /\ up[a].pc = "mark"
    /\ setStatus(a, "processing")
    /\ UpGoto(a, "put")
    /\ UNCHANGED <<tree, age, objects, removing, sweep, faults, records>>

\* The original is put first.
NextKey(a) == IF Original(a) \in up[a].written THEN <<a, "variant">> ELSE Original(a)

PutObject(a) ==
    LET written == up[a].written \cup {NextKey(a)} IN
    /\ up[a].pc = "put"
    /\ objects' = objects \cup {NextKey(a)}
    /\ up' = [up EXCEPT ![a] = [pc |-> IF written = Objects(a) THEN "commit" ELSE "put",
                                written |-> written]]
    /\ UNCHANGED <<tree, row, age, removing, sweep, faults, records>>

\* tx3: the row turns ready and the "created" intent is recorded.
CommitReady(a) ==
    /\ up[a].pc = "commit"
    /\ setStatus(a, "ready")
    /\ announced' = announced \cup {a}
    /\ UpGoto(a, "ended")
    /\ UNCHANGED <<tree, age, objects, removing, sweep, faults, lost>>

\* Processing, a put or tx3 throws.  A put that failed for the client may have
\* reached the bucket; its key is not among the written ones.
UploadFails(a) ==
    /\ up[a].pc \in {"put", "commit"}
    /\ \/ UNCHANGED objects
       \/ up[a].pc = "put" /\ objects' = objects \cup {NextKey(a)}
    /\ UpGoto(a, "compensate")
    /\ UNCHANGED <<tree, row, age, removing, sweep, faults, records>>

Compensate(a) ==
    /\ up[a].pc = "compensate"
    /\ setStatus(a, "failed")
    /\ UpGoto(a, "cleanup")
    /\ UNCHANGED <<tree, age, objects, removing, sweep, faults, records>>

Cleanup(a) ==
    /\ up[a].pc = "cleanup"
    /\ removeObjects(up[a].written)
    /\ UpGoto(a, "ended")
    /\ UNCHANGED <<tree, row, age, removing, sweep, records>>

\* The process dies, or a statement outside the try block or of the compensation
\* throws: the request is over and everything it wrote stays as it is.
UploadDies(a) ==
    /\ up[a].pc \notin {"idle", "ended"}
    /\ UpGoto(a, "ended")
    /\ UNCHANGED <<tree, row, age, objects, removing, sweep, faults, records>>

\* delete commits first and removes the objects the row listed afterwards.
DeleteAttachment(a) ==
    /\ Present(a)
    /\ row' = [row EXCEPT ![a] = "gone"]
    /\ removing' = removing \cup variantKeys(a)
    /\ UNCHANGED <<tree, age, objects, up, sweep, faults, records>>

RemoveDeleted(a) ==
    /\ removing \cap Objects(a) # {}
    /\ removeObjects(Objects(a))
    /\ removing' = removing \ Objects(a)
    /\ UNCHANGED <<tree, row, age, up, sweep, records>>

\* The process dies between the commit and the removal.
DeleteDies(a) ==
    /\ Fault
    /\ removing \cap Objects(a) # {}
    /\ removing' = removing \ Objects(a)
    /\ UNCHANGED <<tree, row, age, objects, up, sweep, records>>

----------------------------------------------------------------------------
(* The trash: notes.service.ts, whose transactions are serializable.       *)

Below(n) == {m \in Subtree[n] : note[m] # "gone"}
Above(n) == {m \in Notes \ {n} : n \in Subtree[m]}

\* ON DELETE CASCADE along parent_id and along attachments.note_id.
CascadeDelete(n) ==
    /\ note' = [m \in Notes |-> IF m \in Subtree[n] THEN "gone" ELSE note[m]]
    /\ batch' = [m \in Notes |-> IF m \in Subtree[n] THEN NoNote ELSE batch[m]]
    /\ expired' = expired \ Subtree[n]
    /\ row' = [a \in Attachments |->
                 IF NoteOf[a] \in Subtree[n] /\ Present(a) THEN "gone" ELSE row[a]]

SoftDelete(n) ==
    LET ids == {m \in Below(n) : note[m] = "live"} IN
    /\ note[n] = "live"
    /\ note' = [m \in Notes |-> IF m \in ids THEN "trashed" ELSE note[m]]
    /\ batch' = [m \in Notes |-> IF m \in ids THEN n ELSE batch[m]]
    /\ UNCHANGED <<expired, restores, row, age, objects, up, removing, sweep, faults,
                   records>>

\* The notes a restore of n brings back: those of its deletion batch below it.
RestoredBy(n) == {m \in Below(n) : note[m] = "trashed" /\ batch[m] = batch[n]}

\* Mutant: deleted_at survives the restore.
ReviveKeepsDate(ids) ==
    /\ note' = [m \in Notes |-> IF m \in ids THEN "live" ELSE note[m]]
    /\ batch' = [m \in Notes |-> IF m \in ids THEN NoNote ELSE batch[m]]
    /\ restores < MaxRestores
    /\ restores' = restores + 1
    /\ UNCHANGED expired

Revive(ids) ==
    /\ note' = [m \in Notes |-> IF m \in ids THEN "live" ELSE note[m]]
    /\ batch' = [m \in Notes |-> IF m \in ids THEN NoNote ELSE batch[m]]
    /\ expired' = expired \ ids
    /\ restores < MaxRestores
    /\ restores' = restores + 1

\* Mutant: a note is restored below an ancestor that stays in the trash.
RestoreAnywhere(n) ==
    /\ note[n] = "trashed"
    /\ Revive(RestoredBy(n))
    /\ UNCHANGED <<row, age, objects, up, removing, sweep, faults, records>>

Restore(n) ==
    /\ note[n] = "trashed"
    /\ \A m \in Above(n) : note[m] = "live"
    /\ Revive(RestoredBy(n))
    /\ UNCHANGED <<row, age, objects, up, removing, sweep, faults, records>>

PermanentDelete(n) ==
    /\ note[n] = "trashed"
    /\ \A m \in Below(n) : note[m] = "trashed"
    /\ CascadeDelete(n)
    /\ UNCHANGED <<restores, age, objects, up, removing, sweep, faults, records>>

----------------------------------------------------------------------------
(* Time.  An upload takes seconds and the windows are hours and days, so   *)
(* none elapses under a running upload; a row and its objects are written  *)
(* seconds apart and share one clock.                                      *)

GrowOld(a) ==
    /\ up[a].pc = "ended"
    /\ Present(a) \/ Objects(a) \cap objects # {}
    /\ age[a] < 2
    /\ age' = [age EXCEPT ![a] = @ + 1]
    /\ UNCHANGED <<tree, row, objects, up, removing, sweep, faults, records>>

\* deleted_at is one instant per batch, and whatever was trashed below the batch
\* was trashed earlier.
RetentionElapses(n) ==
    /\ batch[n] = n
    /\ n \notin expired
    /\ expired' = expired \cup {m \in Below(n) : note[m] = "trashed"}
    /\ UNCHANGED <<note, batch, restores, row, age, objects, up, removing, sweep,
                   faults, records>>

----------------------------------------------------------------------------
(* A maintenance pass: storage-maintenance.service.ts, sweep by sweep.     *)

SweepSet(s, record) == sweep' = [sweep EXCEPT ![s] = record]
SweepGoto(s, pc) == SweepSet(s, At(pc, {}, {}, {}))

\* Mutant: rows that record a loss are swept like any failed upload.
decideAnyFailed(a) ==
    \/ row[a] \in {"pending", "processing"} /\ age[a] >= 1
    \/ row[a] \in {"failed", "missing"} /\ age[a] >= 2

\* Mutant: only rows that never left "pending" count as abandoned.
decidePendingOnly(a) ==
    \/ row[a] = "pending" /\ age[a] >= 1
    \/ row[a] = "failed" /\ age[a] >= 2

decideAbandonedUpload(a) ==
    \/ row[a] \in {"pending", "processing"} /\ age[a] >= 1
    \/ row[a] = "failed" /\ age[a] >= 2

SweepFindAbandoned(s) ==
    LET found == {a \in Attachments : decideAbandonedUpload(a)} IN
    /\ sweep[s].pc = "idle"
    /\ SweepSet(s, At(IF found = {} THEN "list" ELSE "deleteRows", found,
                      UNION {attachmentObjectKeys(a) : a \in found}, {}))
    /\ UNCHANGED <<tree, row, age, objects, up, removing, faults, records>>

SweepDeleteRows(s) ==
    /\ sweep[s].pc = "deleteRows"
    /\ row' = [a \in Attachments |->
                 IF a \in sweep[s].rows /\ Present(a) /\ row[a] # "ready"
                 THEN "gone" ELSE row[a]]
    /\ SweepSet(s, [sweep[s] EXCEPT !.pc = "removeUploads"])
    /\ UNCHANGED <<tree, age, objects, up, removing, faults, records>>

SweepRemoveUploads(s) ==
    /\ sweep[s].pc = "removeUploads"
    /\ removeObjects(sweep[s].keys)
    /\ SweepGoto(s, "list")
    /\ UNCHANGED <<tree, row, age, up, removing, records>>

\* Mutant: objects of any age are compared with the rows.
ListedAtAnyAge == objects

\* Objects past the grace window; younger ones are refused as too_recent.
OldObjects == {k \in objects : age[k[1]] >= 2}

SweepList(s) ==
    /\ sweep[s].pc = "list"
    /\ SweepSet(s, At(IF OldObjects = {} THEN "findReady" ELSE "owners",
                      {}, OldObjects, {}))
    /\ UNCHANGED <<tree, row, age, objects, up, removing, faults, records>>

\* Mutant: an object without an owning row is left alone.
decideUnclaimedVariant(k) == Present(k[1]) /\ k \notin attachmentObjectKeys(k[1])

decideOrphanObject(k) == k \notin attachmentObjectKeys(k[1])

SweepOwners(s) ==
    LET orphans == {k \in sweep[s].keys : decideOrphanObject(k)} IN
    /\ sweep[s].pc = "owners"
    /\ SweepSet(s, At(IF orphans = {} THEN "findReady" ELSE "removeOrphans",
                      {}, orphans, {}))
    /\ UNCHANGED <<tree, row, age, objects, up, removing, faults, records>>

SweepRemoveOrphans(s) ==
    /\ sweep[s].pc = "removeOrphans"
    /\ removeObjects(sweep[s].keys)
    /\ SweepGoto(s, "findReady")
    /\ UNCHANGED <<tree, row, age, up, removing, records>>

SweepFindReady(s) ==
    LET found == {a \in Attachments : row[a] = "ready" /\ age[a] >= 2} IN
    /\ sweep[s].pc = "findReady"
    /\ SweepSet(s, At(IF found = {} THEN "findNotes" ELSE "stat", found, {}, {}))
    /\ UNCHANGED <<tree, row, age, objects, up, removing, faults, records>>

\* The stat requests of a pass are one step: the object of an old ready row never
\* comes back, so an absence found late could have been found early.
SweepStat(s) ==
    LET missing == {a \in sweep[s].rows : Original(a) \notin objects} IN
    /\ sweep[s].pc = "stat"
    /\ SweepSet(s, At(IF missing = {} THEN "findNotes" ELSE "mark", missing, {}, {}))
    /\ UNCHANGED <<tree, row, age, objects, up, removing, faults, records>>

SweepMark(s) ==
    /\ sweep[s].pc = "mark"
    /\ row' = [a \in Attachments |-> IF a \in sweep[s].rows /\ row[a] = "ready"
                                     THEN "missing" ELSE row[a]]
    /\ SweepGoto(s, "findNotes")
    /\ UNCHANGED <<tree, age, objects, up, removing, faults, records>>

\* Go on to the next candidate note, or end the pass.
NextNote(s, left) ==
    SweepSet(s, IF left = {} THEN AtRest
                ELSE At("nextNote", {}, {}, left))

SweepFindNotes(s) ==
    /\ sweep[s].pc = "findNotes"
    /\ NextNote(s, {n \in expired : note[n] = "trashed"})
    /\ UNCHANGED <<tree, row, age, objects, up, removing, faults, records>>

hasLiveDescendant(n) == \E m \in Below(n) \ {n} : note[m] = "live"

SweepCheckNote(s, n) ==
    /\ sweep[s].pc = "nextNote"
    /\ n \in sweep[s].notes
    /\ IF hasLiveDescendant(n)
       THEN NextNote(s, sweep[s].notes \ {n})
       ELSE SweepSet(s, [sweep[s] EXCEPT !.pc = "noteKeys", !.note = n])
    /\ UNCHANGED <<tree, row, age, objects, up, removing, faults, records>>

\* The keys are read before the cascade removes the rows that name them.
SweepReadKeys(s) ==
    LET owned == {a \in Attachments : NoteOf[a] \in Below(sweep[s].note)} IN
    /\ sweep[s].pc = "noteKeys"
    /\ SweepSet(s, [sweep[s] EXCEPT
                      !.pc = "deleteNote",
                      !.keys = UNION {attachmentObjectKeys(a) : a \in owned}])
    /\ UNCHANGED <<tree, row, age, objects, up, removing, faults, records>>

\* The statement asks again whether the note is deleted, and nothing else.
SweepDeleteNote(s) ==
    /\ sweep[s].pc = "deleteNote"
    /\ IF note[sweep[s].note] = "trashed"
       THEN CascadeDelete(sweep[s].note)
       ELSE UNCHANGED <<note, batch, expired, row>>
    /\ SweepSet(s, [sweep[s] EXCEPT !.pc = "removeNoteObjects"])
    /\ UNCHANGED <<restores, age, objects, up, removing, faults, records>>

SweepRemoveNoteObjects(s) ==
    /\ sweep[s].pc = "removeNoteObjects"
    /\ removeObjects(sweep[s].keys)
    /\ NextNote(s, sweep[s].notes \ {sweep[s].note})
    /\ UNCHANGED <<tree, row, age, up, removing, records>>

\* The process dies or a statement or listing throws: the pass is abandoned.
SweepDies(s) ==
    /\ Fault
    /\ sweep[s].pc # "idle"
    /\ SweepSet(s, AtRest)
    /\ UNCHANGED <<tree, row, age, objects, up, removing, records>>

ObjectLost(k) ==
    /\ Fault
    /\ k \in objects
    /\ objects' = objects \ {k}
    /\ lost' = lost \cup {k}
    /\ UNCHANGED <<tree, row, age, up, removing, sweep, announced>>

----------------------------------------------------------------------------
UploadStep(a) ==
    \/ Reserve(a)
    \/ MarkProcessing(a)
    \/ PutObject(a)
    \/ CommitReady(a)
    \/ UploadFails(a)
    \/ Compensate(a)
    \/ Cleanup(a)
    \/ UploadDies(a)

DeleteStep(a) == DeleteAttachment(a) \/ RemoveDeleted(a) \/ DeleteDies(a)

NoteStep(n) == SoftDelete(n) \/ Restore(n) \/ PermanentDelete(n) \/ RetentionElapses(n)

ObjectSweep(s) ==
    \/ SweepFindAbandoned(s)
    \/ SweepDeleteRows(s)
    \/ SweepRemoveUploads(s)
    \/ SweepList(s)
    \/ SweepOwners(s)
    \/ SweepRemoveOrphans(s)
    \/ SweepFindReady(s)
    \/ SweepStat(s)
    \/ SweepMark(s)

NoteSweep(s) ==
    \/ SweepFindNotes(s)
    \/ \E n \in Notes : SweepCheckNote(s, n)
    \/ SweepReadKeys(s)
    \/ SweepDeleteNote(s)
    \/ SweepRemoveNoteObjects(s)

Next ==
    \/ \E a \in Attachments : UploadStep(a) \/ DeleteStep(a) \/ GrowOld(a)
    \/ \E n \in Notes : NoteStep(n)
    \/ \E s \in Sweepers : ObjectSweep(s) \/ NoteSweep(s) \/ SweepDies(s)
    \/ \E k \in Keys : ObjectLost(k)

Spec == Init /\ [][Next]_vars

(* The scheduler keeps starting passes on every process that runs it, a    *)
(* started request finishes or dies, and time passes.  Nobody has to       *)
(* upload, delete or restore anything.                                     *)
Fairness ==
    /\ \A s \in Sweepers : WF_vars(ObjectSweep(s) \/ NoteSweep(s))
    /\ \A a \in Attachments : /\ WF_vars(GrowOld(a))
                              /\ WF_vars(up[a].pc # "idle" /\ UploadStep(a))

FairSpec == Spec /\ Fairness

----------------------------------------------------------------------------
(* Properties.                                                             *)

TreeOK ==
    /\ note \in [Notes -> NoteStatus]
    /\ batch \in [Notes -> Notes \cup {NoNote}]
    /\ \A n \in Notes : batch[n] # NoNote <=> note[n] = "trashed"
    /\ expired \subseteq {n \in Notes : note[n] = "trashed"}
    /\ restores \in 0..MaxRestores

RowsOK ==
    /\ row \in [Attachments -> RowStatus]
    /\ announced \subseteq Attachments
    /\ \A a \in Attachments : row[a] \in {"ready", "missing"} => a \in announced

StoreOK ==
    /\ objects \subseteq Keys
    /\ removing \subseteq Keys
    /\ lost \subseteq Keys
    /\ faults \in 0..MaxFaults

UploadsOK ==
    /\ up \in [Attachments -> Up]
    /\ age \in [Attachments -> 0..2]

PurgePC == {"noteKeys", "deleteNote", "removeNoteObjects"}

SweepOK ==
    /\ sweep \in [Sweepers -> Sweep]
    /\ \A s \in Sweepers : sweep[s].note # NoNote <=> sweep[s].pc \in PurgePC

\* The variables keep their types; only a trashed note belongs to a batch, only a
\* trashed note is past retention, an attachment that was ever ready was announced, and
\* a pass knows the note it is purging.
TypeOK == TreeOK /\ RowsOK /\ StoreOK /\ UploadsOK /\ SweepOK

\* "A sweep never deletes anything reachable from a live row": every object of a
\* ready row is in the bucket, unless the store itself lost it.  No sweep, late
\* cleanup or interrupted deletion takes the bytes of a row that stays ready.
ReadyHasBytes ==
    \A a \in Attachments : row[a] = "ready" => Objects(a) \ lost \subseteq objects

\* However many uploads are in flight at once, what is reserved and what is stored
\* stay within the limit together.
QuotaRespected ==
    Cardinality({a \in Attachments : row[a] \in Charged}) <= QuotaLimit

\* Deleting a note row cascades, and the cascade never takes a note the user did
\* not delete: neither a permanent deletion nor a purge whose checks were made
\* steps before.
CascadeSparesLive ==
    [][\A n \in Notes : note'[n] = "gone" => note[n] # "live"]_vars

\* "Marked, never deleted: the row is the user's record that a file existed": no
\* sweep deletes a row it marked, except together with the note it belongs to.
RecordOfLossIsKept ==
    [][\A a \in Attachments :
          row[a] = "missing" /\ row'[a] # "missing" =>
             sweep' = sweep \/ note'[NoteOf[a]] = "gone"]_vars

\* "30 days in the trash before hard delete", counted from the latest deletion
\* (docs/tenant-and-retention.md, sweepDeletedNotes): a purge takes no note whose window
\* is still open.
RetentionHonoured ==
    [][\A n \in Notes :
          note[n] = "trashed" /\ note'[n] = "gone" /\ sweep' # sweep => n \in expired]_vars

\* A reservation does not outlive its upload for ever: whatever died, the row
\* leaves the states the quota charges as reserved.
ReservationsSettle ==
    \A a \in Attachments :
        row[a] \in {"pending", "processing"} ~> row[a] \notin {"pending", "processing"}

\* No byte is stranded: what a failed upload, a dead cleanup, an interrupted
\* deletion or a cascade left in the bucket is reclaimed, unless a row owns it.
StrandedBytesReclaimed ==
    \A k \in Keys : k \in objects ~> k \notin objects \/ row[k[1]] \in {"ready", "missing"}

\* What an upload, a deletion or a purge leaves behind does not stay.
StorageSettles == ReservationsSettle /\ StrandedBytesReclaimed
=============================================================================
