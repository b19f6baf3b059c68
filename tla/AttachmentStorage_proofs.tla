---------------------- MODULE AttachmentStorage_proofs ----------------------
(***************************************************************************)
(* Proofs about AttachmentStorage for every forest of notes, every set of  *)
(* attachments, any number of concurrent maintenance passes and any bounds.*)
(***************************************************************************)
EXTENDS AttachmentStorage, FiniteSetTheorems, TLAPS

----------------------------------------------------------------------------
(* What keys, statuses and passes are.                                      *)

\* Whatever is computed from an attachment is a set of keys of the bucket.
LEMMA KeysOfAttachment ==
  ASSUME NEW a \in Attachments
  PROVE  /\ Objects(a) \subseteq Keys
         /\ variantKeys(a) \subseteq Keys
         /\ attachmentObjectKeys(a) \subseteq Keys
         /\ NextKey(a) \in Keys
  BY DEF Objects, variantKeys, attachmentObjectKeys, NextKey, Original, Keys

\* The keys of several attachments are keys of the bucket.
LEMMA KeysOfAttachments ==
  ASSUME NEW S \in SUBSET Attachments
  PROVE  UNION {attachmentObjectKeys(a) : a \in S} \in SUBSET Keys
  BY KeysOfAttachment

\* An update of one row by id keeps the rows typed.
LEMMA SetStatusType ==
  ASSUME RowsOK, NEW a \in Attachments, NEW status \in RowStatus, setStatus(a, status),
         announced' \subseteq Attachments, announced \subseteq announced',
         status \in {"ready", "missing"} => a \in announced'
  PROVE  RowsOK'
  BY DEF RowsOK, setStatus

\* A bulk removal keeps the store typed.
LEMMA RemoveObjectsType ==
  ASSUME StoreOK, NEW keys, removeObjects(keys),
         removing' \subseteq Keys, UNCHANGED lost
  PROVE  StoreOK'
  BY ConstantsAssumption DEF StoreOK, removeObjects, Fault

\* A fault that leaves the bucket alone keeps the store typed.
LEMMA FaultType ==
  ASSUME StoreOK, Fault, removing' \subseteq Keys, objects' \subseteq Keys,
         lost' \subseteq Keys
  PROVE  StoreOK'
  BY ConstantsAssumption DEF StoreOK, Fault

\* A request that only moves on stays typed.
LEMMA UpGotoType ==
  ASSUME UploadsOK, NEW a \in Attachments, NEW pc \in UpPC, UpGoto(a, pc), UNCHANGED age
  PROVE  UploadsOK'
  BY DEF UploadsOK, UpGoto, Up

\* A pass that moves to a well-formed state stays typed.
LEMMA SweepSetType ==
  ASSUME SweepOK, NEW s \in Sweepers, NEW r \in Sweep,
         r.note # NoNote <=> r.pc \in PurgePC, SweepSet(s, r)
  PROVE  SweepOK'
  BY DEF SweepOK, SweepSet

\* A pass at rest, or on its way between two sweeps, is well formed.
LEMMA SweepRecordType ==
  ASSUME NEW pc \in SweepPC \ PurgePC, NEW rows \in SUBSET Attachments,
         NEW keys \in SUBSET Keys, NEW notes \in SUBSET Notes
  PROVE  /\ At(pc, rows, keys, notes) \in Sweep
         /\ At(pc, rows, keys, notes).note = NoNote
         /\ At(pc, rows, keys, notes).pc = pc
  BY DEF Sweep, At, PurgePC, SweepPC

----------------------------------------------------------------------------
(* Types.                                                                   *)

LEMMA InitType == Init => TypeOK
  <1> SUFFICES ASSUME Init PROVE TypeOK
    OBVIOUS
  <1>1. TreeOK
    BY ConstantsAssumption DEF Init, TreeOK, NoteStatus
  <1>2. RowsOK
    BY DEF Init, RowsOK, RowStatus
  <1>3. StoreOK
    BY ConstantsAssumption DEF Init, StoreOK
  <1>4. UploadsOK
    BY DEF Init, UploadsOK, Up, UpPC
  <1>5. SweepOK
    BY DEF Init, SweepOK, Sweep, At, AtRest, SweepPC, PurgePC
  <1> QED
    BY <1>1, <1>2, <1>3, <1>4, <1>5 DEF TypeOK

\* An upload keeps the types, however it ends.
LEMMA UploadType ==
  ASSUME TypeOK, NEW a \in Attachments, UploadStep(a)
  PROVE  TypeOK'
  <1> USE DEF TypeOK
  <1>1. CASE Reserve(a)
    <2>1. RowsOK'
      BY <1>1 DEF Reserve, RowsOK, RowStatus, records
    <2>2. UploadsOK'
      BY <1>1, UpGotoType DEF Reserve, UpPC
    <2> QED
      BY <1>1, <2>1, <2>2 DEF Reserve, tree, records, TreeOK, StoreOK, SweepOK
  <1>2. CASE MarkProcessing(a)
    <2>1. RowsOK'
      BY <1>2, SetStatusType DEF MarkProcessing, RowsOK, RowStatus, records
    <2>2. UploadsOK'
      BY <1>2, UpGotoType DEF MarkProcessing, UpPC
    <2> QED
      BY <1>2, <2>1, <2>2 DEF MarkProcessing, tree, records, TreeOK, StoreOK, SweepOK
  <1>3. CASE PutObject(a)
    <2>1. up[a].written \in SUBSET Keys
      BY DEF UploadsOK, Up
    <2>2. UploadsOK'
      BY <1>3, <2>1, KeysOfAttachment DEF PutObject, UploadsOK, Up, UpPC
    <2>3. StoreOK'
      BY <1>3, KeysOfAttachment DEF PutObject, StoreOK, records
    <2> QED
      BY <1>3, <2>2, <2>3 DEF PutObject, tree, records, TreeOK, RowsOK, SweepOK
  <1>4. CASE CommitReady(a)
    <2>1. RowsOK'
      BY <1>4, SetStatusType DEF CommitReady, RowsOK, RowStatus
    <2>2. UploadsOK'
      BY <1>4, UpGotoType DEF CommitReady, UpPC
    <2> QED
      BY <1>4, <2>1, <2>2 DEF CommitReady, tree, TreeOK, StoreOK, SweepOK
  <1>5. CASE UploadFails(a)
    <2>1. UploadsOK'
      BY <1>5, UpGotoType DEF UploadFails, UpPC
    <2>2. StoreOK'
      BY <1>5, KeysOfAttachment DEF UploadFails, StoreOK, records
    <2> QED
      BY <1>5, <2>1, <2>2 DEF UploadFails, tree, records, TreeOK, RowsOK, SweepOK
  <1>6. CASE Compensate(a)
    <2>1. RowsOK'
      BY <1>6, SetStatusType DEF Compensate, RowsOK, RowStatus, records
    <2>2. UploadsOK'
      BY <1>6, UpGotoType DEF Compensate, UpPC
    <2> QED
      BY <1>6, <2>1, <2>2 DEF Compensate, tree, records, TreeOK, StoreOK, SweepOK
  <1>7. CASE Cleanup(a)
    <2>1. UploadsOK'
      BY <1>7, UpGotoType DEF Cleanup, UpPC
    <2>2. StoreOK'
      BY <1>7, RemoveObjectsType DEF Cleanup, StoreOK, records
    <2> QED
      BY <1>7, <2>1, <2>2 DEF Cleanup, tree, records, TreeOK, RowsOK, SweepOK
  <1>8. CASE UploadDies(a)
    <2>1. UploadsOK'
      BY <1>8, UpGotoType DEF UploadDies, UpPC
    <2> QED
      BY <1>8, <2>1 DEF UploadDies, tree, records, TreeOK, RowsOK, StoreOK, SweepOK
  <1> QED
    BY <1>1, <1>2, <1>3, <1>4, <1>5, <1>6, <1>7, <1>8 DEF UploadStep

\* Deleting an attachment, and time, keep the types.
LEMMA DeleteType ==
  ASSUME TypeOK, NEW a \in Attachments, DeleteStep(a) \/ GrowOld(a)
  PROVE  TypeOK'
  <1> USE DEF TypeOK
  <1>1. CASE DeleteAttachment(a)
    <2>1. RowsOK'
      BY <1>1 DEF DeleteAttachment, RowsOK, RowStatus, records
    <2>2. StoreOK'
      BY <1>1, KeysOfAttachment DEF DeleteAttachment, StoreOK, records
    <2> QED
      BY <1>1, <2>1, <2>2 DEF DeleteAttachment, tree, TreeOK, UploadsOK, SweepOK
  <1>2. CASE RemoveDeleted(a)
    <2>1. StoreOK'
      BY <1>2, RemoveObjectsType DEF RemoveDeleted, StoreOK, records
    <2> QED
      BY <1>2, <2>1 DEF RemoveDeleted, tree, records, TreeOK, RowsOK, UploadsOK, SweepOK
  <1>3. CASE DeleteDies(a)
    <2>1. StoreOK'
      BY <1>3, FaultType DEF DeleteDies, StoreOK, records
    <2> QED
      BY <1>3, <2>1 DEF DeleteDies, tree, records, TreeOK, RowsOK, UploadsOK, SweepOK
  <1>4. CASE GrowOld(a)
    <2>1. UploadsOK'
      BY <1>4 DEF GrowOld, UploadsOK
    <2> QED
      BY <1>4, <2>1 DEF GrowOld, tree, records, TreeOK, RowsOK, StoreOK, SweepOK
  <1> QED
    BY <1>1, <1>2, <1>3, <1>4 DEF DeleteStep

\* A cascade keeps notes and rows typed.
LEMMA CascadeType ==
  ASSUME TreeOK, RowsOK, NEW n \in Notes, CascadeDelete(n), UNCHANGED restores,
         UNCHANGED announced
  PROVE  TreeOK' /\ RowsOK'
  <1>1. TreeOK'
    BY ConstantsAssumption DEF CascadeDelete, TreeOK, NoteStatus
  <1>2. RowsOK'
    BY DEF CascadeDelete, RowsOK, RowStatus
  <1> QED
    BY <1>1, <1>2

\* The trash keeps the types.
LEMMA TrashType ==
  ASSUME TypeOK, NEW n \in Notes, NoteStep(n)
  PROVE  TypeOK'
  <1> USE DEF TypeOK
  <1>1. CASE SoftDelete(n)
    <2>1. TreeOK'
      BY <1>1, ConstantsAssumption DEF SoftDelete, TreeOK, NoteStatus
    <2> QED
      BY <1>1, <2>1 DEF SoftDelete, records, RowsOK, StoreOK, UploadsOK, SweepOK
  <1>2. CASE Restore(n)
    <2>1. TreeOK'
      BY <1>2, ConstantsAssumption DEF Restore, Revive, TreeOK, NoteStatus
    <2> QED
      BY <1>2, <2>1 DEF Restore, records, RowsOK, StoreOK, UploadsOK, SweepOK
  <1>3. CASE PermanentDelete(n)
    <2>1. TreeOK' /\ RowsOK'
      BY <1>3, CascadeType DEF PermanentDelete, records
    <2> QED
      BY <1>3, <2>1 DEF PermanentDelete, records, StoreOK, UploadsOK, SweepOK
  <1>4. CASE RetentionElapses(n)
    <2>1. TreeOK'
      BY <1>4, ConstantsAssumption DEF RetentionElapses, TreeOK, Below
    <2> QED
      BY <1>4, <2>1 DEF RetentionElapses, records, RowsOK, StoreOK, UploadsOK, SweepOK
  <1> QED
    BY <1>1, <1>2, <1>3, <1>4 DEF NoteStep

\* A sweep that only looks moves to a well-formed state.
LEMMA LookType ==
  ASSUME TypeOK, NEW s \in Sweepers, NEW pc \in SweepPC \ PurgePC,
         NEW rows \in SUBSET Attachments, NEW keys \in SUBSET Keys,
         NEW notes \in SUBSET Notes,
         SweepSet(s, At(pc, rows, keys, notes))
  PROVE  SweepOK'
  BY SweepSetType, SweepRecordType DEF TypeOK

\* A finished sweep hands over to the next one.
LEMMA SweepGotoType ==
  ASSUME TypeOK, NEW s \in Sweepers, NEW pc \in SweepPC \ PurgePC, SweepGoto(s, pc)
  PROVE  SweepOK'
  <1>1. SweepSet(s, At(pc, {}, {}, {}))
    BY DEF SweepGoto
  <1> QED
    BY <1>1, LookType

\* So does a note sweep that goes on to its next candidate.
LEMMA NextNoteType ==
  ASSUME TypeOK, NEW s \in Sweepers, NEW left \in SUBSET Notes, NextNote(s, left)
  PROVE  SweepOK'
  <1>1. CASE left = {}
    <2>1. SweepSet(s, At("idle", {}, {}, {}))
      BY <1>1 DEF NextNote, AtRest
    <2> QED
      BY <2>1, LookType DEF SweepPC, PurgePC
  <1>2. CASE left # {}
    <2>1. SweepSet(s, At("nextNote", {}, {}, left))
      BY <1>2 DEF NextNote
    <2> QED
      BY <2>1, LookType DEF SweepPC, PurgePC
  <1> QED
    BY <1>1, <1>2

\* The sweeps over rows and objects keep the types.
LEMMA ObjectSweepType ==
  ASSUME TypeOK, NEW s \in Sweepers, ObjectSweep(s)
  PROVE  TypeOK'
  <1>a. sweep[s] \in Sweep /\ (sweep[s].note # NoNote <=> sweep[s].pc \in PurgePC)
    BY DEF TypeOK, SweepOK
  <1>b. sweep[s].rows \in SUBSET Attachments /\ sweep[s].keys \in SUBSET Keys
    BY <1>a DEF Sweep
  <1>1. CASE SweepFindAbandoned(s)
    <2> DEFINE found == {a \in Attachments : decideAbandonedUpload(a)}
               pc == IF found = {} THEN "list" ELSE "deleteRows"
               keys == UNION {attachmentObjectKeys(a) : a \in found}
    <2>1. keys \in SUBSET Keys
      BY KeysOfAttachments
    <2>2. SweepSet(s, At(pc, found, keys, {}))
      BY <1>1 DEF SweepFindAbandoned
    <2>3. pc \in SweepPC \ PurgePC /\ found \in SUBSET Attachments
      BY DEF SweepPC, PurgePC
    <2> HIDE DEF pc, found, keys
    <2>4. SweepOK'
      BY <2>1, <2>2, <2>3, LookType
    <2> QED
      BY <1>1, <2>4 DEF SweepFindAbandoned, tree, records, TypeOK, TreeOK, RowsOK,
                        StoreOK, UploadsOK
  <1>2. CASE SweepDeleteRows(s)
    <2>1. SweepOK'
      <3> DEFINE r == [sweep[s] EXCEPT !.pc = "removeUploads"]
      <3>1. r \in Sweep /\ r.note = NoNote /\ r.pc = "removeUploads"
        BY <1>2, <1>a DEF SweepDeleteRows, Sweep, SweepPC, PurgePC
      <3>2. SweepSet(s, r)
        BY <1>2 DEF SweepDeleteRows
      <3> HIDE DEF r
      <3> QED
        BY <3>1, <3>2, SweepSetType DEF TypeOK, PurgePC
    <2>2. RowsOK'
      BY <1>2 DEF SweepDeleteRows, TypeOK, RowsOK, RowStatus, records
    <2> QED
      BY <1>2, <2>1, <2>2 DEF SweepDeleteRows, tree, records, TypeOK, TreeOK, StoreOK,
                              UploadsOK
  <1>3. CASE SweepRemoveUploads(s)
    <2>1. SweepOK'
      BY <1>3, SweepGotoType DEF SweepRemoveUploads, SweepPC, PurgePC
    <2>2. StoreOK'
      BY <1>3, RemoveObjectsType DEF SweepRemoveUploads, TypeOK, StoreOK, records
    <2> QED
      BY <1>3, <2>1, <2>2 DEF SweepRemoveUploads, tree, records, TypeOK, TreeOK, RowsOK,
                              UploadsOK
  <1>4. CASE SweepList(s)
    <2> DEFINE pc == IF OldObjects = {} THEN "findReady" ELSE "owners"
    <2>1. SweepSet(s, At(pc, {}, OldObjects, {}))
      BY <1>4 DEF SweepList
    <2>2. pc \in SweepPC \ PurgePC /\ OldObjects \in SUBSET Keys
      BY DEF SweepPC, PurgePC, OldObjects, TypeOK, StoreOK
    <2> HIDE DEF pc
    <2>3. SweepOK'
      BY <2>1, <2>2, LookType
    <2> QED
      BY <1>4, <2>3 DEF SweepList, tree, records, TypeOK, TreeOK, RowsOK, StoreOK,
                        UploadsOK
  <1>5. CASE SweepOwners(s)
    <2> DEFINE orphans == {k \in sweep[s].keys : decideOrphanObject(k)}
               pc == IF orphans = {} THEN "findReady" ELSE "removeOrphans"
    <2>1. SweepSet(s, At(pc, {}, orphans, {}))
      BY <1>5 DEF SweepOwners
    <2>2. pc \in SweepPC \ PurgePC /\ orphans \in SUBSET Keys
      BY <1>b DEF SweepPC, PurgePC
    <2> HIDE DEF pc, orphans
    <2>3. SweepOK'
      BY <2>1, <2>2, LookType
    <2> QED
      BY <1>5, <2>3 DEF SweepOwners, tree, records, TypeOK, TreeOK, RowsOK, StoreOK,
                        UploadsOK
  <1>6. CASE SweepRemoveOrphans(s)
    <2>1. SweepOK'
      BY <1>6, SweepGotoType DEF SweepRemoveOrphans, SweepPC, PurgePC
    <2>2. StoreOK'
      BY <1>6, RemoveObjectsType DEF SweepRemoveOrphans, TypeOK, StoreOK, records
    <2> QED
      BY <1>6, <2>1, <2>2 DEF SweepRemoveOrphans, tree, records, TypeOK, TreeOK, RowsOK,
                              UploadsOK
  <1>7. CASE SweepFindReady(s)
    <2> DEFINE found == {a \in Attachments : row[a] = "ready" /\ age[a] >= 2}
               pc == IF found = {} THEN "findNotes" ELSE "stat"
    <2>1. SweepSet(s, At(pc, found, {}, {}))
      BY <1>7 DEF SweepFindReady
    <2>2. pc \in SweepPC \ PurgePC /\ found \in SUBSET Attachments
      BY DEF SweepPC, PurgePC
    <2> HIDE DEF pc, found
    <2>3. SweepOK'
      BY <2>1, <2>2, LookType
    <2> QED
      BY <1>7, <2>3 DEF SweepFindReady, tree, records, TypeOK, TreeOK, RowsOK, StoreOK,
                        UploadsOK
  <1>8. CASE SweepStat(s)
    <2> DEFINE missing == {a \in sweep[s].rows : Original(a) \notin objects}
               pc == IF missing = {} THEN "findNotes" ELSE "mark"
    <2>1. SweepSet(s, At(pc, missing, {}, {}))
      BY <1>8 DEF SweepStat
    <2>2. pc \in SweepPC \ PurgePC /\ missing \in SUBSET Attachments
      BY <1>b DEF SweepPC, PurgePC
    <2> HIDE DEF pc, missing
    <2>3. SweepOK'
      BY <2>1, <2>2, LookType
    <2> QED
      BY <1>8, <2>3 DEF SweepStat, tree, records, TypeOK, TreeOK, RowsOK, StoreOK,
                        UploadsOK
  <1>9. CASE SweepMark(s)
    <2>1. SweepOK'
      BY <1>9, SweepGotoType DEF SweepMark, SweepPC, PurgePC
    <2>2. RowsOK'
      BY <1>9 DEF SweepMark, TypeOK, RowsOK, RowStatus, records
    <2> QED
      BY <1>9, <2>1, <2>2 DEF SweepMark, tree, records, TypeOK, TreeOK, StoreOK,
                              UploadsOK
  <1> QED
    BY <1>1, <1>2, <1>3, <1>4, <1>5, <1>6, <1>7, <1>8, <1>9 DEF ObjectSweep

\* The purge of deleted notes keeps the types.
LEMMA NoteSweepType ==
  ASSUME TypeOK, NEW s \in Sweepers, NoteSweep(s)
  PROVE  TypeOK'
  <1>a. sweep[s] \in Sweep /\ (sweep[s].note # NoNote <=> sweep[s].pc \in PurgePC)
    BY DEF TypeOK, SweepOK
  <1>1. CASE SweepFindNotes(s)
    <2>1. {n \in expired : note[n] = "trashed"} \in SUBSET Notes
      BY DEF TypeOK, TreeOK
    <2>2. SweepOK'
      BY <1>1, <2>1, NextNoteType DEF SweepFindNotes
    <2> QED
      BY <1>1, <2>2 DEF SweepFindNotes, tree, records, TypeOK, TreeOK, RowsOK, StoreOK,
                        UploadsOK
  <1>2. ASSUME NEW n \in Notes, SweepCheckNote(s, n)
        PROVE  TypeOK'
    <2>1. CASE hasLiveDescendant(n)
      <3>1. sweep[s].notes \ {n} \in SUBSET Notes
        BY <1>a DEF Sweep
      <3> QED
        BY <1>2, <2>1, <3>1, NextNoteType DEF SweepCheckNote, tree, records, TypeOK,
              TreeOK, RowsOK, StoreOK, UploadsOK
    <2>2. CASE ~hasLiveDescendant(n)
      <3> DEFINE r == [sweep[s] EXCEPT !.pc = "noteKeys", !.note = n]
      <3>1. r \in Sweep /\ r.note # NoNote /\ r.pc \in PurgePC
        BY <1>a, ConstantsAssumption DEF Sweep, SweepPC, PurgePC
      <3>2. SweepSet(s, r)
        BY <1>2, <2>2 DEF SweepCheckNote
      <3> HIDE DEF r
      <3>3. SweepOK'
        BY <3>1, <3>2, SweepSetType DEF TypeOK
      <3> QED
        BY <1>2, <3>3 DEF SweepCheckNote, tree, records, TypeOK, TreeOK, RowsOK, StoreOK,
                          UploadsOK
    <2> QED
      BY <2>1, <2>2
  <1>3. CASE SweepReadKeys(s)
    <2> DEFINE owned == {a \in Attachments : NoteOf[a] \in Below(sweep[s].note)}
               keys == UNION {attachmentObjectKeys(a) : a \in owned}
               r == [sweep[s] EXCEPT !.pc = "deleteNote", !.keys = keys]
    <2>1. keys \in SUBSET Keys
      BY KeysOfAttachments
    <2>2. SweepSet(s, r)
      BY <1>3 DEF SweepReadKeys
    <2> HIDE DEF keys
    <2>3. r \in Sweep /\ r.note # NoNote /\ r.pc \in PurgePC
      BY <1>a, <1>3, <2>1 DEF SweepReadKeys, Sweep, SweepPC, PurgePC
    <2> HIDE DEF r
    <2>4. SweepOK'
      BY <2>2, <2>3, SweepSetType DEF TypeOK
    <2> QED
      BY <1>3, <2>4 DEF SweepReadKeys, tree, records, TypeOK, TreeOK, RowsOK, StoreOK,
                        UploadsOK
  <1>4. CASE SweepDeleteNote(s)
    <2> DEFINE r == [sweep[s] EXCEPT !.pc = "removeNoteObjects"]
    <2>1. sweep[s].note \in Notes
      BY <1>a, <1>4 DEF SweepDeleteNote, Sweep, PurgePC
    <2>2. r \in Sweep /\ r.note # NoNote /\ r.pc \in PurgePC
      BY <1>a, <1>4 DEF SweepDeleteNote, Sweep, SweepPC, PurgePC
    <2>3. SweepSet(s, r)
      BY <1>4 DEF SweepDeleteNote
    <2> HIDE DEF r
    <2>4. SweepOK'
      BY <2>2, <2>3, SweepSetType DEF TypeOK
    <2>5. TreeOK' /\ RowsOK'
      <3>1. CASE note[sweep[s].note] = "trashed"
        BY <1>4, <2>1, <3>1, CascadeType DEF SweepDeleteNote, records, TypeOK
      <3>2. CASE note[sweep[s].note] # "trashed"
        BY <1>4, <3>2 DEF SweepDeleteNote, records, TypeOK, TreeOK, RowsOK
      <3> QED
        BY <3>1, <3>2
    <2> QED
      BY <1>4, <2>4, <2>5 DEF SweepDeleteNote, records, TypeOK, StoreOK, UploadsOK
  <1>5. CASE SweepRemoveNoteObjects(s)
    <2>1. sweep[s].notes \ {sweep[s].note} \in SUBSET Notes
      BY <1>a DEF Sweep
    <2>2. SweepOK'
      BY <1>5, <2>1, NextNoteType DEF SweepRemoveNoteObjects
    <2>3. StoreOK'
      BY <1>5, RemoveObjectsType DEF SweepRemoveNoteObjects, TypeOK, StoreOK, records
    <2> QED
      BY <1>5, <2>2, <2>3 DEF SweepRemoveNoteObjects, tree, records, TypeOK, TreeOK,
                              RowsOK, UploadsOK
  <1> QED
    BY <1>1, <1>2, <1>3, <1>4, <1>5 DEF NoteSweep

\* Dying passes and a store that loses objects keep the types.
LEMMA StorageFaultType ==
  ASSUME TypeOK,
         \/ \E s \in Sweepers : SweepDies(s)
         \/ \E k \in Keys : ObjectLost(k)
  PROVE  TypeOK'
  <1>1. ASSUME NEW s \in Sweepers, SweepDies(s)
        PROVE  TypeOK'
    <2>1. SweepOK'
      BY <1>1, LookType DEF SweepDies, AtRest, SweepPC, PurgePC
    <2>2. StoreOK'
      BY <1>1, FaultType DEF SweepDies, TypeOK, StoreOK, records
    <2> QED
      BY <1>1, <2>1, <2>2 DEF SweepDies, tree, records, TypeOK, TreeOK, RowsOK, UploadsOK
  <1>2. ASSUME NEW k \in Keys, ObjectLost(k)
        PROVE  TypeOK'
    <2>1. StoreOK'
      BY <1>2, FaultType DEF ObjectLost, TypeOK, StoreOK
    <2> QED
      BY <1>2, <2>1 DEF ObjectLost, tree, TypeOK, TreeOK, RowsOK, UploadsOK, SweepOK
  <1> QED
    BY <1>1, <1>2

\* Every step keeps the types.
LEMMA StorageNextType ==
  ASSUME TypeOK, [Next]_vars
  PROVE  TypeOK'
  <1>1. CASE UNCHANGED vars
    BY <1>1 DEF vars, TypeOK, TreeOK, RowsOK, StoreOK, UploadsOK, SweepOK
  <1>2. CASE Next
    BY <1>2, UploadType, DeleteType, TrashType, ObjectSweepType, NoteSweepType,
       StorageFaultType DEF Next
  <1> QED
    BY <1>1, <1>2

\* In every behaviour the variables keep their types: only trashed notes carry a batch
\* or run out of retention, only announced attachments were ever ready, and a pass in the
\* middle of a purge knows its note (the pass of storage-maintenance.service.ts).
THEOREM StorageTypeCorrect == Spec => []TypeOK
  <1>1. Init => TypeOK
    BY InitType
  <1>2. TypeOK /\ [Next]_vars => TypeOK'
    BY StorageNextType
  <1> QED
    BY <1>1, <1>2, PTL DEF Spec

----------------------------------------------------------------------------
(* The trash is closed downwards.                                           *)

\* Above a live note every note is live.
LiveAbove ==
  \A m, n \in Notes : n \in Subtree[m] /\ note[n] = "live" => note[m] = "live"

\* Below a deleted note there is nothing left.
GoneBelow ==
  \A m, n \in Notes : n \in Subtree[m] /\ note[m] = "gone" => note[n] = "gone"

\* A deletion batch hangs from its root without holes.
BatchConvex ==
  \A k \in Notes :
     note[k] = "trashed" =>
        /\ k \in Subtree[batch[k]]
        /\ \A m \in Notes :
              k \in Subtree[m] /\ m \in Subtree[batch[k]] => batch[m] = batch[k]

TreeInv == LiveAbove /\ GoneBelow /\ BatchConvex

LEMMA InitTree == Init => TreeInv
  BY ConstantsAssumption DEF Init, TreeInv, LiveAbove, GoneBelow, BatchConvex

\* Steps that leave the notes alone leave the forest's invariant alone.
LEMMA TreeUnchanged ==
  ASSUME TreeInv, UNCHANGED <<note, batch>>
  PROVE  TreeInv'
  BY DEF TreeInv, LiveAbove, GoneBelow, BatchConvex

\* A cascade takes whole subtrees.
LEMMA CascadeTree ==
  ASSUME TreeOK, TreeInv, NEW n \in Notes, CascadeDelete(n)
  PROVE  TreeInv'
  <1> DEFINE S == Subtree[n]
  <1>1. /\ \A m \in Notes : note'[m] = IF m \in S THEN "gone" ELSE note[m]
        /\ \A m \in Notes : batch'[m] = IF m \in S THEN NoNote ELSE batch[m]
    BY DEF CascadeDelete
  <1>2. \A m, k \in Notes : m \in S /\ k \in Subtree[m] => k \in S
    BY ForestAssumption, ConstantsAssumption
  <1> HIDE DEF S
  <1>3. LiveAbove'
    BY <1>1, <1>2 DEF LiveAbove, TreeInv
  <1>4. GoneBelow'
    BY <1>1, <1>2 DEF GoneBelow, TreeInv
  <1>5. BatchConvex'
    <2> SUFFICES ASSUME NEW k \in Notes, note'[k] = "trashed"
                 PROVE  /\ k \in Subtree[batch'[k]]
                        /\ \A m \in Notes : k \in Subtree[m] /\ m \in Subtree[batch'[k]]
                                             => batch'[m] = batch'[k]
      BY DEF BatchConvex
    <2>1. k \notin S /\ note[k] = "trashed" /\ batch'[k] = batch[k]
      BY <1>1
    <2>2. \A m \in Notes : k \in Subtree[m] => m \notin S
      BY <1>2, <2>1
    <2> QED
      BY <1>1, <2>1, <2>2 DEF BatchConvex, TreeInv
  <1> QED
    BY <1>3, <1>4, <1>5 DEF TreeInv

\* Trashing takes the live part of a subtree, and what was trashed in it before keeps its
\* batch: nothing live lies between two notes of one batch.
LEMMA SoftDeleteTree ==
  ASSUME TreeOK, TreeInv, NEW n \in Notes, SoftDelete(n)
  PROVE  TreeInv'
  <1> DEFINE ids == {m \in Below(n) : note[m] = "live"}
  <1>1. /\ note[n] = "live"
        /\ \A m \in Notes : note'[m] = IF m \in ids THEN "trashed" ELSE note[m]
        /\ \A m \in Notes : batch'[m] = IF m \in ids THEN n ELSE batch[m]
    BY DEF SoftDelete
  <1>2. \A m \in Notes : m \in ids <=> m \in Subtree[n] /\ note[m] = "live"
    BY DEF Below
  <1>3. \A m, k \in Notes : m \in Subtree[n] /\ k \in Subtree[m] => k \in Subtree[n]
    BY ForestAssumption, ConstantsAssumption
  <1> HIDE DEF ids
  <1>4. LiveAbove'
    BY <1>1, <1>2, <1>3 DEF LiveAbove, TreeInv
  <1>5. GoneBelow'
    BY <1>1, <1>2 DEF GoneBelow, TreeInv
  <1>6. BatchConvex'
    <2> SUFFICES ASSUME NEW k \in Notes, note'[k] = "trashed"
                 PROVE  /\ k \in Subtree[batch'[k]]
                        /\ \A m \in Notes : k \in Subtree[m] /\ m \in Subtree[batch'[k]]
                                             => batch'[m] = batch'[k]
      BY DEF BatchConvex
    <2>1. CASE k \in ids
      <3>1. k \in Subtree[n] /\ note[k] = "live" /\ batch'[k] = n
        BY <1>1, <1>2, <2>1
      <3>2. ASSUME NEW m \in Notes, k \in Subtree[m], m \in Subtree[n]
            PROVE  batch'[m] = n
        BY <1>1, <1>2, <3>1, <3>2 DEF LiveAbove, TreeInv
      <3> QED
        BY <3>1, <3>2
    <2>2. CASE k \notin ids
      <3>1. note[k] = "trashed" /\ batch'[k] = batch[k]
        BY <1>1, <2>2
      <3>2. batch[k] \in Notes
        BY <3>1, ConstantsAssumption DEF TreeOK
      <3>3. ASSUME NEW m \in Notes, k \in Subtree[m], m \in Subtree[batch[k]]
            PROVE  batch'[m] = batch[k]
        <4>1. batch[m] = batch[k]
          BY <3>1, <3>3 DEF BatchConvex, TreeInv
        <4>2. note[m] = "trashed"
          BY <4>1, <3>2, ConstantsAssumption DEF TreeOK
        <4> QED
          BY <1>1, <1>2, <4>1, <4>2
      <3> QED
        BY <3>1, <3>3 DEF BatchConvex, TreeInv
    <2> QED
      BY <2>1, <2>2
  <1> QED
    BY <1>4, <1>5, <1>6 DEF TreeInv

\* A restore brings back the part of a batch below a note: a part closed upwards within
\* the trash, since every note above is live.
LEMMA RestoreTree ==
  ASSUME TreeOK, TreeInv, NEW n \in Notes, Restore(n)
  PROVE  TreeInv'
  <1> DEFINE ids == RestoredBy(n)
  <1>1. /\ note[n] = "trashed"
        /\ \A m \in Notes : m # n /\ n \in Subtree[m] => note[m] = "live"
        /\ \A m \in Notes : note'[m] = IF m \in ids THEN "live" ELSE note[m]
        /\ \A m \in Notes : batch'[m] = IF m \in ids THEN NoNote ELSE batch[m]
    BY DEF Restore, Revive, Above
  <1>2. \A m \in Notes :
           m \in ids <=> m \in Subtree[n] /\ note[m] = "trashed" /\ batch[m] = batch[n]
    BY DEF RestoredBy, Below
  <1>3. batch[n] \in Notes /\ n \in Subtree[batch[n]] /\ n \in ids
    BY <1>1, <1>2, ConstantsAssumption, ForestAssumption DEF TreeOK, TreeInv, BatchConvex
  <1>4. batch[n] = n
    <2>1. note[batch[n]] = "trashed"
      BY <1>1, <1>3, ForestAssumption, ConstantsAssumption DEF TreeOK, TreeInv, BatchConvex
    <2> QED
      BY <1>1, <1>3, <2>1
  <1> HIDE DEF ids
  \* Between the note and a member of its batch everything belongs to the batch.
  <1>5. ASSUME NEW k \in Notes, k \in ids, NEW m \in Notes, k \in Subtree[m]
        PROVE  m \in ids \/ note[m] = "live"
    <2>1. m \in Subtree[n] \/ n \in Subtree[m]
      BY <1>2, <1>5, ForestAssumption
    <2>2. CASE m \in Subtree[n]
      <3>1. batch[m] = batch[n]
        BY <1>2, <1>4, <1>5, <2>2 DEF TreeInv, BatchConvex
      <3>2. note[m] = "trashed"
        BY <3>1, <1>3, ConstantsAssumption DEF TreeOK
      <3> QED
        BY <1>2, <2>2, <3>1, <3>2
    <2>3. CASE n \in Subtree[m]
      BY <1>1, <1>3, <2>3
    <2> QED
      BY <2>1, <2>2, <2>3
  <1>6. LiveAbove'
    BY <1>1, <1>5 DEF LiveAbove, TreeInv
  <1>7. GoneBelow'
    BY <1>1, <1>2 DEF GoneBelow, TreeInv
  <1>8. BatchConvex'
    <2> SUFFICES ASSUME NEW k \in Notes, note'[k] = "trashed"
                 PROVE  /\ k \in Subtree[batch'[k]]
                        /\ \A m \in Notes : k \in Subtree[m] /\ m \in Subtree[batch'[k]]
                                             => batch'[m] = batch'[k]
      BY DEF BatchConvex
    <2>1. k \notin ids /\ note[k] = "trashed" /\ batch'[k] = batch[k] /\ batch[k] \in Notes
      BY <1>1, ConstantsAssumption DEF TreeOK
    <2>2. ASSUME NEW m \in Notes, k \in Subtree[m], m \in Subtree[batch[k]]
          PROVE  batch'[m] = batch[k]
      <3>1. batch[m] = batch[k]
        BY <2>1, <2>2 DEF BatchConvex, TreeInv
      <3>2. m \notin ids
        <4> SUFFICES ASSUME m \in ids PROVE FALSE
          OBVIOUS
        <4>1. k \in Subtree[n]
          BY <1>2, <2>2, ForestAssumption
        <4> QED
          BY <1>2, <2>1, <3>1, <4>1
      <3> QED
        BY <1>1, <3>1, <3>2
    <2> QED
      BY <2>1, <2>2 DEF BatchConvex, TreeInv
  <1> QED
    BY <1>6, <1>7, <1>8 DEF TreeInv

\* Every step keeps the forest's invariant.
LEMMA NextTree ==
  ASSUME TypeOK, TreeInv, [Next]_vars
  PROVE  TreeInv'
  <1> USE DEF TypeOK
  <1>1. CASE UNCHANGED vars
    BY <1>1, TreeUnchanged DEF vars
  <1>2. ASSUME NEW a \in Attachments, UploadStep(a) \/ DeleteStep(a) \/ GrowOld(a)
        PROVE  TreeInv'
    <2>1. UNCHANGED <<note, batch>>
      BY <1>2 DEF UploadStep, Reserve, MarkProcessing, PutObject, CommitReady, UploadFails,
            Compensate, Cleanup, UploadDies, DeleteStep, DeleteAttachment, RemoveDeleted,
            DeleteDies, GrowOld, tree
    <2> QED
      BY <2>1, TreeUnchanged
  <1>3. ASSUME NEW n \in Notes, NoteStep(n)
        PROVE  TreeInv'
    <2>1. CASE RetentionElapses(n)
      BY <2>1, TreeUnchanged DEF RetentionElapses
    <2> QED
      BY <1>3, <2>1, SoftDeleteTree, RestoreTree, CascadeTree DEF NoteStep, PermanentDelete
  <1>4. ASSUME NEW s \in Sweepers, ObjectSweep(s) \/ NoteSweep(s) \/ SweepDies(s)
        PROVE  TreeInv'
    <2>1. CASE SweepDeleteNote(s)
      <3>1. sweep[s].note \in Notes
        BY <2>1 DEF SweepDeleteNote, SweepOK, Sweep, PurgePC
      <3> QED
        BY <2>1, <3>1, CascadeTree, TreeUnchanged DEF SweepDeleteNote
    <2>2. CASE ~SweepDeleteNote(s)
      <3>1. UNCHANGED <<note, batch>>
        BY <1>4, <2>2 DEF ObjectSweep, NoteSweep, SweepFindAbandoned, SweepDeleteRows,
              SweepRemoveUploads, SweepList, SweepOwners, SweepRemoveOrphans,
              SweepFindReady, SweepStat, SweepMark, SweepFindNotes, SweepCheckNote,
              SweepReadKeys, SweepRemoveNoteObjects, SweepDies, tree
      <3> QED
        BY <3>1, TreeUnchanged
    <2> QED
      BY <2>1, <2>2
  <1>5. ASSUME NEW k \in Keys, ObjectLost(k)
        PROVE  TreeInv'
    BY <1>5, TreeUnchanged DEF ObjectLost, tree
  <1> QED
    BY <1>1, <1>2, <1>3, <1>4, <1>5 DEF Next

\* Trash, restore, permanent deletion and purge, in any order and over any forest, keep
\* the trash a union of batches closed downwards: nothing live hangs below a trashed note.
THEOREM TrashIsClosed == Spec => []TreeInv
  <1>1. Init => TypeOK /\ TreeInv
    BY InitType, InitTree
  <1>2. TypeOK /\ TreeInv /\ [Next]_vars => (TypeOK /\ TreeInv)'
    BY StorageNextType, NextTree
  <1> QED
    BY <1>1, <1>2, PTL DEF Spec

\* One step spares the live notes: a permanent deletion because it asks, a purge because
\* nothing is live below the trashed note it deletes, whatever happened since it asked.
LEMMA StepSparesLive ==
  ASSUME TypeOK, TreeInv, [Next]_vars, NEW n \in Notes, note'[n] = "gone"
  PROVE  note[n] # "live"
  <1> USE DEF TypeOK
  <1>1. CASE UNCHANGED vars
    BY <1>1 DEF vars, TreeOK
  <1>2. ASSUME NEW a \in Attachments, UploadStep(a) \/ DeleteStep(a) \/ GrowOld(a)
        PROVE  note[n] # "live"
    BY <1>2 DEF UploadStep, Reserve, MarkProcessing, PutObject, CommitReady, UploadFails,
          Compensate, Cleanup, UploadDies, DeleteStep, DeleteAttachment, RemoveDeleted,
          DeleteDies, GrowOld, tree
  <1>3. ASSUME NEW m \in Notes, NoteStep(m)
        PROVE  note[n] # "live"
    <2>1. CASE SoftDelete(m)
      BY <2>1 DEF SoftDelete
    <2>2. CASE Restore(m)
      BY <2>2 DEF Restore, Revive
    <2>3. CASE PermanentDelete(m)
      BY <2>3 DEF PermanentDelete, CascadeDelete, Below
    <2>4. CASE RetentionElapses(m)
      BY <2>4 DEF RetentionElapses
    <2> QED
      BY <1>3, <2>1, <2>2, <2>3, <2>4 DEF NoteStep
  <1>4. ASSUME NEW s \in Sweepers, ObjectSweep(s) \/ NoteSweep(s) \/ SweepDies(s)
        PROVE  note[n] # "live"
    <2>1. CASE SweepDeleteNote(s)
      <3>1. sweep[s].note \in Notes
        BY <2>1 DEF SweepDeleteNote, SweepOK, Sweep, PurgePC
      <3>2. CASE note[sweep[s].note] = "trashed"
        BY <2>1, <3>1, <3>2 DEF SweepDeleteNote, CascadeDelete, TreeInv, LiveAbove
      <3>3. CASE note[sweep[s].note] # "trashed"
        BY <2>1, <3>3 DEF SweepDeleteNote
      <3> QED
        BY <3>2, <3>3
    <2>2. CASE ~SweepDeleteNote(s)
      BY <1>4, <2>2 DEF ObjectSweep, NoteSweep, SweepFindAbandoned, SweepDeleteRows,
            SweepRemoveUploads, SweepList, SweepOwners, SweepRemoveOrphans,
            SweepFindReady, SweepStat, SweepMark, SweepFindNotes, SweepCheckNote,
            SweepReadKeys, SweepRemoveNoteObjects, SweepDies, tree
    <2> QED
      BY <2>1, <2>2
  <1>5. ASSUME NEW k \in Keys, ObjectLost(k)
        PROVE  note[n] # "live"
    BY <1>5 DEF ObjectLost, tree
  <1> QED
    BY <1>1, <1>2, <1>3, <1>4, <1>5 DEF Next

\* No cascade takes a note its user did not delete (sweepDeletedNotes and
\* permanentDelete of notes.service.ts), for every forest and any number of passes.
THEOREM CascadesSpareLive == Spec => CascadeSparesLive
  <1>1. Init => TypeOK /\ TreeInv
    BY InitType, InitTree
  <1>2. TypeOK /\ TreeInv /\ [Next]_vars => (TypeOK /\ TreeInv)'
    BY StorageNextType, NextTree
  <1>3. TypeOK /\ TreeInv /\ [Next]_vars
           => [\A n \in Notes : note'[n] = "gone" => note[n] # "live"]_vars
    BY StepSparesLive
  <1> QED
    BY <1>1, <1>2, <1>3, PTL DEF Spec, CascadeSparesLive

----------------------------------------------------------------------------
(* Records of a loss survive the sweeps.                                    *)

\* Windows elapse only after an upload is over.
OldMeansOver == \A a \in Attachments : age[a] > 0 => up[a].pc = "ended"

\* What a sweep is about to delete is nobody's any more, and can no longer turn ready.
Doomed(a) == up[a].pc = "ended" /\ row[a] \in {"pending", "processing", "failed", "gone"}

DoomedRows ==
  \A s \in Sweepers : sweep[s].pc = "deleteRows" => \A a \in sweep[s].rows : Doomed(a)

LossInv == OldMeansOver /\ DoomedRows

LEMMA InitLoss == Init => LossInv
  BY DEF Init, LossInv, OldMeansOver, DoomedRows, At, AtRest

\* A row that is doomed stays doomed: only its deletion changes it.
LEMMA DoomedStays ==
  ASSUME TypeOK, LossInv, [Next]_vars, NEW a \in Attachments, Doomed(a)
  PROVE  Doomed(a)'
  <1>0. up \in [Attachments -> Up] /\ row \in [Attachments -> RowStatus]
    BY DEF TypeOK, UploadsOK, RowsOK
  <1>1. CASE UNCHANGED vars
    BY <1>1 DEF vars, Doomed
  <1>2. ASSUME NEW b \in Attachments, UploadStep(b) PROVE Doomed(a)'
    <2>1. a # b
      BY <1>2 DEF UploadStep, Reserve, MarkProcessing, PutObject, CommitReady, UploadFails,
            Compensate, Cleanup, UploadDies, Doomed
    <2>2. up'[a] = up[a]
      BY <1>0, <1>2, <2>1 DEF UploadStep, Reserve, MarkProcessing, PutObject, CommitReady,
            UploadFails, Compensate, Cleanup, UploadDies, UpGoto
    <2>3. row'[a] = row[a]
      BY <1>0, <1>2, <2>1 DEF UploadStep, Reserve, MarkProcessing, PutObject, CommitReady,
            UploadFails, Compensate, Cleanup, UploadDies, setStatus
    <2> QED
      BY <2>2, <2>3 DEF Doomed
  <1>3. ASSUME NEW b \in Attachments, DeleteStep(b) \/ GrowOld(b) PROVE Doomed(a)'
    BY <1>0, <1>3 DEF DeleteStep, DeleteAttachment, RemoveDeleted, DeleteDies, GrowOld, Doomed
  <1>4. ASSUME NEW n \in Notes, NoteStep(n) PROVE Doomed(a)'
    BY <1>4 DEF NoteStep, SoftDelete, Restore, PermanentDelete, RetentionElapses,
          CascadeDelete, Doomed
  <1>5. ASSUME NEW s \in Sweepers, ObjectSweep(s) \/ SweepDies(s) PROVE Doomed(a)'
    BY <1>0, <1>5 DEF ObjectSweep, SweepFindAbandoned, SweepDeleteRows, SweepRemoveUploads,
          SweepList, SweepOwners, SweepRemoveOrphans, SweepFindReady, SweepStat, SweepMark,
          SweepDies, Doomed
  <1>6. ASSUME NEW s \in Sweepers, NoteSweep(s) PROVE Doomed(a)'
    BY <1>0, <1>6 DEF NoteSweep, SweepFindNotes, SweepCheckNote, SweepReadKeys,
          SweepDeleteNote, SweepRemoveNoteObjects, CascadeDelete, Doomed
  <1>7. ASSUME NEW k \in Keys, ObjectLost(k) PROVE Doomed(a)'
    BY <1>7 DEF ObjectLost, Doomed
  <1> QED
    BY <1>1, <1>2, <1>3, <1>4, <1>5, <1>6, <1>7 DEF Next

\* A pass that waits to delete rows either waited already or has just found them.
LEMMA FreshDoomed ==
  ASSUME TypeOK, LossInv, [Next]_vars, NEW s \in Sweepers, sweep'[s].pc = "deleteRows"
  PROVE  \A a \in sweep'[s].rows : a \in Attachments /\ Doomed(a)
  <1>0. /\ sweep \in [Sweepers -> Sweep]
        /\ \A r \in Sweepers : sweep[r].rows \subseteq Attachments
    BY DEF TypeOK, SweepOK, Sweep
  <1>1. CASE sweep'[s] = sweep[s]
    BY <1>0, <1>1 DEF LossInv, DoomedRows
  <1>2. CASE SweepFindAbandoned(s)
    <2>1. sweep'[s].rows = {a \in Attachments : decideAbandonedUpload(a)}
      BY <1>0, <1>2 DEF SweepFindAbandoned, SweepSet, At
    <2>2. \A a \in Attachments : decideAbandonedUpload(a) => age[a] > 0
      BY DEF decideAbandonedUpload, TypeOK, UploadsOK
    <2> QED
      BY <2>1, <2>2 DEF decideAbandonedUpload, LossInv, OldMeansOver, Doomed
  <1>3. CASE sweep'[s] # sweep[s] /\ ~SweepFindAbandoned(s)
    <2> SUFFICES ASSUME NEW r \in Sweepers, ObjectSweep(r) \/ NoteSweep(r) \/ SweepDies(r)
                 PROVE  FALSE
      BY <1>3 DEF Next, vars, UploadStep, Reserve, MarkProcessing, PutObject, CommitReady,
            UploadFails, Compensate, Cleanup, UploadDies, DeleteStep, DeleteAttachment,
            RemoveDeleted, DeleteDies, GrowOld, NoteStep, SoftDelete, Restore,
            PermanentDelete, RetentionElapses, ObjectLost
    <2>1. r = s
      BY <1>0, <1>3 DEF ObjectSweep, SweepFindAbandoned, SweepDeleteRows,
            SweepRemoveUploads, SweepList, SweepOwners, SweepRemoveOrphans, SweepFindReady,
            SweepStat, SweepMark, NoteSweep, SweepFindNotes, SweepCheckNote, SweepReadKeys,
            SweepDeleteNote, SweepRemoveNoteObjects, SweepDies, SweepSet, SweepGoto, NextNote
    <2>2. CASE ObjectSweep(s)
      BY <1>0, <1>3, <2>2 DEF ObjectSweep, SweepDeleteRows,
            SweepRemoveUploads, SweepList, SweepOwners, SweepRemoveOrphans, SweepFindReady,
            SweepStat, SweepMark, SweepSet, SweepGoto, At, Sweep
    <2>3. CASE SweepDies(s)
      BY <1>0, <2>3 DEF SweepDies, SweepSet, At, AtRest
    <2>4. ASSUME NEW left, NextNote(s, left) PROVE FALSE
      BY <1>0, <2>4 DEF NextNote, SweepSet, At, AtRest
    <2>5. ASSUME NEW n \in Notes, SweepCheckNote(s, n) PROVE FALSE
      BY <1>0, <2>4, <2>5 DEF SweepCheckNote, SweepSet, Sweep
    <2>6. CASE SweepFindNotes(s) \/ SweepRemoveNoteObjects(s)
      BY <2>4, <2>6 DEF SweepFindNotes, SweepRemoveNoteObjects
    <2>7. CASE SweepReadKeys(s)
      <3> DEFINE keys == UNION {attachmentObjectKeys(a) :
                                  a \in {b \in Attachments : NoteOf[b] \in Below(sweep[s].note)}}
      <3>1. sweep' = [sweep EXCEPT ![s] = [sweep[s] EXCEPT !.pc = "deleteNote", !.keys = keys]]
        BY <2>7 DEF SweepReadKeys, SweepSet
      <3> HIDE DEF keys
      <3> QED
        BY <1>0, <3>1 DEF Sweep
    <2>8. CASE SweepDeleteNote(s)
      BY <1>0, <2>8 DEF SweepDeleteNote, SweepSet, Sweep
    <2> QED
      BY <2>1, <2>2, <2>3, <2>5, <2>6, <2>7, <2>8 DEF NoteSweep
  <1> QED
    BY <1>1, <1>2, <1>3

LEMMA NextLoss ==
  ASSUME TypeOK, LossInv, [Next]_vars
  PROVE  LossInv'
  <1>1. OldMeansOver'
    <2> SUFFICES ASSUME NEW a \in Attachments, age'[a] > 0 PROVE up'[a].pc = "ended"
      BY DEF OldMeansOver
    <2>0. up \in [Attachments -> Up] /\ age \in [Attachments -> 0..2]
      BY DEF TypeOK, UploadsOK
    <2>1. CASE UNCHANGED vars
      BY <2>1 DEF vars, LossInv, OldMeansOver
    <2>2. ASSUME NEW b \in Attachments, UploadStep(b) PROVE up'[a].pc = "ended"
      <3>1. age[a] > 0 /\ up[a].pc = "ended"
        BY <2>2 DEF UploadStep, Reserve, MarkProcessing, PutObject, CommitReady,
              UploadFails, Compensate, Cleanup, UploadDies, LossInv, OldMeansOver
      <3>2. a # b
        BY <2>2, <3>1 DEF UploadStep, Reserve, MarkProcessing, PutObject, CommitReady,
              UploadFails, Compensate, Cleanup, UploadDies
      <3>3. up'[a] = up[a]
        BY <2>0, <2>2, <3>2 DEF UploadStep, Reserve, MarkProcessing, PutObject, CommitReady,
              UploadFails, Compensate, Cleanup, UploadDies, UpGoto
      <3> QED
        BY <3>1, <3>3
    <2>3. ASSUME NEW b \in Attachments, DeleteStep(b) \/ GrowOld(b)
          PROVE  up'[a].pc = "ended"
      BY <2>0, <2>3 DEF DeleteStep, DeleteAttachment, RemoveDeleted, DeleteDies, GrowOld,
            LossInv, OldMeansOver
    <2>4. CASE UNCHANGED <<age, up>>
      BY <2>4 DEF LossInv, OldMeansOver
    <2>5. ASSUME NEW n \in Notes, NoteStep(n) PROVE UNCHANGED <<age, up>>
      BY <2>5 DEF NoteStep, SoftDelete, Restore, PermanentDelete, RetentionElapses
    <2>6. ASSUME NEW s \in Sweepers, ObjectSweep(s) \/ NoteSweep(s) \/ SweepDies(s)
          PROVE  UNCHANGED <<age, up>>
      BY <2>6 DEF ObjectSweep, SweepFindAbandoned, SweepDeleteRows,
            SweepRemoveUploads, SweepList, SweepOwners, SweepRemoveOrphans, SweepFindReady,
            SweepStat, SweepMark, NoteSweep, SweepFindNotes, SweepCheckNote, SweepReadKeys,
            SweepDeleteNote, SweepRemoveNoteObjects, SweepDies
    <2>7. ASSUME NEW k \in Keys, ObjectLost(k) PROVE UNCHANGED <<age, up>>
      BY <2>7 DEF ObjectLost
    <2> QED
      BY <2>1, <2>2, <2>3, <2>4, <2>5, <2>6, <2>7 DEF Next
  <1>2. DoomedRows'
    BY FreshDoomed, DoomedStays DEF DoomedRows
  <1> QED
    BY <1>1, <1>2 DEF LossInv

\* A step of a sweep that takes a record of a loss takes its note with it.
LEMMA StepKeepsRecord ==
  ASSUME TypeOK, LossInv, [Next]_vars, NEW a \in Attachments,
         row[a] = "missing", row'[a] # "missing"
  PROVE  sweep' = sweep \/ note'[NoteOf[a]] = "gone"
  <1>0. row \in [Attachments -> RowStatus] /\ NoteOf[a] \in Notes
    BY ConstantsAssumption DEF TypeOK, RowsOK
  <1>1. ASSUME NEW s \in Sweepers, ObjectSweep(s) \/ SweepDies(s)
        PROVE  FALSE
    BY <1>1 DEF ObjectSweep, SweepFindAbandoned, SweepDeleteRows, SweepRemoveUploads,
          SweepList, SweepOwners, SweepRemoveOrphans, SweepFindReady, SweepStat, SweepMark,
          SweepDies, LossInv, DoomedRows, Doomed
  <1>2. ASSUME NEW s \in Sweepers, NoteSweep(s)
        PROVE  note'[NoteOf[a]] = "gone"
    BY <1>0, <1>2 DEF NoteSweep, SweepFindNotes, SweepCheckNote, SweepReadKeys,
          SweepDeleteNote, SweepRemoveNoteObjects, CascadeDelete
  <1>3. ASSUME NEW b \in Attachments, UploadStep(b) \/ DeleteStep(b) \/ GrowOld(b)
        PROVE  sweep' = sweep
    BY <1>3 DEF UploadStep, Reserve, MarkProcessing, PutObject, CommitReady, UploadFails,
          Compensate, Cleanup, UploadDies, DeleteStep, DeleteAttachment, RemoveDeleted,
          DeleteDies, GrowOld
  <1>4. ASSUME NEW n \in Notes, NoteStep(n) PROVE sweep' = sweep
    BY <1>4 DEF NoteStep, SoftDelete, Restore, PermanentDelete, RetentionElapses
  <1>5. ASSUME NEW k \in Keys, ObjectLost(k) PROVE sweep' = sweep
    BY <1>5 DEF ObjectLost
  <1>6. CASE UNCHANGED vars
    BY <1>6 DEF vars
  <1> QED
    BY <1>1, <1>2, <1>3, <1>4, <1>5, <1>6 DEF Next

\* "Marked, never deleted": no sweep of any pass, however stale what it read, deletes the
\* record of a lost file (sweepAbandonedUploads against sweepMissingObjects).
THEOREM LossRecordsKept == Spec => RecordOfLossIsKept
  <1>1. Init => TypeOK /\ LossInv
    BY InitType, InitLoss
  <1>2. TypeOK /\ LossInv /\ [Next]_vars => (TypeOK /\ LossInv)'
    BY StorageNextType, NextLoss
  <1>3. TypeOK /\ LossInv /\ [Next]_vars
           => [\A a \in Attachments :
                 row[a] = "missing" /\ row'[a] # "missing" =>
                    sweep' = sweep \/ note'[NoteOf[a]] = "gone"]_vars
    BY StepKeepsRecord
  <1> QED
    BY <1>1, <1>2, <1>3, PTL DEF Spec, RecordOfLossIsKept

----------------------------------------------------------------------------
(* What a row and an upload can undergo.                                    *)

\* What everybody but the upload itself does to the row of an attachment.
Fades(a) ==
    \/ row'[a] = row[a]
    \/ Present(a) /\ row'[a] = "gone"
    \/ row[a] = "ready" /\ row'[a] = "missing"

\* A step is the upload's own, or leaves the upload alone and at most fades its row.
LEMMA StepFades ==
  ASSUME TypeOK, [Next]_vars, NEW a \in Attachments, ~UploadStep(a)
  PROVE  up'[a] = up[a] /\ Fades(a)
  <1>0. up \in [Attachments -> Up] /\ row \in [Attachments -> RowStatus]
    BY DEF TypeOK, UploadsOK, RowsOK
  <1>1. CASE UNCHANGED vars
    BY <1>1 DEF vars, Fades
  <1>2. ASSUME NEW b \in Attachments, UploadStep(b) PROVE up'[a] = up[a] /\ Fades(a)
    <2>1. a # b
      BY <1>2
    <2>2. up'[a] = up[a]
      BY <1>0, <1>2, <2>1 DEF UploadStep, Reserve, MarkProcessing, PutObject, CommitReady,
            UploadFails, Compensate, Cleanup, UploadDies, UpGoto
    <2>3. row'[a] = row[a]
      BY <1>0, <1>2, <2>1 DEF UploadStep, Reserve, MarkProcessing, PutObject, CommitReady,
            UploadFails, Compensate, Cleanup, UploadDies, setStatus
    <2> QED
      BY <2>2, <2>3 DEF Fades
  <1>3. ASSUME NEW b \in Attachments, DeleteStep(b) \/ GrowOld(b)
        PROVE  up'[a] = up[a] /\ Fades(a)
    BY <1>0, <1>3 DEF DeleteStep, DeleteAttachment, RemoveDeleted, DeleteDies, GrowOld, Fades
  <1>4. ASSUME NEW n \in Notes, NoteStep(n) PROVE up'[a] = up[a] /\ Fades(a)
    BY <1>4 DEF NoteStep, SoftDelete, Restore, PermanentDelete, RetentionElapses,
          CascadeDelete, Fades
  <1>5. ASSUME NEW s \in Sweepers, ObjectSweep(s) \/ SweepDies(s)
        PROVE  up'[a] = up[a] /\ Fades(a)
    BY <1>0, <1>5 DEF ObjectSweep, SweepFindAbandoned, SweepDeleteRows, SweepRemoveUploads,
          SweepList, SweepOwners, SweepRemoveOrphans, SweepFindReady, SweepStat, SweepMark,
          SweepDies, Fades
  <1>6. ASSUME NEW s \in Sweepers, NoteSweep(s) PROVE up'[a] = up[a] /\ Fades(a)
    BY <1>0, <1>6 DEF NoteSweep, SweepFindNotes, SweepCheckNote, SweepReadKeys,
          SweepDeleteNote, SweepRemoveNoteObjects, CascadeDelete, Fades
  <1>7. ASSUME NEW k \in Keys, ObjectLost(k) PROVE up'[a] = up[a] /\ Fades(a)
    BY <1>7 DEF ObjectLost, Fades
  <1> QED
    BY <1>1, <1>2, <1>3, <1>4, <1>5, <1>6, <1>7 DEF Next

\* The place of an upload in its saga and the status of its row agree, unless the row
\* was deleted meanwhile.
UploadRow(a) ==
    /\ up[a].pc = "idle" => row[a] = "none"
    /\ up[a].pc = "mark" => row[a] \in {"pending", "gone"}
    /\ up[a].pc \in {"put", "commit", "compensate"} => row[a] \in {"processing", "gone"}
    /\ up[a].pc = "cleanup" => row[a] \in {"failed", "gone"}

UploadRows == \A a \in Attachments : UploadRow(a)

\* What a step of an upload does to its own place and row.
UploadMoves(a) ==
    \/ up[a].pc = "idle" /\ up'[a].pc = "mark" /\ row'[a] = "pending"
    \/ /\ up[a].pc = "mark" /\ up'[a].pc = "put"
       /\ row'[a] = IF Present(a) THEN "processing" ELSE row[a]
    \/ up[a].pc = "put" /\ up'[a].pc \in {"put", "commit"} /\ row'[a] = row[a]
    \/ /\ up[a].pc = "commit" /\ up'[a].pc = "ended"
       /\ row'[a] = IF Present(a) THEN "ready" ELSE row[a]
    \/ up[a].pc \in {"put", "commit"} /\ up'[a].pc = "compensate" /\ row'[a] = row[a]
    \/ /\ up[a].pc = "compensate" /\ up'[a].pc = "cleanup"
       /\ row'[a] = IF Present(a) THEN "failed" ELSE row[a]
    \/ up[a].pc \notin {"idle", "ended"} /\ up'[a].pc = "ended" /\ row'[a] = row[a]

\* Every step of an upload is one of these.
LEMMA UploadStepMoves ==
  ASSUME TypeOK, NEW a \in Attachments, UploadStep(a)
  PROVE  UploadMoves(a)
  <1>0. up \in [Attachments -> Up] /\ row \in [Attachments -> RowStatus]
    BY DEF TypeOK, UploadsOK, RowsOK
  <1>1. ASSUME NEW pc, UpGoto(a, pc) PROVE up'[a].pc = pc
    BY <1>0, <1>1 DEF UpGoto, Up
  <1>2. ASSUME NEW status, setStatus(a, status)
        PROVE  row'[a] = IF Present(a) THEN status ELSE row[a]
    BY <1>0, <1>2 DEF setStatus
  <1>3. CASE Reserve(a)
    BY <1>0, <1>1, <1>3 DEF Reserve, UploadMoves
  <1>4. CASE MarkProcessing(a)
    BY <1>1, <1>2, <1>4 DEF MarkProcessing, UploadMoves
  <1>5. CASE PutObject(a)
    BY <1>0, <1>5 DEF PutObject, UploadMoves
  <1>6. CASE CommitReady(a)
    BY <1>1, <1>2, <1>6 DEF CommitReady, UploadMoves
  <1>7. CASE UploadFails(a)
    BY <1>1, <1>7 DEF UploadFails, UploadMoves
  <1>8. CASE Compensate(a)
    BY <1>1, <1>2, <1>8 DEF Compensate, UploadMoves
  <1>9. CASE Cleanup(a) \/ UploadDies(a)
    BY <1>1, <1>9 DEF Cleanup, UploadDies, UploadMoves
  <1> QED
    BY <1>3, <1>4, <1>5, <1>6, <1>7, <1>8, <1>9 DEF UploadStep

\* UploadRows is inductive.
LEMMA NextUploadRows ==
  ASSUME TypeOK, UploadRows, [Next]_vars
  PROVE  UploadRows'
  <1> SUFFICES ASSUME NEW a \in Attachments PROVE UploadRow(a)'
    BY DEF UploadRows
  <1>1. CASE UploadStep(a)
    BY <1>1, UploadStepMoves DEF UploadRows, UploadRow, UploadMoves, Present
  <1>2. CASE ~UploadStep(a)
    BY <1>2, StepFades DEF UploadRows, UploadRow, Fades, Present
  <1> QED
    BY <1>1, <1>2

LEMMA InitUploadRows == Init => UploadRows
  BY DEF Init, UploadRows, UploadRow

----------------------------------------------------------------------------
(* The quota.                                                               *)

Reserved == {a \in Attachments : row[a] \in Charged}

QuotaInv == IsFiniteSet(Reserved) /\ Cardinality(Reserved) <= QuotaLimit

\* Nothing but a reservation adds to what is charged.
LEMMA NextQuota ==
  ASSUME TypeOK, UploadRows, QuotaInv, [Next]_vars
  PROVE  QuotaInv'
  <1>1. ASSUME NEW a \in Attachments, Reserve(a)
        PROVE  QuotaInv'
    <2>1. Reserved' = Reserved \cup {a}
      BY <1>1 DEF Reserve, Reserved, Charged, TypeOK, RowsOK
    <2>2. Cardinality(Reserved) < QuotaLimit
      BY <1>1 DEF Reserve, fitsWithinQuota, Reserved
    <2>3. IsFiniteSet(Reserved) /\ Cardinality(Reserved) \in Nat
      BY FS_CardinalityType DEF QuotaInv
    <2>4. /\ IsFiniteSet(Reserved \cup {a})
          /\ Cardinality(Reserved \cup {a}) \in
                {Cardinality(Reserved), Cardinality(Reserved) + 1}
      BY <2>3, FS_AddElement
    <2>5. IsFiniteSet(Reserved') /\ Cardinality(Reserved') <= QuotaLimit
      BY <2>1, <2>2, <2>3, <2>4, ConstantsAssumption
    <2> QED
      BY <2>5 DEF QuotaInv
  <1>2. CASE ~\E a \in Attachments : Reserve(a)
    <2>1. ASSUME NEW a \in Attachments, row'[a] \in Charged PROVE row[a] \in Charged
      <3>1. CASE UploadStep(a)
        <4>1. up[a].pc # "idle"
          BY <1>2, <3>1 DEF UploadStep, MarkProcessing, PutObject, CommitReady, UploadFails,
                Compensate, Cleanup, UploadDies
        <4> QED
          BY <2>1, <3>1, <4>1, UploadStepMoves
             DEF UploadMoves, UploadRows, UploadRow, Charged, Present
      <3>2. CASE ~UploadStep(a)
        BY <2>1, <3>2, StepFades DEF Fades, Charged
      <3> QED
        BY <3>1, <3>2
    <2>2. Reserved' \subseteq Reserved
      BY <2>1 DEF Reserved
    <2>3. /\ IsFiniteSet(Reserved') /\ Cardinality(Reserved') <= Cardinality(Reserved)
          /\ Cardinality(Reserved') \in Nat /\ Cardinality(Reserved) \in Nat
      BY <2>2, FS_Subset, FS_CardinalityType DEF QuotaInv
    <2> QED
      BY <2>3, ConstantsAssumption DEF QuotaInv
  <1> QED
    BY <1>1, <1>2

\* Whatever uploads, deletions and sweeps are in flight, what is reserved and stored stays
\* within the limit: reservations are counted under the lock of the workspace row, and a
\* saga never charges again what was given up (fitsWithinQuota of attachments.service.ts).
THEOREM QuotaIsRespected == Spec => []QuotaRespected
  <1>1. Init => TypeOK /\ UploadRows /\ QuotaInv
    <2>1. Init => Reserved = {}
      BY DEF Init, Reserved, Charged
    <2> QED
      BY <2>1, InitType, InitUploadRows, FS_EmptySet, ConstantsAssumption DEF QuotaInv
  <1>2. TypeOK /\ UploadRows /\ QuotaInv /\ [Next]_vars
           => (TypeOK /\ UploadRows /\ QuotaInv)'
    BY StorageNextType, NextUploadRows, NextQuota
  <1>3. QuotaInv => QuotaRespected
    BY DEF QuotaInv, QuotaRespected, Reserved
  <1> QED
    BY <1>1, <1>2, <1>3, PTL DEF Spec

----------------------------------------------------------------------------
(* What a pass means to purge: candidates it read steps before.             *)

\* A pass that changed has taken a step.
LEMMA PassSteps ==
  ASSUME TypeOK, [Next]_vars, NEW s \in Sweepers, sweep'[s] # sweep[s]
  PROVE  ObjectSweep(s) \/ NoteSweep(s) \/ SweepDies(s)
  <1>0. sweep \in [Sweepers -> Sweep]
    BY DEF TypeOK, SweepOK
  <1>1. PICK r \in Sweepers : ObjectSweep(r) \/ NoteSweep(r) \/ SweepDies(r)
    BY DEF Next, vars, UploadStep, Reserve, MarkProcessing, PutObject, CommitReady,
          UploadFails, Compensate, Cleanup, UploadDies, DeleteStep, DeleteAttachment,
          RemoveDeleted, DeleteDies, GrowOld, NoteStep, SoftDelete, Restore,
          PermanentDelete, RetentionElapses, ObjectLost
  <1>2. r = s
    BY <1>0, <1>1 DEF ObjectSweep, SweepFindAbandoned, SweepDeleteRows,
          SweepRemoveUploads, SweepList, SweepOwners, SweepRemoveOrphans, SweepFindReady,
          SweepStat, SweepMark, NoteSweep, SweepFindNotes, SweepCheckNote, SweepReadKeys,
          SweepDeleteNote, SweepRemoveNoteObjects, SweepDies, SweepSet, SweepGoto, NextNote
  <1> QED
    BY <1>1, <1>2

\* The notes a pass is purging or means to look at.
Candidates(s) == sweep[s].notes \cup ({sweep[s].note} \ {NoNote})

\* A pass that goes on to the next note, or comes to rest, has no others.
LEMMA NextNoteCandidates ==
  ASSUME TypeOK, NEW s \in Sweepers, NEW left \in SUBSET Notes, NextNote(s, left)
  PROVE  Candidates(s)' = left
  BY DEF TypeOK, SweepOK, NextNote, SweepSet, At, AtRest, Candidates

\* A pass finds its candidates among the notes past retention.
LEMMA CandidatesFound ==
  ASSUME TypeOK, [Next]_vars, NEW s \in Sweepers
  PROVE  Candidates(s)' \subseteq Candidates(s) \cup expired
  <1>0. /\ sweep \in [Sweepers -> Sweep] /\ Candidates(s) \subseteq Notes
        /\ sweep[s] \in Sweep /\ expired \subseteq Notes
    BY DEF TypeOK, SweepOK, Sweep, Candidates, TreeOK
  <1>1. CASE sweep'[s] = sweep[s]
    BY <1>1 DEF Candidates
  <1>2. ASSUME NEW pc, NEW rows, NEW keys, SweepSet(s, At(pc, rows, keys, {}))
        PROVE  Candidates(s)' = {}
    BY <1>0, <1>2 DEF SweepSet, At, Candidates
  <1>3. CASE ObjectSweep(s) \/ SweepDies(s)
    <2>1. CASE SweepDeleteRows(s)
      BY <1>0, <2>1 DEF SweepDeleteRows, SweepSet, Sweep, Candidates
    <2>2. CASE ~SweepDeleteRows(s)
      BY <1>2, <1>3, <2>2 DEF ObjectSweep, SweepFindAbandoned,
            SweepRemoveUploads, SweepList, SweepOwners, SweepRemoveOrphans, SweepFindReady,
            SweepStat, SweepMark, SweepDies, SweepGoto, AtRest
    <2> QED
      BY <2>1, <2>2
  <1>4. CASE SweepFindNotes(s)
    BY <1>0, <1>4, NextNoteCandidates DEF SweepFindNotes
  <1>5. ASSUME NEW n \in Notes, SweepCheckNote(s, n)
        PROVE  Candidates(s)' \subseteq Candidates(s)
    <2>1. CASE NextNote(s, sweep[s].notes \ {n})
      BY <1>0, <2>1, NextNoteCandidates DEF Candidates
    <2>2. CASE SweepSet(s, [sweep[s] EXCEPT !.pc = "noteKeys", !.note = n])
      BY <1>0, <1>5, <2>2 DEF SweepCheckNote, SweepSet, Sweep, Candidates
    <2> QED
      BY <1>5, <2>1, <2>2 DEF SweepCheckNote
  <1>6. CASE SweepReadKeys(s)
    <2> DEFINE keys == UNION {attachmentObjectKeys(a) :
                                a \in {b \in Attachments : NoteOf[b] \in Below(sweep[s].note)}}
    <2>1. sweep' = [sweep EXCEPT ![s] = [sweep[s] EXCEPT !.pc = "deleteNote", !.keys = keys]]
      BY <1>6 DEF SweepReadKeys, SweepSet
    <2> HIDE DEF keys
    <2> QED
      BY <1>0, <2>1 DEF Sweep, Candidates
  <1>7. CASE SweepDeleteNote(s)
    BY <1>0, <1>7 DEF SweepDeleteNote, SweepSet, Sweep, Candidates
  <1>8. CASE SweepRemoveNoteObjects(s)
    BY <1>0, <1>8, NextNoteCandidates DEF SweepRemoveNoteObjects, Candidates
  <1> QED
    BY <1>1, <1>3, <1>4, <1>5, <1>6, <1>7, <1>8, PassSteps DEF NoteSweep

\* What the tree of notes undergoes.
TreeStep ==
    \/ UNCHANGED tree
    \/ \E n \in Notes : NoteStep(n)
    \/ \E n \in Notes : note[n] = "trashed" /\ CascadeDelete(n) /\ UNCHANGED restores

\* Nobody else touches the tree.
LEMMA StepOfTree ==
  ASSUME TypeOK, [Next]_vars
  PROVE  TreeStep
  <1>1. ASSUME NEW s \in Sweepers, SweepDeleteNote(s) PROVE TreeStep
    <2>1. sweep[s].note \in Notes
      BY <1>1 DEF SweepDeleteNote, TypeOK, SweepOK, Sweep, PurgePC
    <2> QED
      BY <1>1, <2>1 DEF SweepDeleteNote, TreeStep, tree
  <1>2. ASSUME NEW s \in Sweepers, ObjectSweep(s) \/ NoteSweep(s) \/ SweepDies(s),
               ~SweepDeleteNote(s)
        PROVE  UNCHANGED tree
    BY <1>2 DEF ObjectSweep, NoteSweep, SweepFindAbandoned, SweepDeleteRows,
          SweepRemoveUploads, SweepList, SweepOwners, SweepRemoveOrphans,
          SweepFindReady, SweepStat, SweepMark, SweepFindNotes, SweepCheckNote,
          SweepReadKeys, SweepRemoveNoteObjects, SweepDies
  <1>3. ASSUME NEW a \in Attachments, UploadStep(a) \/ DeleteStep(a) \/ GrowOld(a)
        PROVE  UNCHANGED tree
    BY <1>3 DEF UploadStep, Reserve, MarkProcessing, PutObject, CommitReady, UploadFails,
          Compensate, Cleanup, UploadDies, DeleteStep, DeleteAttachment, RemoveDeleted,
          DeleteDies, GrowOld
  <1>4. ASSUME NEW k \in Keys, ObjectLost(k) PROVE UNCHANGED tree
    BY <1>4 DEF ObjectLost
  <1>5. UNCHANGED vars => UNCHANGED tree
    BY DEF vars, tree
  <1> QED
    BY <1>1, <1>2, <1>3, <1>4, <1>5 DEF Next, TreeStep

\* Where nothing is restored, a note past retention stays so until it is gone, and what
\* is gone stays gone.
LEMMA ExpiredStays ==
  ASSUME MaxRestores = 0, TypeOK, [Next]_vars, NEW n \in Notes,
         n \in expired \/ note[n] = "gone"
  PROVE  n \in expired' \/ note'[n] = "gone"
  <1>1. \A m \in Notes : ~Restore(m)
    BY DEF Restore, Revive, TypeOK, TreeOK
  <1>2. CASE UNCHANGED tree
    BY <1>2 DEF tree
  <1>3. ASSUME NEW m \in Notes, CascadeDelete(m) PROVE n \in expired' \/ note'[n] = "gone"
    BY <1>3 DEF CascadeDelete
  <1>4. ASSUME NEW m \in Notes, SoftDelete(m) PROVE n \in expired' \/ note'[n] = "gone"
    BY <1>4 DEF SoftDelete
  <1>5. ASSUME NEW m \in Notes, RetentionElapses(m) PROVE n \in expired' \/ note'[n] = "gone"
    BY <1>5 DEF RetentionElapses
  <1> QED
    BY <1>1, <1>2, <1>3, <1>4, <1>5, StepOfTree DEF TreeStep, NoteStep, PermanentDelete

\* What a pass means to purge is past retention, or was purged already.
CandidatesExpired ==
    \A s \in Sweepers : \A n \in Candidates(s) : n \in expired \/ note[n] = "gone"

LEMMA NextCandidatesExpired ==
  ASSUME MaxRestores = 0, TypeOK, CandidatesExpired, [Next]_vars
  PROVE  CandidatesExpired'
  <1> SUFFICES ASSUME NEW s \in Sweepers, NEW n \in Candidates(s)'
               PROVE  n \in expired' \/ note'[n] = "gone"
    BY DEF CandidatesExpired
  <1>1. n \in Candidates(s) \cup expired
    BY CandidatesFound
  <1>2. n \in Notes
    BY <1>1 DEF TypeOK, SweepOK, Sweep, Candidates, TreeOK
  <1> QED
    BY <1>1, <1>2, ExpiredStays DEF CandidatesExpired

----------------------------------------------------------------------------
(* Bytes of ready rows, where nothing is restored.                          *)

\* What an upload has written is its own, and all of it once it may turn ready.
UploadKeys ==
    \A a \in Attachments :
        /\ up[a].written \subseteq Objects(a)
        /\ up[a].pc \in {"idle", "mark"} => up[a].written = {}
        /\ up[a].pc = "put" => up[a].written # Objects(a)
        /\ up[a].pc = "commit" => up[a].written = Objects(a)

\* What is in the bucket was put there by an upload.
KeysOwned == \A k \in objects : k \in Objects(k[1])

\* What a deletion still has to remove has no row any more.
DeletedKeys == \A k \in removing : row[k[1]] = "gone"

\* Nor has what hung on a note that is gone.
GoneRows == \A a \in Attachments : note[NoteOf[a]] = "gone" => row[a] \in {"none", "gone"}

\* The upload is over and its row can no longer turn ready.
Unready(a) == up[a].pc = "ended" /\ row[a] # "ready"

\* The keys a pass is about to judge or to remove.
PassKeys(s) ==
    /\ sweep[s].pc \in {"deleteRows", "removeUploads", "removeOrphans"} =>
          \A k \in sweep[s].keys : Unready(k[1])
    /\ sweep[s].pc = "owners" =>
          \A k \in sweep[s].keys : up[k[1]].pc = "ended" /\ k \in Objects(k[1])
    /\ sweep[s].pc = "deleteNote" =>
          \A k \in sweep[s].keys : NoteOf[k[1]] \in Subtree[sweep[s].note]
    /\ sweep[s].pc = "removeNoteObjects" =>
          \A k \in sweep[s].keys : note[NoteOf[k[1]]] = "gone"

PassesKeys == \A s \in Sweepers : PassKeys(s)

\* The bytes of a ready row, and those of an upload that may still turn ready, are there.
Stored(a) ==
    /\ row[a] = "ready" => Objects(a) \ lost \subseteq objects
    /\ up[a].pc \in {"put", "commit"} /\ row[a] # "gone" => up[a].written \ lost \subseteq objects

BytesInv ==
    /\ LossInv /\ TreeInv /\ CandidatesExpired /\ UploadRows
    /\ UploadKeys /\ KeysOwned /\ DeletedKeys /\ GoneRows /\ PassesKeys
    /\ \A a \in Attachments : Stored(a)

\* A key belongs to the attachment it names.
LEMMA KeysNameOwners ==
  ASSUME NEW a \in Attachments
  PROVE  /\ \A k \in Objects(a) \cup attachmentObjectKeys(a) \cup variantKeys(a) : k[1] = a
         /\ variantKeys(a) \subseteq Objects(a)
         /\ row[a] = "ready" => attachmentObjectKeys(a) = Objects(a)
  BY DEF Objects, variantKeys, attachmentObjectKeys, Original, Present

\* The next key of an unfinished upload is its own.
LEMMA NextKeyOwned ==
  ASSUME UploadKeys, NEW a \in Attachments, up[a].pc = "put"
  PROVE  NextKey(a) \in Objects(a)
  BY DEF UploadKeys, NextKey, Objects

\* UploadKeys is inductive.
LEMMA NextUploadKeys ==
  ASSUME TypeOK, UploadKeys, [Next]_vars
  PROVE  UploadKeys'
  <1>0. up \in [Attachments -> Up]
    BY DEF TypeOK, UploadsOK
  <1> SUFFICES ASSUME NEW a \in Attachments
               PROVE  /\ up'[a].written \subseteq Objects(a)
                      /\ up'[a].pc \in {"idle", "mark"} => up'[a].written = {}
                      /\ up'[a].pc = "put" => up'[a].written # Objects(a)
                      /\ up'[a].pc = "commit" => up'[a].written = Objects(a)
    BY DEF UploadKeys, Objects
  <1>1. CASE ~UploadStep(a)
    BY <1>1, StepFades DEF UploadKeys
  <1>2. ASSUME NEW pc, UpGoto(a, pc) PROVE up'[a].pc = pc /\ up'[a].written = up[a].written
    BY <1>0, <1>2 DEF UpGoto, Up
  <1>3. CASE Reserve(a)
    BY <1>2, <1>3 DEF Reserve, UploadKeys
  <1>4. CASE MarkProcessing(a)
    BY <1>2, <1>4 DEF MarkProcessing, UploadKeys, Objects
  <1>5. CASE PutObject(a)
    BY <1>0, <1>5, NextKeyOwned DEF PutObject, UploadKeys
  <1>6. CASE CommitReady(a) \/ UploadFails(a) \/ Compensate(a) \/ Cleanup(a) \/ UploadDies(a)
    BY <1>2, <1>6 DEF CommitReady, UploadFails, Compensate, Cleanup, UploadDies, UploadKeys
  <1> QED
    BY <1>1, <1>3, <1>4, <1>5, <1>6 DEF UploadStep

\* Only an upload adds to the bucket, and it adds its next key.
LEMMA BucketGrows ==
  ASSUME TypeOK, [Next]_vars, NEW k \in objects', k \notin objects
  PROVE  \E a \in Attachments : up[a].pc = "put" /\ k = NextKey(a)
  <1>1. \A keys : removeObjects(keys) => objects' \subseteq objects
    BY DEF removeObjects
  <1> QED
    BY <1>1 DEF Next, vars, UploadStep, Reserve, MarkProcessing, PutObject, CommitReady,
          UploadFails, Compensate, Cleanup, UploadDies, DeleteStep, DeleteAttachment,
          RemoveDeleted, DeleteDies, GrowOld, NoteStep, SoftDelete, Restore,
          PermanentDelete, RetentionElapses, ObjectLost, ObjectSweep, SweepFindAbandoned,
          SweepDeleteRows, SweepRemoveUploads, SweepList, SweepOwners, SweepRemoveOrphans,
          SweepFindReady, SweepStat, SweepMark, NoteSweep, SweepFindNotes, SweepCheckNote,
          SweepReadKeys, SweepDeleteNote, SweepRemoveNoteObjects, SweepDies

LEMMA NextKeysOwned ==
  ASSUME TypeOK, UploadKeys, KeysOwned, [Next]_vars
  PROVE  KeysOwned'
  <1> SUFFICES ASSUME NEW k \in objects' PROVE k \in Objects(k[1])
    BY DEF KeysOwned, Objects, Original
  <1> QED
    BY BucketGrows, NextKeyOwned, KeysNameOwners DEF KeysOwned

\* A row that is gone stays gone, and an upload that is over and not ready stays so.
LEMMA EndedStays ==
  ASSUME TypeOK, UploadRows, [Next]_vars, NEW a \in Attachments
  PROVE  /\ row[a] = "gone" => row'[a] = "gone"
         /\ up[a].pc = "ended" => up'[a].pc = "ended"
         /\ Unready(a) => Unready(a)'
  <1>1. CASE UploadStep(a)
    BY <1>1, UploadStepMoves DEF UploadMoves, UploadRows, UploadRow, Present, Unready
  <1>2. CASE ~UploadStep(a)
    BY <1>2, StepFades DEF Fades, Present, Unready
  <1> QED
    BY <1>1, <1>2

LEMMA NextDeletedKeys ==
  ASSUME TypeOK, UploadRows, DeletedKeys, [Next]_vars
  PROVE  DeletedKeys'
  <1>0. removing \subseteq Keys /\ row \in [Attachments -> RowStatus]
    BY DEF TypeOK, StoreOK, RowsOK
  <1>1. \A k \in removing : row'[k[1]] = "gone"
    BY <1>0, EndedStays DEF DeletedKeys, Keys
  <1>2. ASSUME NEW a \in Attachments, DeleteAttachment(a)
        PROVE  DeletedKeys'
    BY <1>0, <1>1, <1>2, KeysNameOwners DEF DeleteAttachment, DeletedKeys
  <1>3. CASE ~\E a \in Attachments : DeleteAttachment(a)
    <2>1. removing' \subseteq removing
      BY <1>3 DEF Next, vars, UploadStep, Reserve, MarkProcessing, PutObject, CommitReady,
          UploadFails, Compensate, Cleanup, UploadDies, DeleteStep, DeleteAttachment,
          RemoveDeleted, DeleteDies, GrowOld, NoteStep, SoftDelete, Restore,
          PermanentDelete, RetentionElapses, ObjectLost, ObjectSweep, SweepFindAbandoned,
          SweepDeleteRows, SweepRemoveUploads, SweepList, SweepOwners, SweepRemoveOrphans,
          SweepFindReady, SweepStat, SweepMark, NoteSweep, SweepFindNotes, SweepCheckNote,
          SweepReadKeys, SweepDeleteNote, SweepRemoveNoteObjects, SweepDies
    <2> QED
      BY <1>1, <2>1 DEF DeletedKeys
  <1> QED
    BY <1>2, <1>3

\* The rows of a note go with it, and none is reserved on a note that is gone.
LEMMA NextGoneRows ==
  ASSUME TypeOK, UploadRows, GoneRows, [Next]_vars
  PROVE  GoneRows'
  <1> SUFFICES ASSUME NEW a \in Attachments, note'[NoteOf[a]] = "gone"
               PROVE  row'[a] \in {"none", "gone"}
    BY DEF GoneRows
  <1>0. /\ row \in [Attachments -> RowStatus] /\ NoteOf[a] \in Notes /\ TreeOK
        /\ \A n \in Notes : Subtree[n] \subseteq Notes
    BY ConstantsAssumption DEF TypeOK, RowsOK
  <1>1. CASE note[NoteOf[a]] = "gone"
    <2>1. CASE UploadStep(a)
      <3>1. ~Reserve(a)
        BY <1>1 DEF Reserve
      <3>2. up[a].pc # "idle"
        BY <2>1, <3>1 DEF UploadStep, MarkProcessing, PutObject, CommitReady, UploadFails,
              Compensate, Cleanup, UploadDies
      <3> QED
        BY <1>1, <2>1, <3>2, UploadStepMoves DEF UploadMoves, GoneRows, Present
    <2>2. CASE ~UploadStep(a)
      BY <1>1, <2>2, StepFades DEF Fades, GoneRows
    <2> QED
      BY <2>1, <2>2
  <1>2. ASSUME NEW n \in Notes, CascadeDelete(n), note[NoteOf[a]] # "gone"
        PROVE  row'[a] \in {"none", "gone"}
    BY <1>0, <1>2 DEF CascadeDelete, Present
  <1>3. ASSUME NEW n \in Notes, PermanentDelete(n), note[NoteOf[a]] # "gone"
        PROVE  row'[a] \in {"none", "gone"}
    BY <1>2, <1>3 DEF PermanentDelete
  <1>4. ASSUME NEW s \in Sweepers, SweepDeleteNote(s), note[NoteOf[a]] # "gone"
        PROVE  row'[a] \in {"none", "gone"}
    <2>1. sweep[s].note \in Notes
      BY <1>4 DEF SweepDeleteNote, TypeOK, SweepOK, Sweep, PurgePC
    <2> QED
      BY <1>2, <1>4, <2>1 DEF SweepDeleteNote
  <1>5. ASSUME NEW n \in Notes, SoftDelete(n) \/ Restore(n) \/ RetentionElapses(n)
        PROVE  note[NoteOf[a]] = "gone"
    BY <1>0, <1>5 DEF SoftDelete, Restore, Revive, RetentionElapses
  <1>6. ASSUME NEW b \in Attachments, UploadStep(b) \/ DeleteStep(b) \/ GrowOld(b)
        PROVE  note' = note
    BY <1>6 DEF UploadStep, Reserve, MarkProcessing, PutObject, CommitReady, UploadFails,
          Compensate, Cleanup, UploadDies, DeleteStep, DeleteAttachment, RemoveDeleted,
          DeleteDies, GrowOld, tree
  <1>7. ASSUME NEW s \in Sweepers, ObjectSweep(s) \/ NoteSweep(s) \/ SweepDies(s),
               ~SweepDeleteNote(s)
        PROVE  note' = note
    BY <1>7 DEF ObjectSweep, NoteSweep, SweepFindAbandoned, SweepDeleteRows,
          SweepRemoveUploads, SweepList, SweepOwners, SweepRemoveOrphans,
          SweepFindReady, SweepStat, SweepMark, SweepFindNotes, SweepCheckNote,
          SweepReadKeys, SweepRemoveNoteObjects, SweepDies, tree
  <1>8. ASSUME NEW k \in Keys, ObjectLost(k) PROVE note' = note
    BY <1>8 DEF ObjectLost, tree
  <1>9. UNCHANGED vars => note' = note
    BY DEF vars
  <1> QED
    BY <1>1, <1>3, <1>4, <1>5, <1>6, <1>7, <1>8, <1>9 DEF Next, NoteStep

\* A note that is gone stays gone.
LEMMA GoneStays ==
  ASSUME TypeOK, [Next]_vars, NEW n \in Notes, note[n] = "gone"
  PROVE  note'[n] = "gone"
  <1>1. CASE UNCHANGED tree
    BY <1>1 DEF tree
  <1>2. ASSUME NEW m \in Notes, CascadeDelete(m) PROVE note'[n] = "gone"
    BY <1>2 DEF CascadeDelete
  <1>3. ASSUME NEW m \in Notes, SoftDelete(m) PROVE note'[n] = "gone"
    BY <1>3 DEF SoftDelete
  <1>4. ASSUME NEW m \in Notes, Restore(m) PROVE note'[n] = "gone"
    BY <1>4 DEF Restore, Revive, RestoredBy
  <1>5. ASSUME NEW m \in Notes, RetentionElapses(m) PROVE note'[n] = "gone"
    BY <1>5 DEF RetentionElapses
  <1> QED
    BY <1>1, <1>2, <1>3, <1>4, <1>5, StepOfTree DEF TreeStep, NoteStep, PermanentDelete

\* After a pass's DELETE, the note it purges is gone, and all that was below it: where
\* nothing is restored, the statement never finds the note back in use.
LEMMA PurgeTakesNote ==
  ASSUME TypeOK, TreeInv, CandidatesExpired, NEW s \in Sweepers, SweepDeleteNote(s)
  PROVE  \A n \in Subtree[sweep[s].note] : note'[n] = "gone"
  <1>1. sweep[s].note \in Notes /\ sweep[s].note \in Candidates(s)
    BY ConstantsAssumption DEF SweepDeleteNote, TypeOK, SweepOK, Sweep, PurgePC, Candidates
  <1>2. Subtree[sweep[s].note] \subseteq Notes
    BY <1>1, ConstantsAssumption
  <1>3. CASE note[sweep[s].note] = "trashed"
    BY <1>2, <1>3 DEF SweepDeleteNote, CascadeDelete
  <1>4. CASE note[sweep[s].note] = "gone"
    BY <1>1, <1>2, <1>4 DEF SweepDeleteNote, TreeInv, GoneBelow
  <1> QED
    BY <1>1, <1>3, <1>4 DEF CandidatesExpired, TypeOK, TreeOK

\* What a pass judges or removes stays nobody's while it waits.
LEMMA PassKeysStay ==
  ASSUME TypeOK, UploadRows, [Next]_vars, NEW s \in Sweepers, PassKeys(s),
         sweep'[s] = sweep[s]
  PROVE  PassKeys(s)'
  <1>1. \A k \in sweep[s].keys : k[1] \in Attachments /\ NoteOf[k[1]] \in Notes
    BY ConstantsAssumption DEF TypeOK, SweepOK, Sweep, Keys
  <1>2. \A k \in sweep[s].keys : Unready(k[1]) => Unready(k[1])'
    BY <1>1, EndedStays
  <1>3. \A k \in sweep[s].keys : up[k[1]].pc = "ended" => up'[k[1]].pc = "ended"
    BY <1>1, EndedStays
  <1>4. \A k \in sweep[s].keys : note[NoteOf[k[1]]] = "gone" => note'[NoteOf[k[1]]] = "gone"
    BY <1>1, GoneStays
  <1> QED
    BY <1>2, <1>3, <1>4 DEF PassKeys, Objects, Original

\* What a pass takes up was looked at for what it is about to do with it: its uploads are
\* over and their rows cannot turn ready, or their note goes first.
LEMMA PassTakesUp ==
  ASSUME TypeOK, BytesInv, NEW s \in Sweepers, PassKeys(s),
         ObjectSweep(s) \/ NoteSweep(s) \/ SweepDies(s)
  PROVE  PassKeys(s)'
  <1>0. /\ sweep \in [Sweepers -> Sweep] /\ sweep[s] \in Sweep
        /\ objects \subseteq Keys /\ TypeOK
    BY DEF TypeOK, SweepOK, StoreOK
  <1>1. \A k \in Keys : k[1] \in Attachments
    BY DEF Keys
  <1>2. ASSUME NEW pc, NEW rows, NEW keys, NEW notes, SweepSet(s, At(pc, rows, keys, notes))
        PROVE  sweep'[s].pc = pc /\ sweep'[s].keys = keys
    BY <1>0, <1>2 DEF SweepSet, At
  <1>3. ASSUME sweep'[s].pc \notin {"deleteRows", "removeUploads", "removeOrphans", "owners",
                                    "deleteNote", "removeNoteObjects"}
        PROVE  PassKeys(s)'
    BY <1>3 DEF PassKeys
  <1>4. ASSUME sweep'[s].keys = {} PROVE PassKeys(s)'
    BY <1>4 DEF PassKeys
  <1>5. CASE SweepFindAbandoned(s)
    <2> DEFINE found == {a \in Attachments : decideAbandonedUpload(a)}
               keys == UNION {attachmentObjectKeys(a) : a \in found}
    <2>1. \A k \in keys : Unready(k[1])
      <3>1. \A a \in found : Unready(a)
        BY <1>0 DEF decideAbandonedUpload, Unready, BytesInv, LossInv, OldMeansOver, TypeOK,
              UploadsOK
      <3> QED
        BY <3>1, KeysNameOwners
    <2>2. SweepSet(s, At(IF found = {} THEN "list" ELSE "deleteRows", found, keys, {}))
      BY <1>5 DEF SweepFindAbandoned
    <2>3. UNCHANGED <<row, up>>
      BY <1>5 DEF SweepFindAbandoned
    <2> HIDE DEF keys, found
    <2>4. /\ sweep'[s].pc \in {"list", "deleteRows"}
          /\ sweep'[s].keys = keys
      BY <1>2, <2>2
    <2> QED
      BY <2>1, <2>3, <2>4 DEF PassKeys, Unready
  <1>6. CASE SweepDeleteRows(s)
    <2>1. sweep'[s].pc = "removeUploads" /\ sweep'[s].keys = sweep[s].keys
      BY <1>0, <1>6 DEF SweepDeleteRows, SweepSet, Sweep
    <2>2. \A k \in sweep[s].keys : Unready(k[1])
      BY <1>6 DEF SweepDeleteRows, PassKeys
    <2>3. \A k \in sweep[s].keys : k[1] \in Attachments
      BY <1>0, <1>1 DEF Sweep
    <2>4. \A a \in Attachments : Unready(a) => Unready(a)'
      BY <1>6 DEF SweepDeleteRows, Unready
    <2> QED
      BY <2>1, <2>2, <2>3, <2>4 DEF PassKeys
  <1>7. CASE SweepList(s)
    <2> DEFINE keys == OldObjects
    <2>1. \A k \in keys : up[k[1]].pc = "ended" /\ k \in Objects(k[1])
      BY <1>0, <1>1 DEF OldObjects, BytesInv, LossInv, OldMeansOver, KeysOwned, TypeOK,
            UploadsOK
    <2>2. SweepSet(s, At(IF keys = {} THEN "findReady" ELSE "owners", {}, keys, {}))
      BY <1>7 DEF SweepList
    <2>3. up' = up
      BY <1>7 DEF SweepList
    <2> HIDE DEF keys
    <2>4. sweep'[s].pc \in {"findReady", "owners"} /\ sweep'[s].keys = keys
      BY <1>2, <2>2
    <2> QED
      BY <2>1, <2>3, <2>4 DEF PassKeys, Objects, Original
  <1>8. CASE SweepOwners(s)
    <2> DEFINE keys == {k \in sweep[s].keys : decideOrphanObject(k)}
    <2>1. \A k \in keys : Unready(k[1])
      <3>1. \A k \in sweep[s].keys : /\ k[1] \in Attachments
                                     /\ up[k[1]].pc = "ended" /\ k \in Objects(k[1])
        BY <1>0, <1>1, <1>8 DEF SweepOwners, PassKeys, Sweep
      <3> QED
        BY <3>1, KeysNameOwners DEF decideOrphanObject, Unready
    <2>2. SweepSet(s, At(IF keys = {} THEN "findReady" ELSE "removeOrphans", {}, keys, {}))
      BY <1>8 DEF SweepOwners
    <2>3. UNCHANGED <<row, up>>
      BY <1>8 DEF SweepOwners
    <2> HIDE DEF keys
    <2>4. sweep'[s].pc \in {"findReady", "removeOrphans"} /\ sweep'[s].keys = keys
      BY <1>2, <2>2
    <2> QED
      BY <2>1, <2>3, <2>4 DEF PassKeys, Unready
  <1>9. CASE \/ SweepRemoveUploads(s) \/ SweepRemoveOrphans(s) \/ SweepFindReady(s)
             \/ SweepStat(s) \/ SweepMark(s) \/ SweepDies(s)
    <2>1. ASSUME NEW pc, NEW rows, SweepSet(s, At(pc, rows, {}, {}))
          PROVE  PassKeys(s)'
      BY <1>2, <1>4, <2>1
    <2> QED
      BY <1>9, <2>1 DEF SweepRemoveUploads, SweepRemoveOrphans, SweepFindReady, SweepStat,
            SweepMark, SweepDies, SweepGoto, AtRest
  <1>10. ASSUME NEW left, NextNote(s, left) PROVE PassKeys(s)'
    BY <1>2, <1>4, <1>10 DEF NextNote, AtRest
  <1>11. CASE SweepFindNotes(s) \/ SweepRemoveNoteObjects(s)
    BY <1>10, <1>11 DEF SweepFindNotes, SweepRemoveNoteObjects
  <1>12. ASSUME NEW n \in Notes, SweepCheckNote(s, n) PROVE PassKeys(s)'
    <2>1. CASE NextNote(s, sweep[s].notes \ {n})
      BY <1>10, <2>1
    <2>2. CASE SweepSet(s, [sweep[s] EXCEPT !.pc = "noteKeys", !.note = n])
      <3>1. sweep'[s].pc = "noteKeys"
        BY <1>0, <2>2 DEF SweepSet, Sweep
      <3> QED
        BY <1>3, <3>1
    <2> QED
      BY <1>12, <2>1, <2>2 DEF SweepCheckNote
  <1>13. CASE SweepReadKeys(s)
    <2> DEFINE owned == {a \in Attachments : NoteOf[a] \in Below(sweep[s].note)}
               keys == UNION {attachmentObjectKeys(a) : a \in owned}
    <2>1. \A k \in keys : NoteOf[k[1]] \in Subtree[sweep[s].note]
      BY KeysNameOwners DEF Below
    <2>2. sweep' = [sweep EXCEPT ![s] = [sweep[s] EXCEPT !.pc = "deleteNote", !.keys = keys]]
      BY <1>13 DEF SweepReadKeys, SweepSet
    <2> HIDE DEF keys, owned
    <2>3. /\ sweep'[s].pc = "deleteNote" /\ sweep'[s].keys = keys
          /\ sweep'[s].note = sweep[s].note
      BY <1>0, <2>2 DEF Sweep
    <2> QED
      BY <2>1, <2>3 DEF PassKeys
  <1>14. CASE SweepDeleteNote(s)
    <2>1. sweep'[s].pc = "removeNoteObjects" /\ sweep'[s].keys = sweep[s].keys
      BY <1>0, <1>14 DEF SweepDeleteNote, SweepSet, Sweep
    <2>2. \A k \in sweep[s].keys : NoteOf[k[1]] \in Subtree[sweep[s].note]
      BY <1>14 DEF SweepDeleteNote, PassKeys
    <2>3. \A n \in Subtree[sweep[s].note] : note'[n] = "gone"
      BY <1>14, PurgeTakesNote DEF BytesInv
    <2> QED
      BY <2>1, <2>2, <2>3 DEF PassKeys
  <1> QED
    BY <1>5, <1>6, <1>7, <1>8, <1>9, <1>11, <1>12, <1>13, <1>14 DEF ObjectSweep, NoteSweep

LEMMA NextPassesKeys ==
  ASSUME TypeOK, BytesInv, [Next]_vars
  PROVE  PassesKeys'
  <1> SUFFICES ASSUME NEW s \in Sweepers PROVE PassKeys(s)'
    BY DEF PassesKeys
  <1>1. PassKeys(s) /\ UploadRows
    BY DEF BytesInv, PassesKeys
  <1> QED
    BY <1>1, PassKeysStay, PassTakesUp, PassSteps

\* Whatever leaves the bucket and was not lost by the store belonged to nobody: its row is
\* not ready, and no upload is about to make it so.
LEMMA OnlyUnownedBytesGo ==
  ASSUME TypeOK, BytesInv, [Next]_vars, NEW k \in objects, k \notin objects', k \notin lost'
  PROVE  /\ row'[k[1]] # "ready"
         /\ row'[k[1]] # "gone" => up'[k[1]].pc \notin {"put", "commit"}
  <1>0. /\ k \in Keys /\ k[1] \in Attachments /\ NoteOf[k[1]] \in Notes
        /\ up \in [Attachments -> Up]
    BY ConstantsAssumption DEF TypeOK, StoreOK, UploadsOK, Keys
  <1>1. ASSUME NEW keys, removeObjects(keys) PROVE k \in keys
    BY <1>1 DEF removeObjects
  <1>2. UploadRow(k[1])
    BY <1>0 DEF BytesInv, UploadRows
  <1>3. ASSUME NEW a \in Attachments, Cleanup(a)
        PROVE  /\ row'[k[1]] # "ready"
               /\ row'[k[1]] # "gone" => up'[k[1]].pc \notin {"put", "commit"}
    <2>1. k \in up[a].written /\ row' = row /\ up'[a].pc = "ended" /\ up[a].pc = "cleanup"
      BY <1>0, <1>1, <1>3 DEF Cleanup, UpGoto
    <2>2. k[1] = a
      BY <2>1, KeysNameOwners DEF BytesInv, UploadKeys
    <2> QED
      BY <1>2, <2>1, <2>2 DEF UploadRow
  <1>4. ASSUME NEW a \in Attachments, RemoveDeleted(a)
        PROVE  row'[k[1]] = "gone"
    <2>1. k \in Objects(a) /\ row' = row /\ removing \cap Objects(a) # {}
      BY <1>1, <1>4 DEF RemoveDeleted
    <2>2. k[1] = a
      BY <2>1, KeysNameOwners
    <2>3. row[a] = "gone"
      BY <2>1, KeysNameOwners DEF BytesInv, DeletedKeys
    <2> QED
      BY <2>1, <2>2, <2>3
  <1>5. ASSUME NEW s \in Sweepers, SweepRemoveUploads(s) \/ SweepRemoveOrphans(s)
        PROVE  row'[k[1]] # "ready" /\ up'[k[1]].pc = "ended"
    <2>1. k \in sweep[s].keys /\ UNCHANGED <<row, up>>
      BY <1>1, <1>5 DEF SweepRemoveUploads, SweepRemoveOrphans
    <2>2. Unready(k[1])
      BY <1>5, <2>1 DEF SweepRemoveUploads, SweepRemoveOrphans, BytesInv, PassesKeys, PassKeys
    <2> QED
      BY <2>1, <2>2 DEF Unready
  <1>6. ASSUME NEW s \in Sweepers, SweepRemoveNoteObjects(s)
        PROVE  /\ row'[k[1]] # "ready"
               /\ row'[k[1]] # "gone" => up'[k[1]].pc \notin {"put", "commit"}
    <2>1. k \in sweep[s].keys /\ UNCHANGED <<row, up>>
      BY <1>1, <1>6 DEF SweepRemoveNoteObjects
    <2>2. note[NoteOf[k[1]]] = "gone"
      BY <1>6, <2>1 DEF SweepRemoveNoteObjects, BytesInv, PassesKeys, PassKeys
    <2>3. row[k[1]] \in {"none", "gone"}
      BY <1>0, <2>2 DEF BytesInv, GoneRows
    <2> QED
      BY <1>2, <2>1, <2>3 DEF UploadRow
  <1>7. ASSUME NEW j \in Keys, ObjectLost(j) PROVE FALSE
    BY <1>7 DEF ObjectLost
  <1>8. CASE ~\/ \E a \in Attachments : Cleanup(a) \/ RemoveDeleted(a)
              \/ \E s \in Sweepers : \/ SweepRemoveUploads(s) \/ SweepRemoveOrphans(s)
                                     \/ SweepRemoveNoteObjects(s)
              \/ \E j \in Keys : ObjectLost(j)
    BY <1>8 DEF Next, vars, UploadStep, Reserve, MarkProcessing, PutObject, CommitReady,
          UploadFails, Compensate, UploadDies, DeleteStep, DeleteAttachment,
          DeleteDies, GrowOld, NoteStep, SoftDelete, Restore,
          PermanentDelete, RetentionElapses, ObjectSweep, SweepFindAbandoned,
          SweepDeleteRows, SweepList, SweepOwners,
          SweepFindReady, SweepStat, SweepMark, NoteSweep, SweepFindNotes, SweepCheckNote,
          SweepReadKeys, SweepDeleteNote, SweepDies
  <1> QED
    BY <1>3, <1>4, <1>5, <1>6, <1>7, <1>8

\* What the store lost stays on record.
LEMMA LossesStay == [Next]_vars => lost \subseteq lost'
  BY DEF Next, vars, UploadStep, Reserve, MarkProcessing, PutObject, CommitReady,
        UploadFails, Compensate, Cleanup, UploadDies, DeleteStep, DeleteAttachment,
        RemoveDeleted, DeleteDies, GrowOld, NoteStep, SoftDelete, Restore,
        PermanentDelete, RetentionElapses, ObjectLost, ObjectSweep, SweepFindAbandoned,
        SweepDeleteRows, SweepRemoveUploads, SweepList, SweepOwners, SweepRemoveOrphans,
        SweepFindReady, SweepStat, SweepMark, NoteSweep, SweepFindNotes, SweepCheckNote,
        SweepReadKeys, SweepDeleteNote, SweepRemoveNoteObjects, SweepDies, records

\* What an upload had put, or a ready row owned, is there after the step.
LEMMA NextStored ==
  ASSUME TypeOK, BytesInv, [Next]_vars, NEW a \in Attachments
  PROVE  Stored(a)'
  <1>0. /\ up \in [Attachments -> Up] /\ row \in [Attachments -> RowStatus]
        /\ Stored(a) /\ UploadRow(a) /\ UploadKeys /\ up[a].written \subseteq Objects(a)
    BY DEF TypeOK, UploadsOK, RowsOK, BytesInv, UploadRows, UploadKeys
  <1>1. ASSUME NEW k \in Objects(a), k \in objects,
               row'[a] = "ready" \/ (up'[a].pc \in {"put", "commit"} /\ row'[a] # "gone")
        PROVE  k \in objects' \cup lost'
    BY <1>1, OnlyUnownedBytesGo, KeysNameOwners
  <1>2. lost \subseteq lost'
    BY LossesStay
  <1>3. CASE ~UploadStep(a)
    <2>1. up'[a] = up[a] /\ Fades(a)
      BY <1>3, StepFades
    <2>2. ASSUME row'[a] = "ready" PROVE Objects(a) \ lost' \subseteq objects'
      BY <1>0, <1>1, <1>2, <2>1, <2>2 DEF Fades, Stored
    <2>3. ASSUME up'[a].pc \in {"put", "commit"}, row'[a] # "gone"
          PROVE  up'[a].written \ lost' \subseteq objects'
      BY <1>0, <1>1, <1>2, <2>1, <2>3 DEF Fades, Stored
    <2> QED
      BY <2>2, <2>3 DEF Stored, Objects, Original
  <1>4. ASSUME NEW pc, UpGoto(a, pc) PROVE up'[a].pc = pc /\ up'[a].written = up[a].written
    BY <1>0, <1>4 DEF UpGoto, Up
  <1>5. CASE PutObject(a)
    <2>1. /\ row' = row /\ objects' = objects \cup {NextKey(a)} /\ lost' = lost
          /\ up'[a].written = up[a].written \cup {NextKey(a)}
          /\ up[a].pc = "put"
      BY <1>0, <1>5 DEF PutObject, records
    <2>2. row[a] # "ready"
      BY <1>0, <2>1 DEF UploadRow
    <2> QED
      BY <1>0, <2>1, <2>2 DEF Stored
  <1>6. CASE CommitReady(a)
    <2>1. up[a].pc = "commit" /\ up[a].written = Objects(a) /\ up'[a].pc = "ended"
      BY <1>0, <1>4, <1>6 DEF CommitReady, UploadKeys
    <2>2. objects' = objects /\ lost' = lost
      BY <1>6 DEF CommitReady
    <2>3. row[a] = "gone" => row'[a] = "gone"
      BY <1>0, <1>6 DEF CommitReady, setStatus, Present
    <2>4. row'[a] = "ready" => Objects(a) \ lost' \subseteq objects'
      BY <1>0, <2>1, <2>2, <2>3 DEF Stored
    <2> QED
      BY <2>1, <2>4 DEF Stored, Objects, Original
  <1>7. CASE Reserve(a)
    <2>1. row'[a] = "pending" /\ up'[a].pc = "mark"
      BY <1>0, <1>4, <1>7 DEF Reserve
    <2> QED
      BY <2>1 DEF Stored
  <1>8. CASE MarkProcessing(a)
    <2>1. up'[a].written = {} /\ row'[a] # "ready"
      BY <1>0, <1>4, <1>8 DEF MarkProcessing, UploadKeys, UploadRow, setStatus
    <2> QED
      BY <2>1 DEF Stored
  <1>9. CASE UploadFails(a) \/ Compensate(a) \/ Cleanup(a)
    <2>1. up'[a].pc \in {"compensate", "cleanup", "ended"} /\ row'[a] # "ready"
      BY <1>0, <1>4, <1>9 DEF UploadFails, Compensate, Cleanup, UploadRow, setStatus
    <2> QED
      BY <2>1 DEF Stored
  <1>10. CASE UploadDies(a)
    <2>1. up'[a].pc = "ended" /\ row'[a] # "ready"
      BY <1>0, <1>4, <1>10 DEF UploadDies, UploadRow, UpPC, Up
    <2> QED
      BY <2>1 DEF Stored
  <1> QED
    BY <1>3, <1>5, <1>6, <1>7, <1>8, <1>9, <1>10 DEF UploadStep

\* Where nothing is restored, every object of a ready row is in the bucket unless the store
\* itself lost it, for any number of concurrent uploads, deletions and passes: neither a
\* sweep that judged keys steps before, nor a late cleanup, nor an interrupted deletion
\* takes the bytes of a row that stays ready (sweepOrphanObjects, sweepDeletedNotes).
THEOREM ReadyRowsKeepBytes ==
  ASSUME MaxRestores = 0
  PROVE  Spec => []ReadyHasBytes
  <1>1. Init => TypeOK /\ BytesInv
    <2>1. Init => CandidatesExpired /\ UploadKeys /\ KeysOwned /\ DeletedKeys
      BY DEF Init, CandidatesExpired, Candidates, At, AtRest, UploadKeys, KeysOwned,
            DeletedKeys
    <2>2. Init => GoneRows /\ PassesKeys /\ \A a \in Attachments : Stored(a)
      BY DEF Init, GoneRows, PassesKeys, PassKeys, Stored, At, AtRest
    <2> QED
      BY <2>1, <2>2, InitType, InitTree, InitLoss, InitUploadRows DEF BytesInv
  <1>2. TypeOK /\ BytesInv /\ [Next]_vars => (TypeOK /\ BytesInv)'
    <2> SUFFICES ASSUME TypeOK, BytesInv, [Next]_vars PROVE (TypeOK /\ BytesInv)'
      OBVIOUS
    <2>1. TypeOK' /\ TreeInv' /\ LossInv' /\ CandidatesExpired'
      BY StorageNextType, NextTree, NextLoss, NextCandidatesExpired DEF BytesInv
    <2>2. UploadRows' /\ UploadKeys' /\ KeysOwned' /\ DeletedKeys' /\ GoneRows'
      BY NextUploadRows, NextUploadKeys, NextKeysOwned, NextDeletedKeys, NextGoneRows
         DEF BytesInv
    <2>3. PassesKeys' /\ \A a \in Attachments : Stored(a)'
      BY NextPassesKeys, NextStored
    <2> QED
      BY <2>1, <2>2, <2>3 DEF BytesInv
  <1>3. BytesInv => ReadyHasBytes
    BY DEF BytesInv, Stored, ReadyHasBytes
  <1> QED
    BY <1>1, <1>2, <1>3, PTL DEF Spec
=============================================================================
