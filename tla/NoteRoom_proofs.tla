--------------------------- MODULE NoteRoom_proofs ---------------------------
(***************************************************************************)
(* Proofs about NoteRoom for any number of processes, edits and writers,   *)
(* any compaction threshold, and any number of failures.                   *)
(***************************************************************************)
EXTENDS NoteRoom, TLAPS

----------------------------------------------------------------------------
(* Types.                                                                   *)

\* A longer past: every earlier version is what it was.
LEMMA AppendPast ==
  ASSUME NEW S, NEW p \in Seq(S), p # <<>>, NEW d \in S
  PROVE  /\ Append(p, d) \in Seq(S)
         /\ Append(p, d) # <<>>
         /\ Len(p) \in Nat /\ Len(p) \in DOMAIN p
         /\ Len(Append(p, d)) = Len(p) + 1
         /\ DOMAIN Append(p, d) = DOMAIN p \cup {Len(p) + 1}
         /\ Len(p) + 1 \notin DOMAIN p
         /\ \A v \in DOMAIN p : Append(p, d)[v] = p[v]
         /\ Append(p, d)[Len(p) + 1] = d
  <1>1. Len(p) \in Nat /\ Len(p) # 0 /\ DOMAIN p = 1..Len(p)
    OBVIOUS
  <1> QED
    BY <1>1

\* The note holds a document at every version it had.
LEMMA PastTypes ==
  ASSUME TypeOK
  PROVE  /\ version \in Nat /\ version \in DOMAIN past /\ DOMAIN past = 1..version
         /\ content \in Documents
         /\ \A v \in DOMAIN past : v \in Nat /\ v <= version /\ past[v] \in Documents
  <1>1. Len(past) \in Nat /\ Len(past) # 0 /\ DOMAIN past = 1..Len(past)
    BY DEF TypeOK
  <1> QED
    BY <1>1 DEF TypeOK, version, content

\* Rows add up to a document.
LEMMA DocumentType ==
  ASSUME NEW rows \in SUBSET Row
  PROVE  Document(rows) \in Documents /\ UpdateRevisions(rows) \in SUBSET Nat
  BY DEF Document, UpdateRevisions, Row, Documents

LEMMA DocumentUnion ==
  ASSUME NEW rows, NEW more
  PROVE  Document(rows \cup more) = Document(more) \cup Document(rows)
  BY DEF Document

\* The states a run moves between are typed.
LEMMA RunTypes ==
  ASSUME NEW job \in Jobs, NEW v \in View
  PROVE  /\ Begin(job) \in Run
         /\ Rest \in Run
         /\ Skipped(job) \in Run
         /\ Loaded(job, v) \in Run
         /\ \A n \in Nat : [Begin(job) EXCEPT !.tries = n] \in Run
  <1>1. NoView \in View
    BY DEF NoView, View, Documents
  <1>2. \A k \in Jobs : Begin(k) \in Run
    BY <1>1 DEF Begin, Run, RunPC
  <1>3. "none" \in Jobs /\ "settle" \in Jobs
    BY DEF Jobs
  <1>4. Rest \in Run
    BY <1>1, <1>3 DEF Rest, Begin, Run, RunPC
  <1>5. Skipped(job) \in Run
    BY <1>2, <1>3, <1>4 DEF Skipped
  <1>6. [Begin(job) EXCEPT !.pc = "settleNote", !.view = v] \in Run
    BY <1>1 DEF Begin, Run, RunPC
  <1>7. [Begin(job) EXCEPT !.pc = "write", !.view = v] \in Run
    BY <1>1 DEF Begin, Run, RunPC
  <1>8. Loaded(job, v) \in Run
    BY <1>4, <1>5, <1>6, <1>7 DEF Loaded
  <1>9. \A n \in Nat : [Begin(job) EXCEPT !.tries = n] \in Run
    BY <1>1 DEF Begin, Run, RunPC
  <1> QED
    BY <1>2, <1>4, <1>5, <1>8, <1>9

LEMMA InitType == Init => TypeOK
  <1> SUFFICES ASSUME Init PROVE TypeOK
    OBVIOUS
  <1>1. {} \in Documents /\ 0 \in 0..MaxInputs
    BY RoomAssumption DEF Documents
  <1>2. past \in Seq(Documents) /\ past # <<>> /\ DOMAIN past = {1}
    BY <1>1 DEF Init
  <1>3. "none" \in Jobs /\ NoView \in View
    BY DEF Jobs, NoView, View, Documents
  <1>4. Rest \in Run
    BY <1>3, RunTypes
  <1> QED
    BY <1>1, <1>2, <1>4 DEF Init, TypeOK, State

\* Recording a checkpoint of a version that exists keeps the history typed.
LEMMA RecordType ==
  ASSUME TypeOK, DOMAIN past \subseteq DOMAIN past',
         NEW v \in DOMAIN past', NEW d \in Documents, Record(v, d)
  PROVE  /\ DOMAIN history' = DOMAIN history \cup {v}
         /\ DOMAIN history' \subseteq DOMAIN past'
         /\ \A u \in DOMAIN history' : history'[u] \in Documents
         /\ history'[v] = d
         /\ \A u \in DOMAIN history \ {v} : history'[u] = history[u]
  BY DEF TypeOK, Record

\* A new version of the note keeps the past typed.
LEMMA AppendType ==
  ASSUME TypeOK, NEW d \in Documents, past' = Append(past, d)
  PROVE  /\ past' \in Seq(Documents) /\ past' # <<>>
         /\ DOMAIN past' = DOMAIN past \cup {version + 1}
         /\ version + 1 \notin DOMAIN past
         /\ version' = version + 1
         /\ content' = d
         /\ past'[version + 1] = d
         /\ \A v \in DOMAIN past : past'[v] = past[v]
  BY AppendPast DEF TypeOK, version, content

\* An input keeps its counter in bounds.
LEMMA InputType ==
  ASSUME TypeOK, Input
  PROVE  inputs' \in 0..MaxInputs
  BY RoomAssumption DEF TypeOK, Input

\* A step that only sets a run keeps the types.
LEMMA SetType ==
  ASSUME TypeOK, NEW i \in Instances, NEW r \in Run, Set(i, r), Quiet
  PROVE  TypeOK'
  BY DEF TypeOK, Set, Quiet, room

\* A new generation is typed.
LEMMA ResetEpochType ==
  ASSUME NEW epoch \in Nat, NEW revision \in Nat, NEW v \in Nat, NEW d \in Documents,
         resetEpoch(epoch, revision, v, d)
  PROVE  state' \in State /\ log' \subseteq Row /\ Document(log') = d
  BY DEF resetEpoch, State, Row, Snapshot, Document

\* What a run has read is typed, and so is what it reads next.
LEMMA ViewTypes ==
  ASSUME TypeOK, NEW i \in Instances
  PROVE  /\ run[i] \in Run /\ run[i].view \in View /\ run[i].job \in Jobs
         /\ run[i].view.version \in Nat /\ run[i].view.epoch \in Nat
         /\ run[i].view.last \in Nat /\ run[i].view.doc \in Documents
         /\ run[i].tries \in Nat
         /\ state.epoch \in Nat /\ state.last \in Nat
         /\ state.projected \in Nat /\ state.version \in Nat
  BY DEF TypeOK, Run, View, State

LEMMA ReadingTypes ==
  ASSUME TypeOK, NEW i \in Instances
  PROVE  /\ [run[i] EXCEPT !.pc = "state", !.view.version = version] \in Run
         /\ [run[i] EXCEPT !.pc = "rebuildState", !.view.version = version] \in Run
         /\ [run[i] EXCEPT !.pc = "reset", !.view.epoch = state.epoch,
                           !.view.last = state.last] \in Run
         /\ [run[i] EXCEPT !.pc = "settle"] \in Run
         /\ MustRebuild(run[i]) \in Run
         /\ [MustRebuild(run[i]) EXCEPT !.lost = TRUE] \in Run
         /\ Usable(run[i]) \in Run
  <1> USE ViewTypes, PastTypes
  <1> DEFINE r == run[i]
             v == run[i].view
  <1>1. \A n \in Nat : [v EXCEPT !.version = n] \in View
    BY DEF View
  <1>2. [v EXCEPT !.epoch = state.epoch, !.last = state.last] \in View
    BY DEF View
  <1>3. [v EXCEPT !.epoch = state.epoch, !.last = state.last,
                  !.owed = state.projected < state.last] \in View
    <2>1. \A b \in BOOLEAN :
            [v EXCEPT !.epoch = state.epoch, !.last = state.last, !.owed = b] \in View
      BY DEF View
    <2>2. (state.projected < state.last) \in BOOLEAN
      <3>1. CASE state.projected < state.last
        BY <3>1
      <3>2. CASE ~(state.projected < state.last)
        BY <3>2
      <3> QED
        BY <3>1, <3>2
    <2> QED
      BY <2>1, <2>2, Zenon
  <1>4. NoView \in View
    BY DEF NoView, View, Documents
  <1>5. \A pc \in RunPC, w \in View : [r EXCEPT !.pc = pc, !.view = w] \in Run
    BY DEF Run
  <1>6. [r EXCEPT !.pc = "state", !.view.version = version] \in Run
    <2>1. [r EXCEPT !.pc = "state", !.view.version = version]
            = [r EXCEPT !.pc = "state", !.view = [v EXCEPT !.version = version]]
      BY DEF Run, View
    <2> QED
      BY <1>1, <1>5, <2>1 DEF RunPC
  <1>7. [r EXCEPT !.pc = "rebuildState", !.view.version = version] \in Run
    <2>1. [r EXCEPT !.pc = "rebuildState", !.view.version = version]
            = [r EXCEPT !.pc = "rebuildState", !.view = [v EXCEPT !.version = version]]
      BY DEF Run, View
    <2> QED
      BY <1>1, <1>5, <2>1 DEF RunPC
  <1>8. [r EXCEPT !.pc = "reset", !.view.epoch = state.epoch,
                  !.view.last = state.last] \in Run
    <2>1. [r EXCEPT !.pc = "reset", !.view.epoch = state.epoch, !.view.last = state.last]
            = [r EXCEPT !.pc = "reset",
                        !.view = [v EXCEPT !.epoch = state.epoch, !.last = state.last]]
      BY DEF Run, View
    <2> QED
      BY <1>2, <1>5, <2>1 DEF RunPC
  <1>9. [r EXCEPT !.pc = "settle"] \in Run
    BY DEF Run, RunPC
  <1>10. MustRebuild(r) \in Run
    BY <1>4, <1>5 DEF MustRebuild, RunPC
  <1>11. [MustRebuild(r) EXCEPT !.lost = TRUE] \in Run
    BY <1>10 DEF Run
  <1>12. Usable(r) \in Run
    <2>1. [r EXCEPT !.pc = "records", !.view.epoch = state.epoch, !.view.last = state.last,
                    !.view.owed = state.projected < state.last]
            = [r EXCEPT !.pc = "records",
                        !.view = [v EXCEPT !.epoch = state.epoch, !.last = state.last,
                                           !.owed = state.projected < state.last]]
      BY DEF Run, View
    <2>2. "records" \in RunPC
      BY DEF RunPC
    <2>3. Rest \in Run
      BY RunTypes
    <2> QED
      BY <1>3, <1>5, <2>1, <2>2, <2>3 DEF Usable
  <1> QED
    BY <1>6, <1>7, <1>8, <1>9, <1>10, <1>11, <1>12

\* The view of a rebuilt room is typed.
LEMMA FreshType ==
  ASSUME TypeOK, NEW epoch \in Nat, NEW revision \in Nat, NEW v \in DOMAIN past
  PROVE  Fresh(epoch, revision, v) \in View
  BY PastTypes DEF Fresh, View

----------------------------------------------------------------------------
(* Steps keep the types.                                                    *)

\* A run at one of these has read a version of the note, and versions never vanish.
ReadsNote == {"state", "records", "rebuildState", "reset", "write", "settleNote", "settle"}
VersionOK(r) == r.pc \in ReadsNote => r.view.version \in DOMAIN past
VersionsExist == \A i \in Instances : VersionOK(run[i])

\* A checkpoint and a rebuild index the past, so TypeOK is inductive only with this.
TypeInv == TypeOK /\ VersionsExist

\* Where the states that runs move to are, and what they keep of the view.
LEMMA RunShapes ==
  ASSUME NEW job \in Jobs, NEW v \in View
  PROVE  /\ Begin(job).pc = "note"
         /\ Rest.pc = "idle"
         /\ Skipped(job).pc \in {"note", "idle"}
         /\ Loaded(job, v).pc \in {"note", "idle", "write", "settleNote"}
         /\ Loaded(job, v).pc \in {"write", "settleNote"} => Loaded(job, v).view = v
         /\ \A n \in Nat : [Begin(job) EXCEPT !.tries = n].pc = "note"
  <1>1. \A k \in Jobs : Begin(k).pc = "note"
    BY DEF Begin
  <1>2. Rest.pc = "idle"
    BY DEF Rest, Begin
  <1>3. Skipped(job).pc \in {"note", "idle"}
    BY <1>1, <1>2 DEF Skipped, Jobs
  <1>4. /\ [Begin(job) EXCEPT !.pc = "settleNote", !.view = v].pc = "settleNote"
        /\ [Begin(job) EXCEPT !.pc = "settleNote", !.view = v].view = v
        /\ [Begin(job) EXCEPT !.pc = "write", !.view = v].pc = "write"
        /\ [Begin(job) EXCEPT !.pc = "write", !.view = v].view = v
    BY DEF Begin
  <1>5. \A n \in Nat : [Begin(job) EXCEPT !.tries = n].pc = "note"
    BY DEF Begin
  <1> QED
    BY <1>1, <1>2, <1>3, <1>4, <1>5 DEF Loaded

LEMMA ReadingShapes ==
  ASSUME TypeOK, NEW i \in Instances
  PROVE  LET r == run[i]
             noted == [r EXCEPT !.pc = "state", !.view.version = version]
             renoted == [r EXCEPT !.pc = "rebuildState", !.view.version = version]
             restated == [r EXCEPT !.pc = "reset", !.view.epoch = state.epoch,
                                   !.view.last = state.last]
             settling == [r EXCEPT !.pc = "settle"]
         IN  /\ noted.pc = "state" /\ noted.view.version = version
             /\ renoted.pc = "rebuildState" /\ renoted.view.version = version
             /\ restated.pc = "reset" /\ restated.view.version = r.view.version
             /\ restated.view.epoch = state.epoch
             /\ settling.pc = "settle" /\ settling.view = r.view
             /\ MustRebuild(r).pc = "rebuildNote"
             /\ [MustRebuild(r) EXCEPT !.lost = TRUE].pc = "rebuildNote"
             /\ Usable(r).pc \in {"idle", "records"}
             /\ Usable(r).pc = "records" =>
                   /\ Usable(r).view.version = r.view.version
                   /\ Usable(r).view.epoch = state.epoch
                   /\ Usable(r).view.last = state.last
  <1>1. run[i] \in Run /\ run[i].view \in View
    BY ViewTypes
  <1>2. MustRebuild(run[i]).pc = "rebuildNote" /\ MustRebuild(run[i]) \in Run
    BY <1>1, ReadingTypes DEF MustRebuild, Run
  <1>3. [MustRebuild(run[i]) EXCEPT !.lost = TRUE].pc = "rebuildNote"
    BY <1>2 DEF Run
  <1>4. Rest.pc = "idle"
    BY DEF Rest, Begin
  <1> QED
    BY <1>1, <1>2, <1>3, <1>4 DEF Run, View, Usable

\* A step that only moves one run.
LEMMA MoveType ==
  ASSUME TypeInv, NEW i \in Instances, NEW r \in Run, VersionOK(r), Set(i, r), Quiet
  PROVE  TypeInv'
  <1>1. TypeOK'
    BY SetType DEF TypeInv
  <1>2. \A j \in Instances : VersionOK(run'[j])
    BY DEF TypeInv, TypeOK, VersionsExist, VersionOK, Set
  <1>3. past' = past
    BY DEF Quiet
  <1> QED
    BY <1>1, <1>2, <1>3 DEF TypeInv, VersionsExist, VersionOK

\* A step that at most lengthens the past and puts one run to rest.
LEMMA VersionsStay ==
  ASSUME VersionsExist, TypeOK, DOMAIN past \subseteq DOMAIN past',
         \A j \in Instances : run'[j] = run[j] \/ run'[j].pc \notin ReadsNote
  PROVE  VersionsExist'
  BY DEF VersionsExist, VersionOK

\* Inputs of participants: updates and departures.
LEMMA ParticipantType ==
  ASSUME TypeInv, NEW i \in Instances,
         Leave(i) \/ \E e \in Edits : AcceptUpdate(i, e)
  PROVE  TypeInv'
  <1>1. CASE Leave(i)
    <2>1. inputs' \in 0..MaxInputs
      BY <1>1, InputType DEF Leave, TypeInv
    <2>2. TypeOK'
      BY <1>1, <2>1 DEF Leave, Schedule, TypeInv, TypeOK, room
    <2> QED
      BY <1>1, <2>2, VersionsStay DEF TypeInv, Leave
  <1>2. ASSUME NEW e \in Edits, AcceptUpdate(i, e) PROVE TypeInv'
    <2>1. inputs' \in 0..MaxInputs
      BY <1>2, InputType DEF AcceptUpdate, TypeInv
    <2>2. state' \in State
      BY <1>2 DEF AcceptUpdate, TypeInv, TypeOK, State
    <2>3. {e} \in Documents
      BY DEF Documents
    <2>4. [revision |-> state.last + 1, kind |-> "update", items |-> {e}] \in Row
      BY <2>3, ViewTypes DEF Row, TypeInv
    <2>5. TypeOK'
      BY <1>2, <2>1, <2>2, <2>4 DEF AcceptUpdate, Schedule, TypeInv, TypeOK
    <2> QED
      BY <1>2, <2>5, VersionsStay DEF TypeInv, AcceptUpdate
  <1> QED
    BY <1>1, <1>2

\* Runs that start.
LEMMA StartType ==
  ASSUME TypeInv, NEW i \in Instances, StartSync(i) \/ StartProject(i)
  PROVE  TypeInv'
  <1>1. \A job \in Jobs : Begin(job) \in Run /\ VersionOK(Begin(job))
    <2>1. NoView \in View
      BY DEF NoView, View, Documents
    <2> QED
      BY <2>1, RunTypes, RunShapes DEF VersionOK, ReadsNote
  <1>2. CASE StartSync(i)
    BY <1>1, <1>2, MoveType DEF StartSync, Jobs
  <1>3. CASE StartProject(i)
    <2>1. timer[i] \in Jobs
      BY DEF TypeInv, TypeOK, Jobs
    <2>2. TypeOK'
      BY <1>1, <1>3, <2>1 DEF StartProject, Set, TypeInv, TypeOK, room
    <2>3. \A j \in Instances : VersionOK(run'[j])
      BY <1>1, <1>3, <2>1 DEF StartProject, Set, TypeInv, TypeOK, VersionsExist
    <2> QED
      BY <1>3, <2>2, <2>3 DEF TypeInv, VersionsExist, VersionOK, StartProject
  <1> QED
    BY <1>2, <1>3

\* Statements that only read.
LEMMA ReadType ==
  ASSUME TypeInv, NEW i \in Instances,
         \/ ReadNote(i) \/ ReadState(i) \/ ReadRecords(i)
         \/ RebuildReadNote(i) \/ RebuildReadState(i)
         \/ ProjectSuperseded(i) \/ ProjectLost(i) \/ SettleReadNote(i)
  PROVE  TypeInv'
  <1> USE DEF TypeInv
  <1>0. Rest \in Run /\ VersionOK(Rest)
    <2>1. "none" \in Jobs /\ NoView \in View
      BY DEF Jobs, NoView, View, Documents
    <2> QED
      BY <2>1, RunTypes, RunShapes DEF VersionOK, ReadsNote
  <1>1. VersionOK(run[i]) /\ version \in DOMAIN past
    BY PastTypes DEF VersionsExist
  <1>2. CASE ReadNote(i)
    BY <1>1, <1>2, ReadingTypes, ReadingShapes, MoveType DEF ReadNote, VersionOK, ReadsNote
  <1>3. CASE ReadState(i)
    <2>1. VersionOK(Usable(run[i]))
      BY <1>1, <1>3, ReadingShapes DEF ReadState, VersionOK, ReadsNote
    <2>2. VersionOK(MustRebuild(run[i]))
      BY ReadingShapes DEF VersionOK, ReadsNote
    <2> QED
      BY <1>0, <1>3, <2>1, <2>2, ReadingTypes, MoveType DEF ReadState
  <1>4. CASE ReadRecords(i)
    <2> DEFINE rows == IF state.epoch = run[i].view.epoch THEN log ELSE {}
               v == [run[i].view EXCEPT !.doc = Document(rows),
                                        !.updates = UpdateRevisions(rows)]
    <2>1. v \in View
      <3>1. rows \in SUBSET Row
        BY DEF TypeOK
      <3>2. Document(rows) \in Documents /\ UpdateRevisions(rows) \in SUBSET Nat
        BY <3>1, DocumentType
      <3> HIDE DEF rows
      <3> QED
        BY <3>2, ViewTypes DEF View
    <2>2. v.version = run[i].view.version
      BY ViewTypes DEF View
    <2>3. Loaded(run[i].job, v) \in Run /\ VersionOK(Loaded(run[i].job, v))
      <3> HIDE DEF v
      <3> QED
        BY <1>1, <1>4, <2>1, <2>2, RunTypes, RunShapes, ViewTypes
        DEF VersionOK, ReadsNote, ReadRecords
    <2> QED
      BY <1>4, <2>3, MoveType DEF ReadRecords
  <1>5. CASE RebuildReadNote(i)
    BY <1>1, <1>5, ReadingTypes, ReadingShapes, MoveType
    DEF RebuildReadNote, VersionOK, ReadsNote
  <1>6. CASE RebuildReadState(i)
    BY <1>1, <1>6, ReadingTypes, ReadingShapes, MoveType
    DEF RebuildReadState, VersionOK, ReadsNote
  <1>7. CASE ProjectSuperseded(i)
    <2>1. Skipped(run[i].job) \in Run /\ VersionOK(Skipped(run[i].job))
      BY RunTypes, RunShapes, ViewTypes DEF VersionOK, ReadsNote
    <2> QED
      BY <1>7, <2>1, MoveType DEF ProjectSuperseded
  <1>8. CASE ProjectLost(i)
    BY <1>8, ReadingTypes, ReadingShapes, MoveType DEF ProjectLost, VersionOK, ReadsNote
  <1>9. CASE SettleReadNote(i)
    <2>1. VersionOK([run[i] EXCEPT !.pc = "settle"])
      BY <1>1, <1>9, ReadingShapes DEF SettleReadNote, VersionOK, ReadsNote
    <2> QED
      BY <1>0, <1>9, <2>1, ReadingTypes, MoveType DEF SettleReadNote
  <1> QED
    BY <1>2, <1>3, <1>4, <1>5, <1>6, <1>7, <1>8, <1>9

\* What one rebuild of a version of the note leaves behind.
LEMMA RebuildEffect ==
  ASSUME TypeInv, NEW i \in Instances, NEW v \in DOMAIN past, NEW n \in {1, 2},
         Rebuild(i, v, n), UNCHANGED <<past, history, timer, inputs>>
  PROVE  /\ TypeInv'
         /\ state'.epoch = run[i].view.epoch + n
         /\ state'.last = run[i].view.last + n /\ state'.projected = state'.last
         /\ state'.version = v /\ Document(log') = past[v]
         /\ \A j \in Instances \ {i} : run'[j] = run[j]
         /\ run'[i].pc \in {"note", "idle", "write", "settleNote"}
         /\ run'[i].pc \in {"write", "settleNote"} =>
               run'[i].view = Fresh(state'.epoch, state'.last, v)
  <1> USE DEF TypeInv
  <1> DEFINE epoch == run[i].view.epoch + n
             revision == run[i].view.last + n
             r == IF run[i].lost THEN Skipped(run[i].job)
                  ELSE Loaded(run[i].job, Fresh(epoch, revision, v))
  <1>1. epoch \in Nat /\ revision \in Nat /\ v \in Nat /\ past[v] \in Documents
    BY ViewTypes, PastTypes
  <1>2. resetEpoch(epoch, revision, v, past[v]) /\ Set(i, r)
    BY DEF Rebuild
  <1>3. Fresh(epoch, revision, v) \in View /\ Fresh(epoch, revision, v).version = v
    BY <1>1, FreshType DEF Fresh
  <1> HIDE DEF epoch, revision
  <1>4. state' \in State /\ log' \subseteq Row /\ Document(log') = past[v]
    BY <1>1, <1>2, ResetEpochType
  <1>5. r \in Run
    BY <1>3, RunTypes, ViewTypes
  <1>6. /\ r.pc \in {"note", "idle", "write", "settleNote"}
        /\ r.pc \in {"write", "settleNote"} => r.view = Fresh(epoch, revision, v)
    BY <1>3, RunShapes, ViewTypes
  <1> HIDE DEF r
  <1>7. run' \in [Instances -> Run] /\ run'[i] = r
        /\ \A j \in Instances \ {i} : run'[j] = run[j]
    BY <1>2, <1>5 DEF Set, TypeOK
  <1>8. TypeOK'
    BY <1>4, <1>7 DEF TypeOK
  <1>9. VersionsExist'
    BY <1>3, <1>6, <1>7 DEF VersionsExist, VersionOK, ReadsNote
  <1>10. state'.epoch = epoch /\ state'.last = revision /\ state'.projected = revision
         /\ state'.version = v
    BY <1>2 DEF resetEpoch
  <1> QED
    BY <1>4, <1>6, <1>7, <1>8, <1>9, <1>10 DEF epoch, revision

\* A run that lost the race for the epoch starts over or gives in.
LEMMA LoserRuns ==
  ASSUME TypeInv, NEW i \in Instances
  PROVE  LET r == IF run[i].lost THEN Skipped(run[i].job)
                  ELSE [Begin(run[i].job) EXCEPT !.tries = run[i].tries + 1]
         IN  r \in Run /\ r.pc \in {"note", "idle"}
  <1>1. run[i].tries + 1 \in Nat
    BY ViewTypes DEF TypeInv
  <1> QED
    BY <1>1, RunTypes, RunShapes, ViewTypes DEF TypeInv

LEMMA ResetType ==
  ASSUME TypeInv, NEW i \in Instances, Reset(i)
  PROVE  TypeInv'
  <1>1. run[i].view.version \in DOMAIN past /\ version \in DOMAIN past
    BY PastTypes DEF TypeInv, VersionsExist, VersionOK, ReadsNote, Reset
  <1>2. CASE Rebuild(i, run[i].view.version, 1)
    BY <1>1, <1>2, RebuildEffect DEF Reset
  <1>3. CASE Rebuild(i, version, 2)
    BY <1>1, <1>3, RebuildEffect DEF Reset
  <1>4. CASE UNCHANGED room
    BY <1>2, <1>3, <1>4, LoserRuns, MoveType DEF Reset, Quiet, VersionOK, ReadsNote
  <1> QED
    BY <1>2, <1>3, <1>4 DEF Reset

\* What a committed projection leaves behind.
LEMMA ProjectEffect ==
  ASSUME TypeInv, NEW i \in Instances, Project(i)
  PROVE  /\ TypeInv'
         /\ version' = version + 1 /\ content' = run[i].view.doc
         /\ \A v \in DOMAIN past : past'[v] = past[v]
         /\ state'.epoch = state.epoch /\ state'.version = version'
         /\ \/ /\ state'.last = state.last /\ state'.projected = state'.last
               /\ log' = log
            \/ /\ state'.last = state.last + 1 /\ state'.projected = state'.last
               /\ Document(log') = run[i].view.doc
         /\ \/ history' = history
            \/ Record(version + 1, run[i].view.doc)
         /\ \A j \in Instances : run'[j] = run[j] \/ run'[j].pc = "idle"
  <1> USE DEF TypeInv
  <1> DEFINE d == run[i].view.doc
             forced == run[i].job = "boundary"
             compact == shouldCompact(forced, run[i].view.updates)
             revision == IF compact THEN run[i].view.last + 1 ELSE run[i].view.last
  <1>1. d \in Documents /\ run[i].view.last \in Nat /\ state.last = run[i].view.last
    BY ViewTypes DEF Project, unchangedSince
  <1>2. past' = Append(past, d)
    BY DEF Project
  <1>3. /\ past' \in Seq(Documents) /\ past' # <<>>
        /\ DOMAIN past' = DOMAIN past \cup {version + 1}
        /\ version' = version + 1 /\ content' = d
        /\ \A v \in DOMAIN past : past'[v] = past[v]
    BY <1>1, <1>2, AppendType
  <1>4. revision \in Nat
    BY <1>1
  <1>5. /\ state' = [state EXCEPT !.last = IF compact THEN @ + 1 ELSE @,
                                  !.projected = revision, !.version = version + 1]
        /\ log' = IF compact THEN Snapshot(revision, d) ELSE log
        /\ history' = history \/ Record(version + 1, d)
    BY DEF Project, commitProjection
  <1> HIDE DEF compact
  <1>6. state' \in State
    <2>1. version + 1 \in Nat /\ state.last + 1 \in Nat
      BY PastTypes, ViewTypes
    <2>2. \A last, projected, v \in Nat :
            [state EXCEPT !.last = last, !.projected = projected, !.version = v] \in State
      BY DEF TypeOK, State
    <2>3. (IF compact THEN state.last + 1 ELSE state.last) \in Nat
      BY <2>1, ViewTypes
    <2> QED
      BY <1>4, <1>5, <2>1, <2>2, <2>3
  <1>7. state'.epoch = state.epoch /\ state'.version = version'
    BY <1>3, <1>5 DEF TypeOK, State
  <1>8. /\ log' \subseteq Row
        /\ \/ /\ state'.last = state.last /\ state'.projected = state'.last
              /\ log' = log
           \/ /\ state'.last = state.last + 1 /\ state'.projected = state'.last
              /\ Document(log') = d
    <2>1. CASE compact
      <3>1. log' = Snapshot(revision, d)
        BY <1>5, <2>1
      <3>2. log' \subseteq Row /\ Document(log') = d
        BY <1>1, <1>4, <3>1 DEF Row, Snapshot, Document
      <3>3. state'.last = state.last + 1 /\ state'.projected = state.last + 1
        BY <1>1, <1>5, <2>1 DEF TypeOK, State
      <3> QED
        BY <3>2, <3>3
    <2>2. CASE ~compact
      <3>1. state'.last = state.last /\ state'.projected = state.last /\ log' = log
        BY <1>1, <1>5, <2>2 DEF TypeOK, State
      <3> QED
        BY <3>1 DEF TypeOK
    <2> QED
      BY <2>1, <2>2
  <1>9. DOMAIN history' \subseteq DOMAIN past' /\ \A u \in DOMAIN history' : history'[u] \in Documents
    BY <1>1, <1>3, <1>5, RecordType DEF TypeOK
  <1>10. Rest \in Run /\ Rest.pc = "idle"
    <2>1. "none" \in Jobs /\ NoView \in View
      BY DEF Jobs, NoView, View, Documents
    <2> QED
      BY <2>1, RunTypes, RunShapes
  <1>11. run' \in [Instances -> Run]
         /\ \A j \in Instances : run'[j] = run[j] \/ run'[j].pc = "idle"
    BY <1>10 DEF Project, Set, TypeOK
  <1>12. timer' = timer /\ inputs' = inputs
    BY DEF Project
  <1>13. TypeOK'
    BY <1>3, <1>6, <1>8, <1>9, <1>11, <1>12 DEF TypeOK
  <1>14. VersionsExist'
    BY <1>3, <1>11, VersionsStay DEF ReadsNote
  <1> QED
    BY <1>3, <1>5, <1>7, <1>8, <1>11, <1>13, <1>14

\* A run that is over.
LEMMA RestType == Rest \in Run /\ Rest.pc = "idle" /\ VersionOK(Rest)
  <1>1. "none" \in Jobs /\ NoView \in View
    BY DEF Jobs, NoView, View, Documents
  <1> QED
    BY <1>1, RunTypes, RunShapes DEF VersionOK, ReadsNote

\* What a paid boundary leaves behind.
LEMMA SettleEffect ==
  ASSUME TypeInv, NEW i \in Instances, Settle(i)
  PROVE  /\ TypeInv'
         /\ past' = past /\ state'.epoch = state.epoch /\ state'.version = state.version
         /\ \/ state' = state /\ log' = log
            \/ /\ unchangedSince(run[i].view)
               /\ state'.last = state.last + 1 /\ state'.projected = state.projected + 1
               /\ Document(log') = run[i].view.doc
                                    \cup Document({r \in log : r.revision > state.last})
         /\ \/ history' = history
            \/ Record(run[i].view.version, past[run[i].view.version])
         /\ \A j \in Instances : run'[j] = run[j] \/ run'[j].pc = "idle"
  <1> USE DEF TypeInv
  <1> DEFINE v == run[i].view
             kept == {r \in log : r.revision > state.last}
  <1>1. v.version \in DOMAIN past /\ past[v.version] \in Documents /\ v.doc \in Documents
    BY PastTypes, ViewTypes DEF VersionsExist, VersionOK, ReadsNote, Settle
  <1>2. past' = past /\ timer' = timer /\ inputs' = inputs
    BY DEF Settle
  <1>3. history' = history \/ Record(v.version, past[v.version])
    BY DEF Settle
  <1>4. /\ state' \in State /\ log' \subseteq Row
        /\ state'.epoch = state.epoch /\ state'.version = state.version
        /\ \/ state' = state /\ log' = log
           \/ /\ unchangedSince(v)
              /\ state'.last = state.last + 1 /\ state'.projected = state.projected + 1
              /\ Document(log') = v.doc \cup Document(kept)
    <2>1. CASE writeSnapshotAndPrune(v) /\ unchangedSince(v)
      <3>1. /\ state' = [state EXCEPT !.last = @ + 1, !.projected = @ + 1]
            /\ log' = kept \cup Snapshot(state.last + 1, v.doc)
        BY <2>1 DEF writeSnapshotAndPrune
      <3>2. /\ state' \in State /\ state'.epoch = state.epoch
            /\ state'.version = state.version
            /\ state'.last = state.last + 1 /\ state'.projected = state.projected + 1
        <4>1. state \in State
          BY DEF TypeOK
        <4>2. \A m, n \in Nat :
                LET t == [state EXCEPT !.last = m, !.projected = n]
                IN  /\ t \in State /\ t.last = m /\ t.projected = n
                    /\ t.epoch = state.epoch /\ t.version = state.version
          BY <4>1 DEF State
        <4>3. state.last + 1 \in Nat /\ state.projected + 1 \in Nat
          BY <4>1 DEF State
        <4>4. state' = [state EXCEPT !.last = state.last + 1,
                                     !.projected = state.projected + 1]
          BY <3>1, Zenon
        <4> HIDE DEF kept, v
        <4> QED
          BY <4>2, <4>3, <4>4
      <3>3. Snapshot(state.last + 1, v.doc) \subseteq Row
        BY <1>1, ViewTypes DEF Snapshot, Row
      <3>4. Document(log') = v.doc \cup Document(kept)
        <4>1. Document(Snapshot(state.last + 1, v.doc)) = v.doc
          BY DEF Document, Snapshot
        <4> HIDE DEF kept, v
        <4> QED
          BY <3>1, <4>1, DocumentUnion
      <3> QED
        BY <2>1, <3>1, <3>2, <3>3, <3>4 DEF TypeOK
    <2>2. CASE UNCHANGED room
      BY <2>2 DEF room, TypeOK
    <2> QED
      BY <2>1, <2>2 DEF Settle
  <1>5. DOMAIN history' \subseteq DOMAIN past' /\ \A u \in DOMAIN history' : history'[u] \in Documents
    BY <1>1, <1>2, <1>3, RecordType DEF TypeOK
  <1>6. run' \in [Instances -> Run]
        /\ \A j \in Instances : run'[j] = run[j] \/ run'[j].pc = "idle"
    BY RestType DEF Settle, Set, TypeOK
  <1>7. TypeOK'
    BY <1>2, <1>4, <1>5, <1>6 DEF TypeOK
  <1>8. VersionsExist'
    BY <1>2, <1>6, VersionsStay DEF ReadsNote
  <1> QED
    BY <1>2, <1>3, <1>4, <1>6, <1>7, <1>8

\* What another writer of the note leaves behind.
LEMMA OutsideEffect ==
  ASSUME TypeInv, OutsideStep
  PROVE  /\ TypeInv'
         /\ version' = version + 1
         /\ \A v \in DOMAIN past : past'[v] = past[v]
         /\ history' = history \/ Record(version + 1, content')
         /\ \/ state' = state /\ log' = log
            \/ /\ state'.epoch = state.epoch + 1 /\ state'.last = state.last + 1
               /\ state'.projected = state'.last
               /\ state'.version = version' /\ Document(log') = content'
         /\ run' = run
  <1> USE DEF TypeInv
  <1>1. inputs' \in 0..MaxInputs
    BY InputType DEF OutsideStep, Update, Touch, RestoreVersion
  <1>2. PICK d \in Documents :
          /\ past' = Append(past, d)
          /\ history' = history \/ Record(version + 1, d)
          /\ \/ UNCHANGED room
             \/ resetEpoch(state.epoch + 1, state.last + 1, version + 1, d)
    <2>1. ASSUME NEW w \in Writes, Update(w) PROVE content \cup {w} \in Documents
      BY PastTypes DEF Documents
    <2>2. \A v \in DOMAIN history : history[v] \in Documents
      BY DEF TypeOK
    <2> QED
      BY <2>1, <2>2, PastTypes DEF OutsideStep, Update, Touch, RestoreVersion
  <1>3. timer' = timer /\ run' = run
    BY DEF OutsideStep, Update, Touch, RestoreVersion
  <1>4. /\ past' \in Seq(Documents) /\ past' # <<>>
        /\ DOMAIN past' = DOMAIN past \cup {version + 1}
        /\ version' = version + 1 /\ content' = d
        /\ \A v \in DOMAIN past : past'[v] = past[v]
    BY <1>2, AppendType
  <1>5. DOMAIN history' \subseteq DOMAIN past' /\ \A u \in DOMAIN history' : history'[u] \in Documents
    BY <1>2, <1>4, RecordType DEF TypeOK
  <1>6. /\ state' \in State /\ log' \subseteq Row
        /\ \/ state' = state /\ log' = log
           \/ /\ state'.epoch = state.epoch + 1 /\ state'.last = state.last + 1
              /\ state'.projected = state'.last
              /\ state'.version = version + 1 /\ Document(log') = d
    <2>1. CASE UNCHANGED room
      BY <2>1 DEF room, TypeOK
    <2>2. CASE resetEpoch(state.epoch + 1, state.last + 1, version + 1, d)
      <3>1. state.epoch + 1 \in Nat /\ state.last + 1 \in Nat /\ version + 1 \in Nat
        BY PastTypes DEF TypeOK, State
      <3>2. state' \in State /\ log' \subseteq Row /\ Document(log') = d
        BY <2>2, <3>1, ResetEpochType
      <3> QED
        BY <2>2, <3>2 DEF resetEpoch
    <2> QED
      BY <1>2, <2>1, <2>2
  <1>7. TypeOK'
    BY <1>1, <1>3, <1>4, <1>5, <1>6 DEF TypeOK
  <1>8. VersionsExist'
    BY <1>3, <1>4, VersionsStay
  <1> QED
    BY <1>2, <1>3, <1>4, <1>6, <1>7, <1>8

\* Abandoned runs and dead processes.
LEMMA FaultType ==
  ASSUME TypeInv, NEW i \in Instances, RunFails(i) \/ Crash(i)
  PROVE  TypeInv'
  <1> USE DEF TypeInv
  <1>1. CASE RunFails(i)
    BY <1>1, RestType, MoveType DEF RunFails, Quiet
  <1>2. CASE Crash(i)
    <2>1. TypeOK'
      BY <1>2, RestType DEF Crash, Set, TypeOK, room
    <2>2. \A j \in Instances : run'[j] = run[j] \/ run'[j].pc \notin ReadsNote
      BY <1>2, RestType DEF Crash, Set, TypeOK, ReadsNote
    <2> QED
      BY <1>2, <2>1, <2>2, VersionsStay DEF Crash
  <1> QED
    BY <1>1, <1>2

LEMMA NextType == TypeInv /\ [Next]_vars => TypeInv'
  <1> SUFFICES ASSUME TypeInv, [Next]_vars PROVE TypeInv'
    OBVIOUS
  <1>1. CASE OutsideStep
    BY <1>1, OutsideEffect
  <1>2. ASSUME NEW i \in Instances, RunStep(i) PROVE TypeInv'
    BY <1>2, ReadType, ResetType, ProjectEffect, SettleEffect DEF RunStep
  <1>3. ASSUME NEW i \in Instances,
               \/ Leave(i) \/ \E e \in Edits : AcceptUpdate(i, e)
               \/ StartSync(i) \/ StartProject(i) \/ RunFails(i) \/ Crash(i)
        PROVE  TypeInv'
    BY <1>3, ParticipantType, StartType, FaultType
  <1>4. CASE UNCHANGED vars
    BY <1>4 DEF vars, TypeInv, TypeOK, VersionsExist, VersionOK
  <1> QED
    BY <1>1, <1>2, <1>3, <1>4 DEF Next

\* Every variable keeps its type: the history records only versions the note had, and a
\* run that is about to use a version of the note has one that exists.
THEOREM RoomTypeCorrect == Spec => []TypeOK
  <1>1. Init => TypeInv
    <2>1. Init => VersionsExist
      BY RestType DEF Init, VersionsExist
    <2> QED
      BY <2>1, InitType DEF TypeInv
  <1>2. TypeInv /\ [Next]_vars => TypeInv'
    BY NextType
  <1>3. TypeInv => TypeOK
    BY DEF TypeInv
  <1> QED
    BY <1>1, <1>2, <1>3, PTL DEF Spec

----------------------------------------------------------------------------
(* What holds the inductive invariant together.                             *)

\* The cursor stays behind what it counts.
CursorOK == state.projected <= state.last /\ state.version <= version

\* A run at one of these has read the room.
ReadsRoom == {"records", "write", "settleNote", "settle"}
HasDocument == {"write", "settleNote", "settle"}

\* A view is of the past of the room; where the compare-and-set would succeed it is exact.
ViewOK(r) ==
    /\ r.pc \in ReadsRoom =>
          /\ 0 < r.view.epoch /\ r.view.epoch <= state.epoch
          /\ r.view.epoch = state.epoch =>
                r.view.last <= state.last /\ r.view.version <= state.version
    /\ r.pc \in HasDocument /\ unchangedSince(r.view) => r.view.doc = Document(log)

ViewsOK == \A i \in Instances : ViewOK(run[i])

RoomInv == CursorOK /\ ViewsOK /\ RoomCoversNote /\ HistoryIsTrue

\* With types, everything the steps rely on.
Inv == TypeInv /\ RoomInv

LEMMA InitRoom == Init => RoomInv
  <1> SUFFICES ASSUME Init PROVE RoomInv
    OBVIOUS
  <1>1. version = 1 /\ content = {} /\ past[1] = {}
    BY DEF Init, version, content
  <1>2. \A i \in Instances : run[i].pc = "idle"
    BY RestType DEF Init
  <1>3. CursorOK
    BY <1>1 DEF Init, CursorOK
  <1>4. ViewsOK
    BY <1>2 DEF ViewsOK, ViewOK, ReadsRoom, HasDocument
  <1>5. RoomCoversNote
    BY DEF Init, RoomCoversNote
  <1>6. HistoryIsTrue
    BY <1>1 DEF Init, HistoryIsTrue
  <1> QED
    BY <1>3, <1>4, <1>5, <1>6 DEF RoomInv

\* A view stays of the past when the room moves on: a later epoch, or a later revision,
\* or the same log.
LEMMA ViewsStay ==
  ASSUME TypeInv, TypeInv', ViewsOK,
         \/ state'.epoch > state.epoch
         \/ /\ state'.epoch = state.epoch /\ state'.version >= state.version
            /\ \/ state'.last > state.last
               \/ state'.last = state.last /\ log' = log,
         \A j \in Instances : run'[j] = run[j] \/ ViewOK(run[j])'
  PROVE  ViewsOK'
  <1> SUFFICES ASSUME NEW j \in Instances, run'[j] = run[j] PROVE ViewOK(run[j])'
    BY DEF ViewsOK
  <1> DEFINE v == run[j].view
  <1>1. /\ v.epoch \in Nat /\ v.last \in Nat /\ v.version \in Nat
        /\ state.epoch \in Nat /\ state.last \in Nat /\ state.version \in Nat
        /\ state'.epoch \in Nat /\ state'.last \in Nat /\ state'.version \in Nat
    BY ViewTypes DEF TypeInv, TypeOK, State
  <1>2. ViewOK(run[j])
    BY DEF ViewsOK
  <1>3. run[j].pc \in HasDocument => run[j].pc \in ReadsRoom
    BY DEF HasDocument, ReadsRoom
  <1>4. CASE state'.epoch > state.epoch
    BY <1>1, <1>2, <1>3, <1>4 DEF ViewOK, unchangedSince
  <1>5. CASE /\ state'.epoch = state.epoch /\ state'.version >= state.version
             /\ state'.last > state.last
    BY <1>1, <1>2, <1>3, <1>5 DEF ViewOK, unchangedSince
  <1>6. CASE /\ state'.epoch = state.epoch /\ state'.version >= state.version
             /\ state'.last = state.last /\ log' = log
    BY <1>1, <1>2, <1>3, <1>6 DEF ViewOK, unchangedSince, Document
  <1> QED
    BY <1>4, <1>5, <1>6

\* A run without the room in its hands.
LEMMA NoRoomRead ==
  ASSUME NEW r, r.pc \notin ReadsRoom
  PROVE  ViewOK(r) /\ ViewOK(r)'
  BY DEF ViewOK, ReadsRoom, HasDocument

\* A step that only moves one run.
LEMMA MoveRoom ==
  ASSUME Inv, NEW i \in Instances, NEW r \in Run, ViewOK(r), Set(i, r), Quiet
  PROVE  RoomInv'
  <1>1. /\ past' = past /\ history' = history /\ state' = state /\ log' = log
        /\ version' = version /\ content' = content
    BY DEF Quiet, room, version, content
  <1>2. \A j \in Instances : ViewOK(run'[j])
    BY DEF Inv, TypeInv, TypeOK, RoomInv, ViewsOK, Set
  <1>3. ViewsOK'
    BY <1>1, <1>2 DEF ViewsOK, ViewOK, unchangedSince, Document
  <1> QED
    BY <1>1, <1>3 DEF Inv, RoomInv, CursorOK, RoomCoversNote, HistoryIsTrue, Document

LEMMA ParticipantRoom ==
  ASSUME Inv, TypeInv', NEW i \in Instances,
         Leave(i) \/ \E e \in Edits : AcceptUpdate(i, e)
  PROVE  RoomInv'
  <1>1. CASE Leave(i)
    <2>1. UNCHANGED <<past, history, state, log, run>>
      BY <1>1 DEF Leave, room
    <2> QED
      BY <2>1 DEF Inv, RoomInv, CursorOK, ViewsOK, ViewOK, RoomCoversNote, HistoryIsTrue,
                  Document, unchangedSince, version, content
  <1>2. ASSUME NEW e \in Edits, AcceptUpdate(i, e) PROVE RoomInv'
    <2>1. /\ past' = past /\ history' = history /\ run' = run
          /\ version' = version /\ content' = content
      BY <1>2 DEF AcceptUpdate, version, content
    <2>2. state \in State /\ state.last \in Nat /\ state.projected \in Nat
      BY DEF Inv, TypeInv, TypeOK, State
    <2>3. /\ state'.epoch = state.epoch /\ state'.last = state.last + 1
          /\ state'.projected = state.projected /\ state'.version = state.version
      BY <1>2, <2>2 DEF AcceptUpdate, State
    <2>4. Document(log) \subseteq Document(log')
      BY <1>2 DEF AcceptUpdate, Document
    <2>5. ViewsOK'
      BY <2>1, <2>2, <2>3, ViewsStay DEF Inv, RoomInv, TypeInv, TypeOK, State
    <2>6. CursorOK' /\ state'.projected # state'.last
      BY <2>1, <2>2, <2>3 DEF Inv, RoomInv, CursorOK
    <2>7. RoomCoversNote'
      BY <2>1, <2>3, <2>4, <2>6 DEF Inv, RoomInv, RoomCoversNote
    <2> QED
      BY <2>1, <2>5, <2>6, <2>7 DEF Inv, RoomInv, HistoryIsTrue
  <1> QED
    BY <1>1, <1>2

\* Runs that start have read nothing.
LEMMA StartRoom ==
  ASSUME Inv, TypeInv', NEW i \in Instances, StartSync(i) \/ StartProject(i)
  PROVE  RoomInv'
  <1>1. \A job \in Jobs : Begin(job) \in Run /\ ViewOK(Begin(job)) /\ ViewOK(Begin(job))'
    <2>1. NoView \in View
      BY DEF NoView, View, Documents
    <2>2. \A job \in Jobs : Begin(job).pc \notin ReadsRoom
      BY DEF Begin, ReadsRoom
    <2> QED
      BY <2>1, <2>2, RunTypes, NoRoomRead
  <1>2. CASE StartSync(i)
    BY <1>1, <1>2, MoveRoom DEF StartSync, Jobs
  <1>3. CASE StartProject(i)
    <2>1. timer[i] \in Jobs
      BY DEF Inv, TypeInv, TypeOK, Jobs
    <2>2. /\ past' = past /\ history' = history /\ state' = state /\ log' = log
          /\ version' = version /\ content' = content
      BY <1>3 DEF StartProject, room, version, content
    <2>3. \A j \in Instances : run'[j] = run[j] \/ ViewOK(run'[j])
      BY <1>1, <1>3, <2>1 DEF StartProject, Set, Inv, TypeInv, TypeOK
    <2>4. ViewsOK'
      BY <2>2, <2>3 DEF Inv, RoomInv, ViewsOK, ViewOK, unchangedSince, Document
    <2> QED
      BY <2>2, <2>4 DEF Inv, RoomInv, CursorOK, RoomCoversNote, HistoryIsTrue, Document
  <1> QED
    BY <1>2, <1>3

\* Statements that only read: the room is read as it is committed at that moment.
LEMMA ReadRoom ==
  ASSUME Inv, NEW i \in Instances,
         \/ ReadNote(i) \/ ReadState(i) \/ ReadRecords(i)
         \/ RebuildReadNote(i) \/ RebuildReadState(i)
         \/ ProjectSuperseded(i) \/ ProjectLost(i) \/ SettleReadNote(i)
  PROVE  RoomInv'
  <1> USE DEF Inv, TypeInv
  <1>0. Rest \in Run /\ ViewOK(Rest)
    BY RestType, NoRoomRead DEF ReadsRoom
  <1>1. ViewOK(run[i])
    BY DEF RoomInv, ViewsOK
  <1>2. CASE ReadNote(i)
    <2>1. ViewOK([run[i] EXCEPT !.pc = "state", !.view.version = version])
      BY ReadingShapes, NoRoomRead DEF ReadsRoom
    <2> QED
      BY <1>2, <2>1, ReadingTypes, MoveRoom DEF ReadNote
  <1>3. CASE ReadState(i)
    <2>1. ViewOK(MustRebuild(run[i]))
      BY ReadingShapes, NoRoomRead DEF ReadsRoom
    <2>2. ASSUME state.epoch > 0, state.version = run[i].view.version
          PROVE  ViewOK(Usable(run[i]))
      <3> DEFINE u == Usable(run[i])
      <3>1. /\ u.pc \in {"idle", "records"}
            /\ u.pc = "records" => /\ u.view.version = run[i].view.version
                                   /\ u.view.epoch = state.epoch
                                   /\ u.view.last = state.last
        BY ReadingShapes
      <3>2. state.epoch \in Nat /\ state.last \in Nat /\ state.version \in Nat
        BY ViewTypes
      <3> HIDE DEF u
      <3>3. ViewOK(u)
        BY <2>2, <3>1, <3>2 DEF ViewOK, ReadsRoom, HasDocument
      <3> QED
        BY <3>3 DEF u
    <2> QED
      BY <1>0, <1>3, <2>1, <2>2, ReadingTypes, MoveRoom DEF ReadState
  <1>4. CASE ReadRecords(i)
    <2> DEFINE rows == IF state.epoch = run[i].view.epoch THEN log ELSE {}
               v == [run[i].view EXCEPT !.doc = Document(rows),
                                        !.updates = UpdateRevisions(rows)]
    <2>1. v \in View
      <3>1. rows \in SUBSET Row
        BY DEF TypeOK
      <3>2. Document(rows) \in Documents /\ UpdateRevisions(rows) \in SUBSET Nat
        BY <3>1, DocumentType
      <3> HIDE DEF rows
      <3> QED
        BY <3>2, ViewTypes DEF View
    <2>2. /\ v.version = run[i].view.version /\ v.epoch = run[i].view.epoch
          /\ v.last = run[i].view.last
          /\ v.epoch = state.epoch => v.doc = Document(log)
      BY ViewTypes DEF View
    <2>3. Loaded(run[i].job, v) \in Run /\ ViewOK(Loaded(run[i].job, v))
      <3> HIDE DEF v
      <3>1. Loaded(run[i].job, v) \in Run
        BY <2>1, RunTypes, ViewTypes
      <3>2. /\ Loaded(run[i].job, v).pc \in {"note", "idle", "write", "settleNote"}
            /\ Loaded(run[i].job, v).pc \in {"write", "settleNote"}
                 => Loaded(run[i].job, v).view = v
        BY <2>1, RunShapes, ViewTypes
      <3>3. CASE Loaded(run[i].job, v).pc \in {"note", "idle"}
        BY <3>1, <3>3, NoRoomRead DEF ReadsRoom
      <3>4. CASE Loaded(run[i].job, v).pc \in {"write", "settleNote"}
        BY <1>1, <1>4, <2>2, <3>1, <3>2, <3>4
        DEF ViewOK, ReadsRoom, HasDocument, unchangedSince, ReadRecords
      <3> QED
        BY <3>1, <3>2, <3>3, <3>4
    <2> QED
      BY <1>4, <2>3, MoveRoom DEF ReadRecords
  <1>5. CASE RebuildReadNote(i)
    <2>1. ViewOK([run[i] EXCEPT !.pc = "rebuildState", !.view.version = version])
      BY ReadingShapes, NoRoomRead DEF ReadsRoom
    <2> QED
      BY <1>5, <2>1, ReadingTypes, MoveRoom DEF RebuildReadNote
  <1>6. CASE RebuildReadState(i)
    <2>1. ViewOK([run[i] EXCEPT !.pc = "reset", !.view.epoch = state.epoch,
                                !.view.last = state.last])
      BY ReadingShapes, NoRoomRead DEF ReadsRoom
    <2> QED
      BY <1>6, <2>1, ReadingTypes, MoveRoom DEF RebuildReadState
  <1>7. CASE ProjectSuperseded(i)
    <2>1. Skipped(run[i].job) \in Run /\ ViewOK(Skipped(run[i].job))
      BY RunTypes, RunShapes, ViewTypes, NoRoomRead DEF ReadsRoom
    <2> QED
      BY <1>7, <2>1, MoveRoom DEF ProjectSuperseded
  <1>8. CASE ProjectLost(i)
    <2>1. ViewOK([MustRebuild(run[i]) EXCEPT !.lost = TRUE])
      BY ReadingShapes, NoRoomRead DEF ReadsRoom
    <2> QED
      BY <1>8, <2>1, ReadingTypes, MoveRoom DEF ProjectLost
  <1>9. CASE SettleReadNote(i)
    <2>1. ViewOK([run[i] EXCEPT !.pc = "settle"])
      BY <1>1, <1>9, ReadingShapes
      DEF SettleReadNote, ViewOK, ReadsRoom, HasDocument
    <2> QED
      BY <1>0, <1>9, <2>1, ReadingTypes, MoveRoom DEF SettleReadNote
  <1> QED
    BY <1>2, <1>3, <1>4, <1>5, <1>6, <1>7, <1>8, <1>9

\* A rebuilt room is the version of the note it was built from, which may be an old one.
LEMMA RebuildRoom ==
  ASSUME Inv, NEW i \in Instances, NEW v \in DOMAIN past, NEW n \in {1, 2},
         state.epoch = run[i].view.epoch,
         Rebuild(i, v, n), UNCHANGED <<past, history, timer, inputs>>
  PROVE  RoomInv'
  <1> USE DEF Inv
  <1>1. /\ TypeInv' /\ state'.epoch = state.epoch + n
        /\ state'.projected = state'.last
        /\ state'.version = v /\ Document(log') = past[v]
        /\ \A j \in Instances \ {i} : run'[j] = run[j]
        /\ run'[i].pc \in {"note", "idle", "write", "settleNote"}
        /\ run'[i].pc \in {"write", "settleNote"} =>
              run'[i].view = Fresh(state'.epoch, state'.last, v)
    BY RebuildEffect
  <1>2. /\ state.epoch \in Nat /\ state'.epoch \in Nat /\ state'.last \in Nat
        /\ v \in Nat /\ v <= version
    BY <1>1, PastTypes, ViewTypes DEF TypeInv, TypeOK, State
  <1>3. past' = past /\ history' = history /\ version' = version /\ content' = content
    BY DEF version, content
  <1>4. ViewOK(run[i])'
    <2>1. CASE run'[i].pc \in {"note", "idle"}
      BY <2>1 DEF ViewOK, ReadsRoom, HasDocument
    <2>2. CASE run'[i].pc \in {"write", "settleNote"}
      <3>1. /\ run'[i].view.epoch = state'.epoch /\ run'[i].view.last = state'.last
            /\ run'[i].view.version = v /\ run'[i].view.doc = past[v]
        BY <1>1, <2>2 DEF Fresh
      <3> QED
        BY <1>1, <1>2, <3>1 DEF ViewOK, unchangedSince
    <2> QED
      BY <1>1, <2>1, <2>2
  <1>5. ViewsOK'
    <2>1. SUFFICES ASSUME NEW j \in Instances PROVE ViewOK(run[j])'
      BY DEF ViewsOK
    <2>2. CASE j = i
      BY <1>4, <2>2
    <2>3. CASE j # i
      <3>1. run'[j] = run[j] /\ ViewOK(run[j])
        BY <1>1, <2>3 DEF RoomInv, ViewsOK
      <3>2. state'.epoch > state.epoch /\ run[j].view.epoch \in Nat
        BY <1>1, <1>2, ViewTypes DEF TypeInv
      <3> QED
        BY <1>2, <3>1, <3>2 DEF ViewOK, unchangedSince, ReadsRoom, HasDocument
    <2> QED
      BY <2>2, <2>3
  <1>6. CursorOK'
    BY <1>1, <1>2, <1>3 DEF CursorOK
  <1>7. RoomCoversNote'
    BY <1>1, <1>3 DEF RoomCoversNote, content
  <1>8. HistoryIsTrue'
    BY <1>3 DEF RoomInv, HistoryIsTrue
  <1> QED
    BY <1>5, <1>6, <1>7, <1>8 DEF RoomInv

LEMMA ResetRoom ==
  ASSUME Inv, NEW i \in Instances, Reset(i)
  PROVE  RoomInv'
  <1>1. run[i].view.version \in DOMAIN past /\ version \in DOMAIN past
    BY PastTypes DEF Inv, TypeInv, VersionsExist, VersionOK, ReadsNote, Reset
  <1>2. CASE state.epoch = run[i].view.epoch
    BY <1>1, <1>2, RebuildRoom DEF Reset
  <1>3. CASE state.epoch # run[i].view.epoch
    <2> DEFINE r == IF run[i].lost THEN Skipped(run[i].job)
                    ELSE [Begin(run[i].job) EXCEPT !.tries = run[i].tries + 1]
    <2>1. r \in Run /\ r.pc \in {"note", "idle"}
      BY LoserRuns DEF Inv
    <2>2. Set(i, r) /\ Quiet
      BY <1>3 DEF Reset, Quiet
    <2> HIDE DEF r
    <2> QED
      BY <2>1, <2>2, NoRoomRead, MoveRoom DEF ReadsRoom
  <1> QED
    BY <1>2, <1>3

\* Recording what the note holds at a version keeps the history true.
LEMMA TrueHistory ==
  ASSUME HistoryIsTrue, \A v \in DOMAIN history : past'[v] = past[v],
         NEW v, history' = history \/ Record(v, past'[v])
  PROVE  HistoryIsTrue'
  BY DEF HistoryIsTrue, Record

\* A run that passed the compare-and-set writes the document of the log.
LEMMA ExactView ==
  ASSUME Inv, NEW i \in Instances, run[i].pc \in HasDocument,
         unchangedSince(run[i].view)
  PROVE  /\ run[i].view.doc = Document(log)
         /\ 0 < state.epoch /\ run[i].view.version <= state.version
  <1>1. ViewOK(run[i]) /\ run[i].pc \in ReadsRoom
    BY DEF Inv, RoomInv, ViewsOK, HasDocument, ReadsRoom
  <1> QED
    BY <1>1 DEF ViewOK, unchangedSince

LEMMA ProjectRoom ==
  ASSUME Inv, NEW i \in Instances, Project(i)
  PROVE  RoomInv'
  <1>1. /\ TypeInv'
        /\ version' = version + 1 /\ content' = run[i].view.doc
        /\ \A v \in DOMAIN past : past'[v] = past[v]
        /\ state'.epoch = state.epoch /\ state'.version = version'
        /\ state'.projected = state'.last
        /\ \/ state'.last = state.last /\ log' = log
           \/ state'.last = state.last + 1 /\ Document(log') = run[i].view.doc
        /\ history' = history \/ Record(version + 1, run[i].view.doc)
        /\ \A j \in Instances : run'[j] = run[j] \/ run'[j].pc = "idle"
    BY ProjectEffect DEF Inv
  <1>2. run[i].view.doc = Document(log)
    BY ExactView DEF Project, HasDocument
  <1>3. /\ version \in Nat /\ state.version \in Nat /\ state.last \in Nat
        /\ state.version <= version /\ state'.last \in Nat
    BY <1>1, PastTypes, ViewTypes DEF Inv, TypeInv, TypeOK, State, RoomInv, CursorOK
  <1>4. Document(log') = run[i].view.doc
    BY <1>1, <1>2
  <1>5. ViewsOK'
    <2>1. \A j \in Instances : run'[j] = run[j] \/ ViewOK(run[j])'
      BY <1>1 DEF ViewOK, ReadsRoom, HasDocument
    <2> QED
      BY <1>1, <1>3, <2>1, ViewsStay DEF Inv, RoomInv
  <1>6. CursorOK'
    BY <1>1, <1>3 DEF CursorOK
  <1>7. RoomCoversNote'
    BY <1>1, <1>4 DEF RoomCoversNote
  <1>8. past'[version + 1] = run[i].view.doc
    BY <1>1 DEF content, version
  <1>9. HistoryIsTrue'
    <2>1. DOMAIN history \subseteq DOMAIN past
      BY DEF Inv, TypeInv, TypeOK
    <2> QED
      BY <1>1, <1>8, <2>1, TrueHistory DEF Inv, RoomInv
  <1> QED
    BY <1>5, <1>6, <1>7, <1>9 DEF RoomInv

\* Compaction at a boundary folds the log into the document it already was.
LEMMA SettleDocument ==
  ASSUME Inv, NEW i \in Instances, Settle(i)
  PROVE  Document(log') = Document(log)
  <1>1. CASE log' = log
    BY <1>1
  <1>2. CASE /\ unchangedSince(run[i].view)
             /\ Document(log') = run[i].view.doc
                                  \cup Document({r \in log : r.revision > state.last})
    <2>1. run[i].view.doc = Document(log)
      BY <1>2, ExactView DEF Settle, HasDocument
    <2>2. Document({r \in log : r.revision > state.last}) \subseteq Document(log)
      BY DEF Document
    <2> QED
      BY <1>2, <2>1, <2>2
  <1> QED
    BY <1>1, <1>2, SettleEffect DEF Inv

LEMMA SettleRoom ==
  ASSUME Inv, NEW i \in Instances, Settle(i)
  PROVE  RoomInv'
  <1>1. /\ TypeInv' /\ past' = past
        /\ state'.epoch = state.epoch /\ state'.version = state.version
        /\ \/ state' = state /\ log' = log
           \/ state'.last = state.last + 1 /\ state'.projected = state.projected + 1
        /\ \/ history' = history
           \/ Record(run[i].view.version, past[run[i].view.version])
        /\ \A j \in Instances : run'[j] = run[j] \/ run'[j].pc = "idle"
    BY SettleEffect DEF Inv
  <1>2. version' = version /\ content' = content
    BY <1>1 DEF version, content
  <1>3. /\ version \in Nat /\ state.version \in Nat /\ state.last \in Nat
        /\ state.projected \in Nat /\ CursorOK
    BY PastTypes, ViewTypes DEF Inv, TypeInv, TypeOK, State, RoomInv
  <1>4. ViewsOK'
    <2>1. \A j \in Instances : run'[j] = run[j] \/ ViewOK(run[j])'
      BY <1>1 DEF ViewOK, ReadsRoom, HasDocument
    <2> QED
      BY <1>1, <1>3, <2>1, ViewsStay DEF Inv, RoomInv
  <1>5. CursorOK'
    BY <1>1, <1>2, <1>3 DEF CursorOK
  <1>6. RoomCoversNote'
    <2>1. state'.projected = state'.last => state.projected = state.last
      BY <1>1, <1>3
    <2> QED
      BY <1>1, <1>2, <2>1, SettleDocument DEF Inv, RoomInv, RoomCoversNote
  <1>7. HistoryIsTrue'
    BY <1>1, TrueHistory DEF Inv, RoomInv
  <1> QED
    BY <1>4, <1>5, <1>6, <1>7 DEF RoomInv

\* Another writer leaves the room behind the note, or makes it a generation of the note.
LEMMA OutsideRoom ==
  ASSUME Inv, OutsideStep
  PROVE  RoomInv'
  <1>1. /\ TypeInv' /\ version' = version + 1
        /\ \A v \in DOMAIN past : past'[v] = past[v]
        /\ history' = history \/ Record(version + 1, content')
        /\ \/ state' = state /\ log' = log
           \/ /\ state'.epoch = state.epoch + 1 /\ state'.last = state.last + 1
              /\ state'.projected = state'.last
              /\ state'.version = version' /\ Document(log') = content'
        /\ run' = run
    BY OutsideEffect DEF Inv
  <1>2. /\ version \in Nat /\ state.version \in Nat /\ state.last \in Nat
        /\ state.epoch \in Nat /\ CursorOK /\ state'.last \in Nat
    BY <1>1, PastTypes, ViewTypes DEF Inv, TypeInv, TypeOK, State, RoomInv
  <1>3. ViewsOK'
    BY <1>1, <1>2, ViewsStay DEF Inv, RoomInv
  <1>4. CursorOK'
    BY <1>1, <1>2 DEF CursorOK
  <1>5. RoomCoversNote'
    <2>1. CASE state' = state /\ log' = log
      BY <1>1, <1>2, <2>1 DEF CursorOK, RoomCoversNote
    <2>2. CASE Document(log') = content'
      BY <2>2 DEF RoomCoversNote
    <2> QED
      BY <1>1, <2>1, <2>2
  <1>6. HistoryIsTrue'
    <2>1. DOMAIN history \subseteq DOMAIN past
      BY DEF Inv, TypeInv, TypeOK
    <2>2. content' = past'[version + 1]
      BY <1>1 DEF content, version
    <2> QED
      BY <1>1, <2>1, <2>2, TrueHistory DEF Inv, RoomInv
  <1> QED
    BY <1>3, <1>4, <1>5, <1>6 DEF RoomInv

LEMMA FaultRoom ==
  ASSUME Inv, NEW i \in Instances, RunFails(i) \/ Crash(i)
  PROVE  RoomInv'
  <1>1. /\ past' = past /\ history' = history /\ state' = state /\ log' = log
        /\ version' = version /\ content' = content /\ Set(i, Rest)
    BY DEF RunFails, Crash, room, version, content
  <1>2. \A j \in Instances : run'[j] = run[j] \/ run'[j].pc = "idle"
    BY <1>1, RestType DEF Set, Inv, TypeInv, TypeOK
  <1>3. ViewsOK'
    BY <1>1, <1>2 DEF Inv, RoomInv, ViewsOK, ViewOK, unchangedSince, Document,
                      ReadsRoom, HasDocument
  <1> QED
    BY <1>1, <1>3 DEF Inv, RoomInv, CursorOK, RoomCoversNote, HistoryIsTrue, Document

LEMMA NextRoom == Inv /\ [Next]_vars => Inv'
  <1> SUFFICES ASSUME Inv, [Next]_vars PROVE Inv'
    OBVIOUS
  <1>0. TypeInv'
    BY NextType DEF Inv
  <1>1. CASE OutsideStep
    BY <1>0, <1>1, OutsideRoom DEF Inv
  <1>2. ASSUME NEW i \in Instances, RunStep(i) PROVE RoomInv'
    BY <1>2, ReadRoom, ResetRoom, ProjectRoom, SettleRoom DEF RunStep
  <1>3. ASSUME NEW i \in Instances,
               \/ Leave(i) \/ \E e \in Edits : AcceptUpdate(i, e)
               \/ StartSync(i) \/ StartProject(i) \/ RunFails(i) \/ Crash(i)
        PROVE  RoomInv'
    BY <1>0, <1>3, ParticipantRoom, StartRoom, FaultRoom
  <1>4. CASE UNCHANGED vars
    <2>1. RoomInv'
      BY <1>4 DEF vars, Inv, RoomInv, CursorOK, ViewsOK, ViewOK, RoomCoversNote,
                  HistoryIsTrue, unchangedSince, Document, version, content
    <2> QED
      BY <1>0, <2>1 DEF Inv
  <1> QED
    BY <1>0, <1>1, <1>2, <1>3, <1>4 DEF Next, Inv

\* The inductive invariant holds of every behaviour.
LEMMA Invariant == Spec => []Inv
  <1>1. Init => TypeInv
    <2>1. Init => VersionsExist
      BY RestType DEF Init, VersionsExist
    <2> QED
      BY <2>1, InitType DEF TypeInv
  <1>2. Init => Inv
    BY <1>1, InitRoom DEF Inv
  <1> QED
    BY <1>2, NextRoom, PTL DEF Spec

----------------------------------------------------------------------------
(* What the room promises.                                                  *)

\* A room the handshake would serve, its version being the note's, holds everything the
\* note holds; with nothing left to project the two are the same document.
THEOREM RoomCoversNoteAlways == Spec => []RoomCoversNote
  <1>1. Inv => RoomCoversNote
    BY DEF Inv, RoomInv
  <1> QED
    BY <1>1, Invariant, PTL

\* Whatever writes a checkpoint, and however late, it records what the note held at the
\* version the checkpoint is numbered for.
THEOREM HistoryIsTrueAlways == Spec => []HistoryIsTrue
  <1>1. Inv => HistoryIsTrue
    BY DEF Inv, RoomInv
  <1> QED
    BY <1>1, Invariant, PTL

\* The document of the room when a projection commits.
LEMMA ProjectDocument ==
  ASSUME Inv, NEW i \in Instances, Project(i)
  PROVE  /\ content' = Document(log) /\ Document(log') = Document(log)
         /\ content \subseteq Document(log)
  <1>1. /\ run[i].view.doc = Document(log) /\ 0 < state.epoch
        /\ run[i].view.version <= state.version
    BY ExactView DEF Project, HasDocument
  <1>2. /\ run[i].view.version = version /\ state.version <= version
        /\ version \in Nat /\ state.version \in Nat /\ state.epoch \in Nat
    BY PastTypes, ViewTypes DEF Project, Inv, TypeInv, RoomInv, CursorOK
  <1>3. content \subseteq Document(log)
    BY <1>1, <1>2 DEF Inv, RoomInv, RoomCoversNote
  <1>4. /\ content' = run[i].view.doc
        /\ log' = log \/ Document(log') = run[i].view.doc
    BY ProjectEffect DEF Inv
  <1> QED
    BY <1>1, <1>3, <1>4

\* The other steps of a run leave the note alone, and the log until a new generation.
LEMMA RunLeavesNote ==
  ASSUME Inv, NEW i \in Instances,
         StartSync(i) \/ StartProject(i) \/ RunStep(i) \/ RunFails(i) \/ Crash(i),
         ~Project(i)
  PROVE  /\ content' = content
         /\ \/ log' = log
            \/ Document(log') = Document(log)
            \/ state'.epoch # state.epoch
  <1>1. CASE Reset(i)
    <2>1. past' = past
      BY <1>1 DEF Reset
    <2>2. run[i].view.version \in DOMAIN past /\ version \in DOMAIN past
      BY <1>1, PastTypes DEF Inv, TypeInv, VersionsExist, VersionOK, ReadsNote, Reset
    <2>3. state.epoch \in Nat
      BY ViewTypes DEF Inv, TypeInv
    <2>4. log' = log \/ state'.epoch = state.epoch + 1 \/ state'.epoch = state.epoch + 2
      BY <1>1, <2>2, RebuildEffect DEF Reset, Inv, room
    <2> QED
      BY <2>1, <2>3, <2>4 DEF content, version
  <1>2. CASE Settle(i)
    BY <1>2, SettleDocument DEF Settle, content, version
  <1>3. CASE \/ ReadNote(i) \/ ReadState(i) \/ ReadRecords(i)
             \/ RebuildReadNote(i) \/ RebuildReadState(i)
             \/ ProjectSuperseded(i) \/ ProjectLost(i) \/ SettleReadNote(i)
    BY <1>3 DEF ReadNote, ReadState, ReadRecords, RebuildReadNote, RebuildReadState,
                ProjectSuperseded, ProjectLost, SettleReadNote, Quiet, room,
                content, version
  <1>4. CASE StartSync(i) \/ StartProject(i) \/ RunFails(i) \/ Crash(i)
    BY <1>4 DEF StartSync, StartProject, RunFails, Crash, Quiet, room, content, version
  <1> QED
    BY <1>1, <1>2, <1>3, <1>4 DEF RunStep

\* A projection never takes from the note what it holds, by whichever path it came there:
\* the version and the revision it compares cover everything it did not read.
THEOREM ProjectionKeepsContentAlways == Spec => ProjectionKeepsContent
  <1>1. Inv /\ [Next]_vars => [run' # run => content \subseteq content']_vars
    <2> SUFFICES ASSUME Inv, Next, run' # run PROVE content \subseteq content'
      BY DEF vars
    <2>1. PICK i \in Instances :
            StartSync(i) \/ StartProject(i) \/ RunStep(i) \/ RunFails(i) \/ Crash(i)
      BY DEF Next, AcceptUpdate, Leave, OutsideStep, Update, Touch, RestoreVersion
    <2>2. CASE Project(i)
      BY <2>2, ProjectDocument
    <2>3. CASE ~Project(i)
      BY <2>1, <2>3, RunLeavesNote
    <2> QED
      BY <2>2, <2>3
  <1> QED
    BY <1>1, Invariant, PTL DEF Spec, ProjectionKeepsContent

\* Within a generation nothing accepted is folded away, whichever process compacts and
\* however long ago it read the log.
THEOREM GenerationKeepsUpdatesAlways == Spec => GenerationKeepsUpdates
  <1>1. Inv /\ [Next]_vars =>
          [state'.epoch = state.epoch => Document(log) \subseteq Document(log')]_vars
    <2> SUFFICES ASSUME Inv, Next, state'.epoch = state.epoch
                 PROVE  Document(log) \subseteq Document(log')
      BY DEF vars
    <2>1. CASE OutsideStep
      <3>1. state.epoch \in Nat
        BY DEF Inv, TypeInv, TypeOK, State
      <3> QED
        BY <2>1, <3>1, OutsideEffect DEF Inv
    <2>2. ASSUME NEW i \in Instances,
                 StartSync(i) \/ StartProject(i) \/ RunStep(i) \/ RunFails(i) \/ Crash(i)
          PROVE  Document(log) \subseteq Document(log')
      <3>1. CASE Project(i)
        BY <3>1, ProjectDocument
      <3>2. CASE ~Project(i)
        BY <2>2, <3>2, RunLeavesNote
      <3> QED
        BY <3>1, <3>2
    <2>3. ASSUME NEW i \in Instances, Leave(i) \/ \E e \in Edits : AcceptUpdate(i, e)
          PROVE  Document(log) \subseteq Document(log')
      BY <2>3 DEF Leave, AcceptUpdate, room, Document
    <2> QED
      BY <2>1, <2>2, <2>3 DEF Next
  <1> QED
    BY <1>1, Invariant, PTL DEF Spec, GenerationKeepsUpdates

=============================================================================
