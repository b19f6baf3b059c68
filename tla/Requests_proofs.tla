--------------------------- MODULE Requests_proofs ---------------------------
(***************************************************************************)
(* Proofs about what one person asks for and waits for: exports, the saves *)
(* of a tab, the domains of workspaces, tags and statuses, for any         *)
(* exports, attempts, documents, edits, faults, retries, workspaces,       *)
(* hosts, calls, keys and names.                                           *)
(*                                                                         *)
(* Exports.  An export is announced once, and while it is ready its bytes  *)
(* are there: the compare-and-set of claim lets one invocation of all      *)
(* attempts and operator retries through, and nothing that is under way    *)
(* for an export -- that invocation, or a pass that has listed its bytes   *)
(* -- can meet it in a state the other one works on.                       *)
(*                                                                         *)
(* Autosave.  A version of the row stands for the writes of others it      *)
(* includes.  So a queue, an open request and a row of the same version    *)
(* agree on them: whatever the tab would send over the version the server  *)
(* holds was composed by a writer who had been shown everything in it.     *)
(* The reducer keeps that (Core) and what the writer typed (Held) in every *)
(* operation; a write of somebody else only makes the tab's version an old *)
(* one.                                                                    *)
(*                                                                         *)
(* The other two parts are about components that MCRequests composes,      *)
(* under the names it gives them: Domains and Naming.                      *)
(***************************************************************************)
EXTENDS MCRequests, JobConsumer_proofs, FiniteSetTheorems

----------------------------------------------------------------------------
(* Exports.                                                                *)

PastClaim == WorkerPC \ {"idle", "claim"}
Claimed(w) == doing[w] \in PastClaim
Quiet(e) == \A w \in Workers : Claimed(w) => handling[w] # e

Requested(e) == status[e] \notin {"none", "queued"}
Published(e) == status[e] \in {"ready", "expired"}

RowsOK ==
    /\ status \in [Exports -> Status]
    /\ hasKey \subseteq {e \in Exports : Published(e)}
    /\ due \subseteq {e \in Exports : status[e] = "ready"}
    /\ old \subseteq objects
    /\ objects \subseteq {e \in Exports : Requested(e)}
    /\ announced \in [Exports -> {0, 1}]
    /\ \A e \in Exports : /\ status[e] = "ready" => e \in hasKey /\ e \in objects
                          /\ announced[e] = 1 => Published(e)

ExportWorkersOK ==
    /\ doing \in [Workers -> WorkerPC]
    /\ \A w \in Workers : doing[w] = "idle" <=> handling[w] = NoJob

\* The invocation that won the claim, and what it may find.
ClaimsOK ==
    /\ \A w \in Workers : Claimed(w) =>
          /\ Requested(handling[w]) /\ handling[w] \notin old
          /\ announced[handling[w]] = 0
          /\ doing[w] = "announce" <=> Published(handling[w])
          /\ doing[w] = "markReady" => handling[w] \in objects
    /\ \A v, w \in Workers : Claimed(v) /\ Claimed(w) /\ handling[v] = handling[w] => v = w

\* What a pass has read stays true until it has acted on it.
SweepOK ==
    /\ sweep \in [pc : SweepPC, todo : SUBSET Exports, cur : Exports \cup {NoJob}]
    /\ sweep.pc \in {"release", "clear"} => \A e \in sweep.todo : status[e] = "expired"
    /\ sweep.pc = "clear" => sweep.cur \in Exports /\ status[sweep.cur] = "expired"
    /\ sweep.pc \in {"owners", "remove"} => \A e \in sweep.todo : Requested(e) /\ Quiet(e)
    /\ sweep.pc = "remove" => sweep.todo \cap hasKey = {}

ExportIInv == ConsumerInv /\ RowsOK /\ ExportWorkersOK /\ ClaimsOK /\ SweepOK

LEMMA ExportInitIInv == Init => ExportIInv
  BY JobInitConsumerInv, JobAssumption
     DEF Init, JobInit, ExportIInv, RowsOK, ExportWorkersOK, ClaimsOK, SweepOK, AtRest, Claimed, PastClaim,
         Requested, Published, Exports, Status, Open, Terminal, WorkerPC, SweepPC

\* What an invocation does to its intent is a step of the consumer.
LEMMA ExportStepIsJobStep == [Next]_vars => JobStep \/ IntentsRest
  <1> SUFFICES ASSUME [Next]_vars PROVE JobStep \/ IntentsRest
    OBVIOUS
  <1>1. ASSUME NEW e \in Exports, create(e) \/ cancel(e) \/ RetentionElapses(e) \/ GrowOld(e)
        PROVE  JobStep \/ IntentsRest
    BY <1>1 DEF create, cancel, RetentionElapses, GrowOld, JobStep, Exports, jobVars, IntentsRest
  <1>2. ASSUME NEW w \in Workers, NEW e \in Exports, Deliver(w, e)
        PROVE  JobStep
    BY <1>2 DEF Deliver, JobStep, Exports
  <1>3. ASSUME NEW w \in Workers, HandlerStep(w) \/ HandlerThrows(w) \/ HandlerDies(w)
        PROVE  JobStep \/ IntentsRest
    <2>1. ASSUME \E outcome \in {"done", "dead", AfterThrow(w)} : End(w, outcome)
          PROVE  JobStep
      BY <2>1 DEF JobStep
    <2>2. CASE HandlerThrows(w) \/ HandlerDies(w)
      BY <2>1, <2>2 DEF HandlerThrows, HandlerDies, Fails, Dies
    <2>3. CASE HandlerStep(w)
      BY <2>1, <2>3 DEF HandlerStep, claim, Leaves, Returns, Prepare, markFailed, putObject, putFails,
            markReady, discard, announce, intents, jobVars, IntentsRest
    <2>4. QED  BY <1>3, <2>2, <2>3
  <1>4. ASSUME Around PROVE JobStep
    BY <1>4 DEF JobStep
  <1>5. ASSUME SweepStep \/ SweepDies PROVE IntentsRest
    <2>1. CASE SweepExpire \/ SweepClear \/ SweepList \/ SweepOwners
      BY <2>1 DEF SweepExpire, SweepClear, SweepList, SweepOwners, jobVars, IntentsRest
    <2>2. CASE SweepRelease \/ SweepRemove \/ SweepDies
      BY <2>2 DEF SweepRelease, SweepRemove, SweepDies, intents, IntentsRest
    <2>3. QED  BY <1>5, <2>1, <2>2 DEF SweepStep
  <1>6. CASE UNCHANGED vars
    BY <1>6 DEF vars, jobVars, IntentsRest
  <1>7. QED  BY <1>1, <1>2, <1>3, <1>4, <1>5, <1>6 DEF Next

\* The whole invariant but for the intents, which the consumer keeps.
ExportOK == RowsOK /\ ExportWorkersOK /\ ClaimsOK /\ SweepOK

LEMMA HandledIsExport ==
    ASSUME ExportIInv, NEW w \in Workers, doing[w] # "idle"
    PROVE  handling[w] \in Exports /\ doing[w] \in WorkerPC
  BY DEF ExportIInv, ExportWorkersOK, ConsumerInv, ConsumerTypeOK, Exports

\* Requests and time.
LEMMA RequestKeepsOK ==
    ASSUME ExportIInv, NEW e \in Exports,
           create(e) \/ cancel(e) \/ RetentionElapses(e) \/ GrowOld(e)
    PROVE  ExportOK'
  <1> USE DEF ExportIInv, ExportOK, RowsOK, ExportWorkersOK, ClaimsOK, SweepOK, Claimed, Quiet, Requested,
              Published
  <1>1. \A w \in Workers : Claimed(w) => handling[w] \in Exports /\ doing[w] # "idle"
    BY HandledIsExport DEF PastClaim
  <1>2. CASE create(e)
    <2>1. /\ status' = [status EXCEPT ![e] = "queued"] /\ ~Requested(e) /\ e \in DOMAIN status
          /\ UNCHANGED <<handling, doing, hasKey, due, old, objects, sweep, announced>>
      BY <1>2 DEF create, Accept, clocks
    <2>2. RowsOK'
      BY <2>1 DEF Status, Open, Terminal
    <2>3. ExportWorkersOK'
      BY <2>1
    <2>4. \A f \in Exports : f # e => status'[f] = status[f]
      BY <2>1
    <2>5. ClaimsOK'
      BY <1>1, <2>1, <2>4
    <2>6. SweepOK'
      BY <1>1, <2>1, <2>4 DEF Terminal
    <2>7. QED  BY <2>2, <2>3, <2>5, <2>6
  <1>3. CASE cancel(e)
    <2>1. /\ status' = [status EXCEPT ![e] = "cancelled"] /\ Requested(e)' /\ ~Published(e)
          /\ ~Published(e)' /\ e \in DOMAIN status /\ status'[e] \in Terminal
          /\ UNCHANGED <<handling, doing, hasKey, due, old, objects, sweep, announced>>
      BY <1>3 DEF cancel, jobVars, clocks, Open, Terminal
    <2>2. \A f \in Exports : f # e => status'[f] = status[f]
      BY <2>1
    <2>3. RowsOK'
      BY <2>1, <2>2 DEF Status, Open, Terminal
    <2>4. ClaimsOK'
      BY <1>1, <2>1, <2>2
    <2>5. SweepOK'
      BY <1>1, <2>1, <2>2
    <2>6. QED  BY <2>1, <2>3, <2>4, <2>5
  <1>4. CASE RetentionElapses(e)
    BY <1>4 DEF RetentionElapses, jobVars, rows
  <1>5. CASE GrowOld(e)
    BY <1>1, <1>5 DEF GrowOld, Handled, jobVars, rows
  <1>6. QED  BY <1>2, <1>3, <1>4, <1>5

\* The passes.
LEMMA SweepKeepsOK ==
    ASSUME ExportIInv, SweepStep \/ SweepDies
    PROVE  ExportOK'
  <1> USE DEF ExportIInv, ExportOK, RowsOK, ExportWorkersOK, ClaimsOK, SweepOK, Claimed, Quiet, Requested,
              Published, SweepPC
  <1>1. \A w \in Workers : Claimed(w) => handling[w] \in Exports /\ doing[w] # "idle"
    BY HandledIsExport DEF PastClaim
  <1>2. CASE SweepExpire
    <2>1. /\ status' = [e \in Exports |-> IF e \in due /\ status[e] = "ready" THEN "expired"
                                          ELSE status[e]]
          /\ due' = due \ {e \in due : status[e] = "ready"}
          /\ sweep' = [pc |-> "release", todo |-> {e \in hasKey : status'[e] \in Terminal},
                        cur |-> NoJob]
          /\ UNCHANGED <<handling, doing, hasKey, old, objects, announced>>
      BY <1>2 DEF SweepExpire, SweepSet, jobVars
    <2>2. \A e \in Exports :
             /\ \/ status'[e] = status[e]
                \/ status[e] = "ready" /\ status'[e] = "expired"
             /\ status[e] \in Status
      BY <2>1
    <2>3. \A e \in Exports : /\ Requested(e)' <=> Requested(e)
                             /\ Published(e)' <=> Published(e)
      BY <2>2
    <2>4. status' \in [Exports -> Status] /\ due' = {}
      <3>1. "expired" \in Status
        BY DEF Status, Terminal
      <3>2. QED  BY <2>1, <3>1
    <2>5. RowsOK'
      BY <2>1, <2>2, <2>3, <2>4
    <2>6. ExportWorkersOK'
      BY <2>1
    <2>7. ClaimsOK'
      BY <1>1, <2>1, <2>3
    <2>8. SweepOK'
      <3>1. sweep'.todo \subseteq {e \in Exports : status'[e] = "expired"}
        BY <2>1, <2>2 DEF Terminal
      <3>2. QED  BY <2>1, <3>1
    <2>9. QED  BY <2>5, <2>6, <2>7, <2>8
  <1>3. CASE SweepRelease
    <2>1. UNCHANGED <<handling, doing, status, hasKey, due, announced>>
      BY <1>3 DEF SweepRelease, intents, rows
    <2>2. \/ /\ sweep' = [pc |-> "list", todo |-> {}, cur |-> NoJob]
             /\ UNCHANGED <<objects, old>>
          \/ /\ sweep' = [pc |-> "release", todo |-> sweep'.todo, cur |-> NoJob]
             /\ sweep'.todo \subseteq sweep.todo
             /\ UNCHANGED <<objects, old>>
          \/ \E e \in sweep.todo :
                /\ objects' = objects \ {e} /\ old' = old \ {e}
                /\ sweep' = [pc |-> "clear", todo |-> sweep.todo \ {e}, cur |-> e]
      BY <1>3 DEF SweepRelease, SweepSet
    <2>3. sweep.pc = "release"
      BY <1>3 DEF SweepRelease
    <2>4. \A e \in sweep.todo :
             e \in Exports /\ status[e] = "expired"
      BY <2>3
    <2>5. RowsOK'
      BY <2>1, <2>2, <2>4
    <2>6. ExportWorkersOK'
      BY <2>1
    <2>7. \A w \in Workers : Claimed(w) /\ doing[w] = "markReady" => handling[w] \in objects'
      BY <2>2, <2>4
    <2>8. ClaimsOK'
      BY <2>1, <2>2, <2>7
    <2>9. SweepOK'
      BY <2>1, <2>2, <2>3, <2>4
    <2>10. QED  BY <2>5, <2>6, <2>8, <2>9
  <1>4. CASE SweepClear
    BY <1>4 DEF SweepClear, SweepSet, jobVars, clocks, Terminal
  <1>5. CASE SweepList
    BY <1>1, <1>5 DEF SweepList, SweepSet, jobVars, rows, clocks
  <1>6. CASE SweepOwners
    BY <1>6 DEF SweepOwners, SweepSet, jobVars, rows, clocks
  <1>7. CASE SweepRemove
    BY <1>1, <1>7 DEF SweepRemove, AtRest, intents, rows
  <1>8. CASE SweepDies
    BY <1>8 DEF SweepDies, AtRest, intents, rows, clocks
  <1>9. QED  BY <1>2, <1>3, <1>4, <1>5, <1>6, <1>7, <1>8 DEF SweepStep

\* An invocation ends: its export is no longer handled by it.
LeavesOnly(w) ==
    /\ handling' = [handling EXCEPT ![w] = NoJob]
    /\ doing' = [doing EXCEPT ![w] = "idle"]

\* An invocation goes on with its export.
Moves(w, pc) ==
    /\ handling' = handling
    /\ doing' = [doing EXCEPT ![w] = pc]

LEMMA WorkersAfter ==
    ASSUME ExportIInv, NEW w \in Workers, doing[w] # "idle",
           \/ LeavesOnly(w)
           \/ \E pc \in WorkerPC \ {"idle"} : Moves(w, pc)
    PROVE  /\ ExportWorkersOK'
           /\ \A v \in Workers : v # w => /\ handling'[v] = handling[v] /\ doing'[v] = doing[v]
  <1> USE DEF ExportIInv, ExportWorkersOK, ConsumerInv, ConsumerTypeOK, Claimed
  <1>1. handling[w] # NoJob /\ "idle" \in WorkerPC
    BY DEF WorkerPC
  <1>2. CASE LeavesOnly(w)
    BY <1>1, <1>2 DEF LeavesOnly
  <1>3. ASSUME NEW pc \in WorkerPC \ {"idle"}, Moves(w, pc)
        PROVE  ExportWorkersOK' /\ \A v \in Workers : v # w => /\ handling'[v] = handling[v]
                                                        /\ doing'[v] = doing[v]
    BY <1>1, <1>3 DEF Moves
  <1>4. QED  BY <1>2, <1>3

\* Leaving without a trace, as a return, a throw and a death all do.
LEMMA LeavingKeepsOK ==
    ASSUME ExportIInv, NEW w \in Workers, doing[w] # "idle", LeavesOnly(w),
           UNCHANGED <<rows, clocks, objects, sweep, announced>>
    PROVE  ExportOK'
  <1>1. /\ ExportWorkersOK'
        /\ \A v \in Workers : v # w => /\ handling'[v] = handling[v] /\ doing'[v] = doing[v]
    BY WorkersAfter
  <1>2. ~Claimed(w)'
    BY DEF LeavesOnly, Claimed, PastClaim, ExportIInv, ExportWorkersOK
  <1>3. UNCHANGED <<status, hasKey, due, old, objects, sweep, announced>>
    BY DEF rows, clocks
  <1>4. RowsOK'
    BY <1>3 DEF ExportIInv, RowsOK, Requested, Published
  <1>5. ClaimsOK'
    BY <1>1, <1>2, <1>3 DEF ExportIInv, ClaimsOK, Requested, Published, Claimed
  <1>6. SweepOK'
    BY <1>1, <1>2, <1>3 DEF ExportIInv, SweepOK, Requested, Quiet, Claimed
  <1>7. QED  BY <1>1, <1>4, <1>5, <1>6 DEF ExportOK

\* The start of an attempt claims nothing yet.
LEMMA DeliverKeepsOK ==
    ASSUME ExportIInv, NEW w \in Workers, NEW e \in Exports, Deliver(w, e)
    PROVE  ExportOK'
  <1>1. /\ handling' = [handling EXCEPT ![w] = e] /\ handling[w] = NoJob
        /\ doing' = [doing EXCEPT ![w] = "claim"]
        /\ UNCHANGED <<status, hasKey, due, old, objects, sweep, announced>>
    BY DEF Deliver, Begin, Goto, rows, clocks
  <1>2. /\ handling \in [Workers -> Exports \cup {NoJob}] /\ doing \in [Workers -> WorkerPC]
        /\ e # NoJob
    BY JobAssumption DEF ExportIInv, ExportWorkersOK, ConsumerInv, ConsumerTypeOK, Exports
  <1>3. \A v \in Workers : /\ Claimed(v)' <=> v # w /\ Claimed(v)
                           /\ v # w => doing'[v] = doing[v] /\ handling'[v] = handling[v]
    BY <1>1, <1>2 DEF Claimed, PastClaim
  <1>4. ExportWorkersOK'
    BY <1>1, <1>2 DEF ExportIInv, ExportWorkersOK, WorkerPC
  <1>5. RowsOK'
    BY <1>1 DEF ExportIInv, RowsOK, Requested, Published
  <1>6. ClaimsOK'
    BY <1>1, <1>3 DEF ExportIInv, ClaimsOK, Requested, Published
  <1>7. SweepOK'
    BY <1>1, <1>3 DEF ExportIInv, SweepOK, Requested, Quiet
  <1>8. QED  BY <1>4, <1>5, <1>6, <1>7 DEF ExportOK

\* The steps of an invocation that has an export.
LEMMA HandlerKeepsOK ==
    ASSUME ExportIInv, NEW w \in Workers, HandlerStep(w)
    PROVE  ExportOK'
  <1> DEFINE e == handling[w]
  <1> USE DEF ExportOK, RowsOK, ExportWorkersOK, ClaimsOK, SweepOK, Claimed, Quiet, Requested, Published
  <1>1. doing[w] # "idle" /\ e \in Exports /\ doing \in [Workers -> WorkerPC]
    <2>1. doing[w] # "idle"
      BY DEF HandlerStep, claim, Prepare, markFailed, putObject, putFails, markReady, discard,
             announce, At
    <2>2. QED  BY <2>1, HandledIsExport DEF ExportIInv
  <1>2. RowsOK /\ ClaimsOK /\ SweepOK
    BY DEF ExportIInv
  <1>3. ASSUME \/ LeavesOnly(w)
               \/ \E pc \in WorkerPC \ {"idle"} : Moves(w, pc)
        PROVE  /\ ExportWorkersOK'
               /\ \A v \in Workers : v # w => /\ handling'[v] = handling[v]
                                             /\ doing'[v] = doing[v]
    BY <1>1, <1>3, WorkersAfter
  <1>4. CASE claim(w)
    <2>1. CASE status[e] = "queued"
      <3>1. /\ status' = [status EXCEPT ![e] = "processing"]
            /\ Moves(w, "authorize")
            /\ UNCHANGED <<hasKey, due, old, objects, sweep, announced>>
        BY <1>4, <2>1 DEF claim, Goto, Moves, jobVars, clocks, Leaves
      <3>2. status'[e] = "processing" /\ \A f \in Exports : f # e => status'[f] = status[f]
        BY <1>1, <1>2, <3>1
      <3>3. RowsOK'
        BY <1>1, <1>2, <2>1, <3>1, <3>2 DEF Status, Open, Terminal
      <3>4. ExportWorkersOK' /\ doing'[w] = "authorize" /\ handling' = handling
            /\ \A v \in Workers : v # w => doing'[v] = doing[v]
        BY <1>1, <1>3, <3>1 DEF Moves, WorkerPC
      <3>5. \A v \in Workers : Claimed(v) => handling[v] \in Exports /\ handling[v] # e
        BY <1>2, <2>1, HandledIsExport DEF PastClaim
      <3>6. ClaimsOK'
        BY <1>1, <1>2, <2>1, <3>1, <3>2, <3>4, <3>5
      <3>7. SweepOK'
        BY <1>1, <1>2, <2>1, <3>1, <3>2, <3>4
      <3>8. QED  BY <3>3, <3>4, <3>6, <3>7
    <2>2. CASE status[e] # "queued"
      <3>1. LeavesOnly(w) /\ UNCHANGED <<rows, clocks, objects, sweep, announced>>
        BY <1>4, <2>2 DEF claim, Leaves, Returns, End, Goto, LeavesOnly, rows
      <3>2. QED  BY <1>1, <3>1, LeavingKeepsOK
    <2>3. QED  BY <2>1, <2>2
  \* Everything after the claim is done by the one invocation that won it.
  <1>5. ASSUME doing[w] \in PastClaim
        PROVE  /\ Requested(e) /\ e \notin old /\ announced[e] = 0
               /\ doing[w] = "announce" <=> Published(e)
               /\ doing[w] = "markReady" => e \in objects
               /\ \A v \in Workers : v # w /\ Claimed(v) => handling[v] \in Exports /\ handling[v] # e
               /\ sweep.pc \in {"owners", "remove"} => e \notin sweep.todo
               /\ doing[w] # "announce" => e \notin hasKey /\ status[e] \notin {"ready", "expired"}
    BY <1>1, <1>2, <1>5, HandledIsExport DEF PastClaim
  <1>6. CASE Prepare(w)
    <2>1. PICK pc \in {"load", "render", "put", "fail"} : Moves(w, pc)
      BY <1>6 DEF Prepare, Goto, Moves, jobVars
    <2>2. /\ doing[w] \in PastClaim /\ doing[w] # "announce"
          /\ UNCHANGED <<status, hasKey, due, old, objects, sweep, announced>>
      BY <1>6 DEF Prepare, At, PastClaim, WorkerPC, rows, clocks
    <2>3. /\ ExportWorkersOK' /\ doing'[w] = pc /\ handling' = handling /\ pc \in PastClaim
          /\ \A v \in Workers : v # w => doing'[v] = doing[v]
      BY <1>1, <1>3, <2>1 DEF Moves, WorkerPC, PastClaim
    <2>4. RowsOK'
      BY <1>2, <2>2
    <2>5. ClaimsOK'
      BY <1>2, <1>5, <2>2, <2>3
    <2>6. SweepOK'
      BY <1>2, <2>2, <2>3
    <2>7. QED  BY <2>3, <2>4, <2>5, <2>6
  <1>7. CASE markFailed(w)
    <2>1. /\ status' = [status EXCEPT ![e] = IF @ \in Open THEN "failed" ELSE @]
          /\ LeavesOnly(w) /\ doing[w] = "fail"
          /\ UNCHANGED <<hasKey, due, old, objects, sweep, announced>>
      BY <1>7 DEF markFailed, At, Leaves, Returns, End, Goto, LeavesOnly, clocks
    <2>2. \A f \in Exports : f # e => status'[f] = status[f]
      BY <1>2, <2>1
    <2>3. /\ status'[e] \in Status \ {"none", "queued", "ready", "expired"}
          /\ status[e] # "ready" /\ status[e] # "expired"
      <3>1. doing[w] \in PastClaim
        BY <2>1 DEF PastClaim, WorkerPC
      <3>2. status[e] \in {"processing", "failed", "cancelled"}
        BY <1>1, <1>2, <1>5, <2>1, <3>1 DEF Status, Open, Terminal
      <3>3. status'[e] \in {"failed", "cancelled"}
        BY <1>1, <1>2, <2>1, <3>2 DEF Open
      <3>4. QED  BY <3>2, <3>3 DEF Status, Terminal
    <2>4. RowsOK'
      BY <1>1, <1>2, <2>1, <2>2, <2>3
    <2>5. ExportWorkersOK' /\ ~Claimed(w)'
          /\ \A v \in Workers : v # w => doing'[v] = doing[v] /\ handling'[v] = handling[v]
      BY <1>1, <1>3, <2>1 DEF LeavesOnly, PastClaim
    <2>6. doing[w] \in PastClaim
      BY <2>1 DEF PastClaim, WorkerPC
    <2>7. ClaimsOK'
      BY <1>2, <1>5, <2>1, <2>2, <2>5, <2>6
    <2>8. SweepOK'
      BY <1>2, <1>5, <2>1, <2>2, <2>3, <2>5, <2>6
    <2>9. QED  BY <2>4, <2>5, <2>7, <2>8
  <1>8. CASE putObject(w) \/ putFails(w)
    <2>1. /\ doing[w] = "put" /\ objects \subseteq objects' /\ objects' \subseteq objects \cup {e}
          /\ UNCHANGED <<status, hasKey, due, old, sweep, announced>>
          /\ \/ Moves(w, "markReady") /\ e \in objects'
             \/ Moves(w, "fail")
      BY <1>8 DEF putObject, putFails, At, Goto, Moves, jobVars, intents, rows, clocks
    <2>2. /\ ExportWorkersOK' /\ handling' = handling
          /\ doing'[w] = "fail" \/ (doing'[w] = "markReady" /\ e \in objects')
          /\ \A v \in Workers : v # w => doing'[v] = doing[v]
      BY <1>1, <1>3, <2>1 DEF Moves, WorkerPC
    <2>3. doing[w] \in PastClaim /\ doing'[w] \in PastClaim /\ doing'[w] # "announce"
      BY <2>1, <2>2 DEF PastClaim, WorkerPC
    <2>4. RowsOK'
      BY <1>1, <1>2, <1>5, <2>1, <2>3
    <2>5. ClaimsOK'
      BY <1>2, <1>5, <2>1, <2>2, <2>3
    <2>6. SweepOK'
      BY <1>2, <2>1, <2>2, <2>3
    <2>7. QED  BY <2>2, <2>4, <2>5, <2>6
  <1>9. CASE markReady(w)
    <2>1. doing[w] = "markReady" /\ doing[w] \in PastClaim
          /\ UNCHANGED <<due, old, objects, sweep, announced>>
      BY <1>9 DEF markReady, At, PastClaim, WorkerPC, clocks
    <2>2. CASE status[e] = "processing"
      <3>1. /\ status' = [status EXCEPT ![e] = "ready"] /\ hasKey' = hasKey \cup {e}
            /\ Moves(w, "announce")
        BY <1>9, <2>2 DEF markReady, Goto, Moves, jobVars, rows
      <3>2. status'[e] = "ready" /\ \A f \in Exports : f # e => status'[f] = status[f]
        BY <1>1, <1>2, <3>1
      <3>3. RowsOK'
        BY <1>1, <1>2, <1>5, <2>1, <3>1, <3>2 DEF Status
      <3>4. /\ ExportWorkersOK' /\ handling' = handling /\ doing'[w] = "announce"
            /\ \A v \in Workers : v # w => doing'[v] = doing[v]
        BY <1>1, <1>3, <3>1 DEF Moves, WorkerPC
      <3>5. ClaimsOK'
        BY <1>2, <1>5, <2>1, <3>2, <3>4
      <3>6. SweepOK'
        <4>1. sweep.pc \in {"release", "clear"} => e \notin sweep.todo
          BY <1>2, <2>2
        <4>2. sweep.pc = "clear" => sweep.cur # e
          BY <1>2, <2>2
        <4>3. sweep.pc = "remove" => sweep.todo \cap hasKey' = {}
          BY <1>2, <1>5, <2>1, <3>1
        <4>4. sweep.pc \in {"owners", "remove"} => \A f \in sweep.todo : Requested(f)' /\ Quiet(f)'
          BY <1>2, <1>5, <2>1, <3>2, <3>4
        <4>5. QED  BY <1>2, <2>1, <3>2, <4>1, <4>2, <4>3, <4>4
      <3>7. QED  BY <3>3, <3>4, <3>5, <3>6
    <2>3. CASE status[e] # "processing"
      <3>1. Moves(w, "discard") /\ UNCHANGED <<status, hasKey>>
        BY <1>9, <2>3 DEF markReady, Goto, Moves, jobVars, rows
      <3>2. /\ ExportWorkersOK' /\ handling' = handling /\ doing'[w] = "discard"
            /\ \A v \in Workers : v # w => doing'[v] = doing[v]
        BY <1>1, <1>3, <3>1 DEF Moves, WorkerPC
      <3>3. RowsOK'
        BY <1>2, <2>1, <3>1
      <3>4. ClaimsOK'
        BY <1>2, <1>5, <2>1, <3>1, <3>2
      <3>5. SweepOK'
        BY <1>2, <2>1, <3>1, <3>2
      <3>6. QED  BY <3>2, <3>3, <3>4, <3>5
    <2>4. QED  BY <2>2, <2>3
  <1>10. CASE discard(w)
    <2>1. /\ doing[w] = "discard" /\ doing[w] \in PastClaim /\ LeavesOnly(w)
          /\ objects \ {e} \subseteq objects' /\ objects' \subseteq objects
          /\ old' = old
          /\ UNCHANGED <<status, hasKey, due, sweep, announced>>
      <3>1. doing[w] = "discard" /\ doing[w] \in PastClaim
        BY <1>10 DEF discard, At, PastClaim, WorkerPC
      <3>2. old' = old
        BY <1>5, <1>10, <3>1 DEF discard
      <3>3. QED  BY <1>10, <3>1, <3>2 DEF discard, End, Goto, LeavesOnly, rows
    <2>2. /\ ExportWorkersOK' /\ ~Claimed(w)'
          /\ \A v \in Workers : v # w => doing'[v] = doing[v] /\ handling'[v] = handling[v]
      BY <1>1, <1>3, <2>1 DEF LeavesOnly, PastClaim
    <2>3. RowsOK'
      BY <1>2, <1>5, <2>1
    <2>4. ClaimsOK'
      BY <1>2, <1>5, <2>1, <2>2
    <2>5. SweepOK'
      BY <1>2, <2>1, <2>2
    <2>6. QED  BY <2>2, <2>3, <2>4, <2>5
  <1>11. CASE announce(w)
    <2>1. /\ doing[w] = "announce" /\ doing[w] \in PastClaim /\ LeavesOnly(w)
          /\ announced' = announced \/ announced' = [announced EXCEPT ![e] = @ + 1]
          /\ UNCHANGED <<status, hasKey, due, old, objects, sweep>>
      BY <1>11 DEF announce, At, PastClaim, WorkerPC, End, Goto, LeavesOnly, rows, clocks
    <2>2. /\ ExportWorkersOK' /\ ~Claimed(w)'
          /\ \A v \in Workers : v # w => doing'[v] = doing[v] /\ handling'[v] = handling[v]
      BY <1>1, <1>3, <2>1 DEF LeavesOnly, PastClaim
    <2>3. RowsOK' /\ \A f \in Exports : f # e => announced'[f] = announced[f]
      BY <1>1, <1>2, <1>5, <2>1
    <2>4. ClaimsOK'
      BY <1>2, <1>5, <2>1, <2>2, <2>3
    <2>5. SweepOK'
      BY <1>2, <2>1, <2>2
    <2>6. QED  BY <2>2, <2>3, <2>4, <2>5
  <1>12. QED  BY <1>4, <1>6, <1>7, <1>8, <1>9, <1>10, <1>11 DEF HandlerStep

----------------------------------------------------------------------------
\* The invariant is inductive.
LEMMA ExportStepKeepsIInv == ExportIInv /\ [Next]_vars => ExportIInv'
  <1> SUFFICES ASSUME ExportIInv, [Next]_vars PROVE ExportIInv'
    OBVIOUS
  <1>1. ConsumerInv'
    BY ExportStepIsJobStep, JobStepKeepsInv, RestKeepsConsumerInv DEF ExportIInv
  <1>2. ASSUME Around \/ UNCHANGED vars,
               UNCHANGED <<handling, rows, clocks, objects, doing, sweep, announced>>
        PROVE  ExportOK'
    BY <1>2 DEF ExportIInv, ExportOK, RowsOK, ExportWorkersOK, ClaimsOK, SweepOK, Claimed, Quiet,
          Requested, Published, rows, clocks
  <1>3. ASSUME NEW w \in Workers, HandlerThrows(w) \/ HandlerDies(w)
        PROVE  ExportOK'
    <2>1. doing[w] # "idle"
      BY <1>3 DEF HandlerThrows, HandlerDies, Fails, Dies, End, ExportIInv, ExportWorkersOK
    <2>2. LeavesOnly(w) /\ UNCHANGED <<rows, clocks, objects, sweep, announced>>
      BY <1>3 DEF HandlerThrows, HandlerDies, Fails, Dies, End, Goto, LeavesOnly
    <2>3. QED  BY <2>1, <2>2, LeavingKeepsOK
  <1>4. ExportOK'
    <2>1. CASE Around /\ UNCHANGED <<rows, clocks, objects, doing, sweep, announced>>
      BY <2>1, <1>2 DEF Around, TimesOut, Refused, OperatorRetry
    <2>2. CASE UNCHANGED vars
      BY <2>2, <1>2 DEF vars, jobVars, rows, clocks
    <2>3. QED
      BY <1>3, <2>1, <2>2, RequestKeepsOK, DeliverKeepsOK, HandlerKeepsOK, SweepKeepsOK DEF Next
  <1>5. QED  BY <1>1, <1>4 DEF ExportOK, ExportIInv

\* What is settled for the requester stays so: export.worker.service.ts updates a
\* row only where it still finds it open.
LEMMA RowsStaySettled ==
    ASSUME ExportIInv, [Next]_vars, NEW e \in Exports
    PROVE  /\ status[e] \in Terminal => status'[e] = status[e]
           /\ status[e] = "ready" => status'[e] \in {"ready", "expired"}
  <1> USE DEF Terminal, Open
  <1>1. status \in [Exports -> Status]
    BY DEF ExportIInv, RowsOK
  <1>2. ASSUME NEW f \in Exports, create(f) \/ cancel(f)
        PROVE  status[f] \notin Terminal \cup {"ready"} /\ \A g \in Exports : g # f => status'[g] = status[g]
    BY <1>1, <1>2 DEF create, cancel
  <1>3. ASSUME NEW w \in Workers, claim(w) \/ markFailed(w) \/ markReady(w)
        PROVE  \/ status' = status
               \/ \E s \in Status : /\ status' = [status EXCEPT ![handling[w]] = s]
                                    /\ status[handling[w]] \in Open
    <2>1. CASE claim(w)
      BY <2>1 DEF claim, Status
    <2>2. CASE markFailed(w)
      BY <1>1, <2>2 DEF markFailed, Status
    <2>3. CASE markReady(w)
      BY <2>3 DEF markReady, rows, Status
    <2>4. QED  BY <1>3, <2>1, <2>2, <2>3
  <1>4. CASE UNCHANGED status
    BY <1>4
  <1>5. CASE SweepExpire
    BY <1>1, <1>5 DEF SweepExpire
  <1>6. QED
    BY <1>1, <1>2, <1>3, <1>4, <1>5
       DEF Next, HandlerStep, SweepStep, RetentionElapses, GrowOld, Deliver, Prepare, putObject,
           putFails, discard, announce, HandlerThrows, HandlerDies, SweepRelease, SweepClear,
           SweepList, SweepOwners, SweepRemove, SweepDies, rows, vars

\* An export is announced at most once and only when it is there, and the bytes of
\* a ready one are in the bucket: ExportWorkerService and the sweeps of
\* StorageMaintenanceService together.
THEOREM ExportsAreTrue == Spec => []ExportInv
  <1>1. ExportIInv => ExportInv
    BY DEF ExportIInv, ExportInv, TypeOK, ReadyExportHasBytes, AnnouncedOnceAndReady, RowsOK,
           ExportWorkersOK, SweepOK, ConsumerInv, ConsumerTypeOK, Published, Requested, Exports
  <1>2. QED  BY <1>1, ExportInitIInv, ExportStepKeepsIInv, PTL DEF Spec

\* The export.generate intent keeps the promise of the job pipeline, and the row
\* that was settled with it stays settled.
THEOREM ExportKeepsPromise == Spec => ExportsKeepPromise
  <1>1. Init => Promise!Init
    BY JobInitIsPromised DEF Init
  <1>2. ExportIInv /\ [Next]_vars => [Promise!Next]_phase
    BY ExportStepIsJobStep, JobStepIsPromised DEF ExportIInv, IntentsRest
  <1>3. ExportIInv /\ [Next]_vars =>
           [\A e \in Exports :
              /\ status[e] \in Terminal => status'[e] = status[e]
              /\ status[e] = "ready" => status'[e] \in {"ready", "expired"}]_vars
    BY RowsStaySettled
  <1>4. QED
    BY <1>1, <1>2, <1>3, ExportInitIInv, ExportStepKeepsIInv, PTL
       DEF Spec, ExportsKeepPromise, IntentsKeepPromise, Promise!Spec, SettledStaysSettled

----------------------------------------------------------------------------

----------------------------------------------------------------------------
(* Autosave: the invariant.                                                *)

Statuses == {"idle", "dirty", "saving", "saved", "retrying", "offline", "conflict", "error"}
Tabs ==
    [status : Statuses, version : Nat, savedDocument : Docs \cup {Null},
     savedPageSize : Sizes, pendingDocument : Docs \cup {Null},
     pendingPageSize : Sizes \cup {Null}, base : 0..MaxForeign,
     inFlight : Patch(0..MaxForeign), lastSaveId : Nat, attempt : 0..SaveAttempts,
     online : BOOLEAN, timers : SUBSET {"debounce", "retry"}]
Rows == [version : Nat, document : Docs, pageSize : Sizes]
Answers == [version : Nat, pageSize : Sizes]
SaveRequests ==
    [saveId : Nat, expected : Nat, document : Docs \cup {Null}, pageSize : Sizes \cup {Null},
     base : 0..MaxForeign,
     kind : {"sent", "ok", "conflict", "rejected", "unavailable"},
     answer : Answers \cup {Null}]

\* A request on its way, or its answer, and the row it meets.
RequestOK(r) ==
    /\ r \in SaveRequests
    /\ r.saveId # 0
    /\ r.expected <= note.version
    /\ r.kind = "sent" /\ r.expected = note.version => r.base = foreign
    /\ r.kind = "conflict" => r.expected < note.version
    /\ r.kind = "ok" => /\ r.answer \in Answers
                        /\ r.expected < r.answer.version /\ r.answer.version <= note.version

Fresh(s, requests) ==
    /\ s.inFlight.saveId <= s.lastSaveId
    /\ s.inFlight.saveId = 0 => Idle(s)
    /\ ~Idle(s) => s.inFlight.document # Null \/ s.inFlight.pageSize # Null
    /\ \A r \in requests : r.saveId \in 0..s.lastSaveId

\* A tab whose version is the row's includes every write of somebody else, in what it
\* shows, in what it has queued and in what it has sent.
Grounded(s, seen) ==
    /\ s.version <= note.version
    /\ s.version = note.version =>
          /\ seen = foreign
          /\ hasPendingWork(s) => s.base = foreign
          /\ ~Idle(s) => s.inFlight.base = foreign

\* The open request of the tab is what it holds in flight ...
Matches(r, s) ==
    /\ r.document = s.inFlight.document
    /\ r.pageSize = s.inFlight.pageSize
    /\ r.base = s.inFlight.base
    /\ r.expected = s.version

\* ... and the version its answer will bring stands for the same.
AnswerOK(r, s, seen) ==
    r.kind = "ok" /\ r.answer.version = note.version =>
        /\ seen = foreign
        /\ hasPendingWork(s) => s.base = foreign
        /\ ~room => /\ note.pageSize = r.answer.pageSize
                    /\ Else(r.document, s.savedDocument) \in {Null, note.document}

Covered(s, requests, seen) ==
    \A r \in requests :
        r.saveId = s.inFlight.saveId => Matches(r, s) /\ AnswerOK(r, s, seen)

SavedOK(s) ==
    ~room /\ s.version = note.version =>
        /\ note.pageSize = s.savedPageSize
        /\ s.savedDocument \in {Null, note.document}

\* A tab whose requests are these and that shows so many writes of others.
Core(s, requests, seen) ==
    /\ s \in Tabs
    /\ Fresh(s, requests)
    /\ Grounded(s, seen)
    /\ Covered(s, requests, seen)
    /\ SavedOK(s)

ConflictOK(s) ==
    s.status = "conflict" => /\ s.timers = {}
                             /\ Idle(s)
                             /\ room \/ s.version < note.version
StatusOK(s) ==
    /\ s.status = "saving" => ~Idle(s)
    /\ s.status = "dirty" => hasPendingWork(s)
    /\ s.status \in {"offline", "error"} => s.timers = {}
    /\ ConflictOK(s)

RenderOK ==
    /\ render.row \in Rows
    /\ render.foreign \in 0..foreign
    /\ render.row.version <= note.version
    /\ render.row.version = note.version => render.foreign = foreign /\ render.row = note
    /\ ~room /\ render.row.version = seed.version => render.foreign = view

PageOK ==
    /\ note \in Rows /\ shown \in Docs /\ seed \in Answers
    /\ room \in BOOLEAN /\ open \in BOOLEAN
    /\ foreign \in 0..MaxForeign /\ view \in 0..foreign
    /\ seed.version <= note.version
    /\ ~room /\ seed.version = note.version => view = foreign
    /\ render # Null => RenderOK

RoomOK ==
    /\ projected \in Seq(Nat)
    /\ \A k \in 1..Len(projected) : projected[k] <= note.version
    /\ room => view = foreign
    /\ ~room => projected = <<>>

SentOK == \A r \in wire : RequestOK(r)

TabOK ==
    /\ tab \in Tabs
    /\ Grounded(tab, view)
    /\ SavedOK(tab)
    /\ StatusOK(tab)
    /\ ~Idle(tab) => tab.inFlight.document # Null \/ tab.inFlight.pageSize # Null
    /\ ~room => seed.version <= tab.version
    /\ open => Core(tab, wire, view)

TabIInv == PageOK /\ RoomOK /\ SentOK /\ TabOK

----------------------------------------------------------------------------
(* The reducer.                                                            *)

\* Another status, timers, attempts or network: the work of the tab is the same.
SameWork(s, t) ==
    /\ t \in Tabs
    /\ t.version = s.version
    /\ t.savedDocument = s.savedDocument /\ t.savedPageSize = s.savedPageSize
    /\ t.pendingDocument = s.pendingDocument /\ t.pendingPageSize = s.pendingPageSize
    /\ t.base = s.base /\ t.inFlight = s.inFlight /\ t.lastSaveId = s.lastSaveId

LEMMA SameWorkKeeps ==
    ASSUME NEW s, NEW t, NEW requests, NEW seen, Core(s, requests, seen), SameWork(s, t)
    PROVE  Core(t, requests, seen) /\ Held(t) = Held(s)
  BY DEF Core, SameWork, Fresh, Grounded, Covered, Matches, AnswerOK, SavedOK, Held, Idle,
         hasPendingWork

LEMMA FewerRequests ==
    ASSUME NEW s, NEW requests, NEW fewer \in SUBSET requests, NEW seen,
           Core(s, requests, seen)
    PROVE  Core(s, fewer, seen)
  BY DEF Core, Fresh, Covered

\* What is worth saving no more drops out of the queue, and the text with it only where
\* the server will hold the same.
LEMMA NormalizeIs ==
    ASSUME NEW s \in Tabs, NEW t, t = normalizePending(s)
    PROVE  /\ t \in Tabs
           /\ t.pendingDocument = IF s.pendingDocument = Else(s.inFlight.document, s.savedDocument)
                                  THEN Null ELSE s.pendingDocument
           /\ t.pendingPageSize = IF s.pendingPageSize = Else(s.inFlight.pageSize, s.savedPageSize)
                                  THEN Null ELSE s.pendingPageSize
           /\ t.version = s.version /\ t.status = s.status /\ t.timers = s.timers
           /\ t.savedDocument = s.savedDocument /\ t.savedPageSize = s.savedPageSize
           /\ t.base = s.base /\ t.inFlight = s.inFlight /\ t.lastSaveId = s.lastSaveId
           /\ t.attempt = s.attempt /\ t.online = s.online
  BY DEF normalizePending, Tabs

LEMMA NormalizeKeeps ==
    ASSUME NEW s, NEW requests, NEW seen, Core(s, requests, seen)
    PROVE  /\ Core(normalizePending(s), requests, seen)
           /\ Held(normalizePending(s)) = Held(s)
           /\ ConflictOK(s) => ConflictOK(normalizePending(s))
  <1> DEFINE t == normalizePending(s)
  <1>1. s \in Tabs
    BY DEF Core
  <1>2. /\ t \in Tabs
        /\ t.pendingDocument = IF s.pendingDocument = Else(s.inFlight.document, s.savedDocument)
                               THEN Null ELSE s.pendingDocument
        /\ t.pendingPageSize = IF s.pendingPageSize = Else(s.inFlight.pageSize, s.savedPageSize)
                               THEN Null ELSE s.pendingPageSize
        /\ t.version = s.version /\ t.status = s.status /\ t.timers = s.timers
        /\ t.savedDocument = s.savedDocument /\ t.savedPageSize = s.savedPageSize
        /\ t.base = s.base /\ t.inFlight = s.inFlight /\ t.lastSaveId = s.lastSaveId
    BY <1>1, NormalizeIs
  <1> HIDE DEF t
  <1>3. hasPendingWork(t) => hasPendingWork(s)
    BY <1>2 DEF hasPendingWork
  <1>4. Core(t, requests, seen)
    BY <1>2, <1>3 DEF Core, Fresh, Grounded, Covered, Matches, AnswerOK, SavedOK, Idle
  <1>5. Held(t) = Held(s)
    BY <1>2 DEF Held, Else
  <1>6. ConflictOK(s) => ConflictOK(t)
    BY <1>2 DEF ConflictOK, Idle
  <1> QED  BY <1>4, <1>5, <1>6 DEF t

LEMMA StartIs ==
    ASSUME NEW s \in Tabs, NEW t, t = startSave(s)
    PROVE  /\ t \in Tabs
           /\ t.status = "saving" /\ t.timers = {}
           /\ t.pendingDocument = Null /\ t.pendingPageSize = Null
           /\ t.lastSaveId = s.lastSaveId + 1
           /\ t.inFlight = [saveId |-> s.lastSaveId + 1, document |-> s.pendingDocument,
                            pageSize |-> s.pendingPageSize, base |-> s.base]
           /\ t.version = s.version /\ t.base = s.base
           /\ t.savedDocument = s.savedDocument /\ t.savedPageSize = s.savedPageSize
  <1> DEFINE patch == [saveId |-> s.lastSaveId + 1, document |-> s.pendingDocument,
                       pageSize |-> s.pendingPageSize, base |-> s.base]
  <1>1. patch \in Patch(0..MaxForeign) /\ s.lastSaveId + 1 \in Nat
    BY DEF Tabs, Patch
  <1>2. t = [s EXCEPT !.status = "saving", !.lastSaveId = s.lastSaveId + 1,
                      !.inFlight = patch, !.pendingDocument = Null,
                      !.pendingPageSize = Null, !.timers = {}]
    BY DEF startSave
  <1> HIDE DEF patch
  <1>3. /\ t.status = "saving" /\ t.timers = {}
        /\ t.pendingDocument = Null /\ t.pendingPageSize = Null
        /\ t.lastSaveId = s.lastSaveId + 1 /\ t.inFlight = patch
        /\ t.version = s.version /\ t.base = s.base
        /\ t.savedDocument = s.savedDocument /\ t.savedPageSize = s.savedPageSize
    BY <1>2 DEF Tabs
  <1>4. t \in Tabs
    <2>1. "saving" \in Statuses /\ {} \in SUBSET {"debounce", "retry"}
      BY DEF Statuses
    <2> DEFINE With(saving, id, p, timers) ==
                 [s EXCEPT !.status = saving, !.lastSaveId = id, !.inFlight = p,
                           !.pendingDocument = Null, !.pendingPageSize = Null,
                           !.timers = timers]
    <2>2. \A saving \in Statuses, id \in Nat, p \in Patch(0..MaxForeign),
             timers \in SUBSET {"debounce", "retry"} : With(saving, id, p, timers) \in Tabs
      BY DEF Tabs
    <2>3. t = With("saving", s.lastSaveId + 1, patch, {})
      BY <1>2
    <2> HIDE DEF With
    <2> QED  BY <1>1, <2>1, <2>2, <2>3, Zenon
  <1> QED
    BY <1>3, <1>4 DEF patch

\* A save begins: its request says what the tab holds in flight.
LEMMA StartKeeps ==
    ASSUME TabAssumption, note \in Rows, foreign \in 0..MaxForeign,
           NEW s, NEW requests, NEW seen,
           Core(s, requests, seen), Idle(s), hasPendingWork(s)
    PROVE  LET t == startSave(s)
           IN  /\ Core(t, requests \cup {Request(t)}, seen)
               /\ RequestOK(Request(t))
               /\ StatusOK(t)
               /\ Held(t) = Held(s)
  <1> DEFINE t == startSave(s)
  <1> DEFINE r == Request(t)
  <1>1. s \in Tabs
    BY DEF Core
  <1>2. /\ t \in Tabs
        /\ t.status = "saving" /\ t.timers = {}
        /\ t.pendingDocument = Null /\ t.pendingPageSize = Null
        /\ t.lastSaveId = s.lastSaveId + 1
        /\ t.inFlight = [saveId |-> s.lastSaveId + 1, document |-> s.pendingDocument,
                         pageSize |-> s.pendingPageSize, base |-> s.base]
        /\ t.version = s.version /\ t.base = s.base
        /\ t.savedDocument = s.savedDocument /\ t.savedPageSize = s.savedPageSize
    BY <1>1, StartIs
  <1>3. /\ s.lastSaveId \in Nat /\ s.version \in Nat /\ s.base \in 0..MaxForeign
        /\ s.pendingDocument \in Docs \cup {Null} /\ s.pendingPageSize \in Sizes \cup {Null}
    BY <1>1 DEF Tabs
  <1>4. /\ r.saveId = t.inFlight.saveId /\ r.expected = s.version
        /\ r.document = s.pendingDocument /\ r.pageSize = s.pendingPageSize
        /\ r.base = s.base /\ r.kind = "sent" /\ r.answer = Null
    BY <1>2 DEF Request
  <1>5. r \in SaveRequests
    BY <1>2, <1>3 DEF Request, SaveRequests
  <1> HIDE DEF t, r
  <1>6. ~Idle(t) /\ ~hasPendingWork(t)
    BY <1>2, <1>3 DEF Idle, NoSave, hasPendingWork
  <1>7. RequestOK(r)
    BY <1>2, <1>3, <1>4, <1>5 DEF RequestOK, Core, Grounded
  <1>8. Fresh(t, requests \cup {r})
    <2>1. \A q \in requests : q.saveId \in 0..t.lastSaveId
      BY <1>2, <1>3 DEF Core, Fresh
    <2>2. r.saveId \in 0..t.lastSaveId
      BY <1>2, <1>3, <1>4
    <2>3. t.inFlight.saveId <= t.lastSaveId /\ t.inFlight.saveId # 0
      BY <1>2, <1>3
    <2>4. t.inFlight.document # Null \/ t.inFlight.pageSize # Null
      BY <1>2 DEF hasPendingWork
    <2> QED
      BY <2>1, <2>2, <2>3, <2>4 DEF Fresh
  <1>9. Grounded(t, seen)
    BY <1>2, <1>6 DEF Core, Grounded
  <1>10. Covered(t, requests \cup {r}, seen)
    <2>1. \A q \in requests : q.saveId # t.inFlight.saveId
      BY <1>2, <1>3 DEF Core, Fresh
    <2>2. Matches(r, t) /\ AnswerOK(r, t, seen)
      BY <1>2, <1>4 DEF Matches, AnswerOK
    <2> QED
      BY <2>1, <2>2 DEF Covered
  <1>11. SavedOK(t)
    BY <1>2 DEF Core, SavedOK
  <1>12. StatusOK(t)
    BY <1>2, <1>6 DEF StatusOK, ConflictOK
  <1>13. Held(t) = Held(s)
    BY <1>2 DEF Held, Else, Idle, NoSave
  <1>14. Core(t, requests \cup {r}, seen)
    BY <1>2, <1>8, <1>9, <1>10, <1>11 DEF Core
  <1> QED
    BY <1>7, <1>12, <1>13, <1>14 DEF t, r

\* What an operation of the reducer leaves: the work of the tab is consistent with its
\* requests and with a new one, if it sends one, and it holds the same text.
Sends(s, t, requests) ==
    requests \cup IF t.lastSaveId > s.lastSaveId THEN {Request(t)} ELSE {}

Working(s, t, requests, seen) ==
    /\ Core(t, Sends(s, t, requests), seen)
    /\ t.lastSaveId > s.lastSaveId => RequestOK(Request(t))
    /\ StatusOK(t)
    /\ ~room => s.version <= t.version

Reduced(s, t, requests, seen) == Working(s, t, requests, seen) /\ Held(t) = Held(s)

EnvOK == TabAssumption /\ note \in Rows /\ foreign \in 0..MaxForeign

LEMMA RestatedIsReduced ==
    ASSUME NEW s, NEW t, NEW requests, NEW seen,
           Core(s, requests, seen), SameWork(s, t), StatusOK(t)
    PROVE  Reduced(s, t, requests, seen)
  <1>1. /\ Sends(s, t, requests) = requests /\ ~(t.lastSaveId > s.lastSaveId)
        /\ s.version <= t.version
    BY DEF SameWork, Tabs, Sends
  <1> QED
    BY <1>1, SameWorkKeeps DEF Reduced, Working, SameWork, Tabs

Restated(s, state, timers) == [s EXCEPT !.status = state, !.timers = timers]

LEMMA RestatedIs ==
    ASSUME NEW s \in Tabs, NEW state \in Statuses, NEW timers \in SUBSET {"debounce", "retry"}
    PROVE  LET t == Restated(s, state, timers)
           IN  SameWork(s, t) /\ t.status = state /\ t.timers = timers
  <1>1. Restated(s, state, timers) \in Tabs
    BY DEF Restated, Tabs
  <1> QED  BY <1>1 DEF Restated, SameWork, Tabs

LEMMA StartedIsReduced ==
    ASSUME EnvOK, NEW s, NEW requests, NEW seen,
           Core(s, requests, seen), Idle(s), hasPendingWork(s)
    PROVE  Reduced(s, startSave(s), requests, seen)
  <1> DEFINE t == startSave(s)
  <1>1. s \in Tabs /\ s.lastSaveId \in Nat
    BY DEF Core, Tabs
  <1>2. t.lastSaveId = s.lastSaveId + 1 /\ t.version = s.version
    BY <1>1, StartIs DEF EnvOK
  <1>3. t.lastSaveId > s.lastSaveId /\ s.version <= t.version
    BY <1>1, <1>2 DEF Tabs
  <1>4. /\ Core(t, requests \cup {Request(t)}, seen)
        /\ RequestOK(Request(t)) /\ StatusOK(t) /\ Held(t) = Held(s)
    BY StartKeeps DEF EnvOK
  <1> HIDE DEF t
  <1>5. Sends(s, t, requests) = requests \cup {Request(t)}
    BY <1>3 DEF Sends
  <1> QED
    BY <1>3, <1>4, <1>5 DEF Reduced, Working, t

\* scheduleQueued: a queue waits for the network, for the open request, for its timer or
\* for the reader of a conflict, or is sent.
LEMMA ScheduleKeeps ==
    ASSUME EnvOK, NEW s, NEW requests, NEW seen, NEW debounce \in BOOLEAN,
           Core(s, requests, seen), ConflictOK(s)
    PROVE  Reduced(s, scheduleQueued(s, debounce), requests, seen)
  <1> DEFINE t == scheduleQueued(s, debounce)
  <1>1. s \in Tabs
    BY DEF Core
  <1>2. /\ s.status \in Statuses /\ s.timers \in SUBSET {"debounce", "retry"}
        /\ s.online \in BOOLEAN
    BY <1>1 DEF Tabs
  <1>3. CASE ~hasPendingWork(s)
    <2>1. t = Restated(s, restingStatus(s), s.timers \ {"debounce"})
      BY <1>3 DEF scheduleQueued, Restated
    <2>2. restingStatus(s) \in Statuses
          /\ (restingStatus(s) = "saving" => ~Idle(s))
          /\ (restingStatus(s) = "conflict" => s.status = "conflict")
          /\ restingStatus(s) \notin {"dirty", "offline", "error"}
      BY DEF restingStatus, Statuses
    <2>3. t.status = restingStatus(s) /\ t.timers = s.timers \ {"debounce"} /\ SameWork(s, t)
      BY <1>1, <1>2, <2>1, <2>2, RestatedIs
    <2> HIDE DEF t
    <2>4. StatusOK(t)
      BY <2>2, <2>3 DEF StatusOK, ConflictOK, SameWork, Idle
    <2> QED  BY <2>3, <2>4, RestatedIsReduced DEF t
  <1>4. CASE hasPendingWork(s) /\ s.status = "conflict"
    <2>1. t = [s EXCEPT !.timers = {}]
      BY <1>4 DEF scheduleQueued
    <2>2. t.status = s.status /\ t.timers = {} /\ SameWork(s, t)
      BY <1>1, <1>2, <2>1 DEF SameWork, Tabs
    <2> HIDE DEF t
    <2>3. StatusOK(t)
      BY <1>4, <2>2 DEF StatusOK, ConflictOK, SameWork, Idle
    <2> QED  BY <2>2, <2>3, RestatedIsReduced DEF t
  <1>5. CASE hasPendingWork(s) /\ s.status # "conflict" /\ ~s.online
    <2>1. t = [s EXCEPT !.status = "offline", !.timers = {}]
      BY <1>5 DEF scheduleQueued
    <2>2. t.status = "offline" /\ t.timers = {} /\ SameWork(s, t)
      BY <1>1, <1>2, <2>1 DEF SameWork, Tabs, Statuses
    <2> HIDE DEF t
    <2>3. StatusOK(t)
      BY <2>2 DEF StatusOK, ConflictOK
    <2> QED  BY <2>2, <2>3, RestatedIsReduced DEF t
  <1>6. CASE hasPendingWork(s) /\ s.status # "conflict" /\ s.online /\ ~Idle(s)
    <2>1. t = [s EXCEPT !.status = "saving"]
      BY <1>6 DEF scheduleQueued
    <2>2. t.status = "saving" /\ SameWork(s, t)
      BY <1>1, <1>2, <2>1 DEF SameWork, Tabs, Statuses
    <2> HIDE DEF t
    <2>3. StatusOK(t)
      BY <1>6, <2>2 DEF StatusOK, ConflictOK, SameWork, Idle
    <2> QED  BY <2>2, <2>3, RestatedIsReduced DEF t
  <1>7. CASE hasPendingWork(s) /\ s.online /\ Idle(s) /\ s.status = "retrying"
    <2>1. t = s
      BY <1>7 DEF scheduleQueued
    <2>2. SameWork(s, t) /\ t.status = "retrying"
      BY <1>1, <1>7, <2>1 DEF SameWork
    <2> HIDE DEF t
    <2>3. StatusOK(t)
      BY <2>2 DEF StatusOK, ConflictOK
    <2> QED  BY <2>2, <2>3, RestatedIsReduced DEF t
  <1>8. CASE hasPendingWork(s) /\ s.status \notin {"conflict", "retrying"} /\ s.online
             /\ Idle(s) /\ ~debounce
    <2>1. t = startSave(s)
      BY <1>8 DEF scheduleQueued
    <2> QED  BY <1>8, <2>1, StartedIsReduced
  <1>9. CASE hasPendingWork(s) /\ s.status \notin {"conflict", "retrying"} /\ s.online
             /\ Idle(s) /\ debounce
    <2>1. t = Restated(s, "dirty", s.timers \cup {"debounce"})
      BY <1>9 DEF scheduleQueued, Restated
    <2>2. t.status = "dirty" /\ SameWork(s, t)
      <3>1. "dirty" \in Statuses /\ s.timers \cup {"debounce"} \in SUBSET {"debounce", "retry"}
        BY <1>2 DEF Statuses
      <3> QED  BY <1>1, <2>1, <3>1, RestatedIs
    <2> HIDE DEF t
    <2>3. StatusOK(t)
      BY <1>9, <2>2 DEF StatusOK, ConflictOK, SameWork, hasPendingWork
    <2> QED  BY <2>2, <2>3, RestatedIsReduced DEF t
  <1> QED
    BY <1>2, <1>3, <1>4, <1>5, <1>6, <1>7, <1>8, <1>9

\* An edit is composed on what the tab shows.  While the version it is queued on is the
\* row's, or the answer under way brings the row's, the tab shows every write of others.
Edited(document, pageSize) ==
    [tab EXCEPT !.pendingDocument = Else(document, @),
                !.pendingPageSize = Else(pageSize, @),
                !.base = IF hasPendingWork(tab) THEN @ ELSE view]

LEMMA EditKeeps ==
    ASSUME EnvOK, view \in 0..foreign, NEW requests,
           Core(tab, requests, view), ConflictOK(tab),
           \A r \in requests : RequestOK(r),
           NEW document \in Docs \cup {Null}, NEW pageSize \in Sizes \cup {Null},
           NEW t, t = Edited(document, pageSize)
    PROVE  /\ Core(t, requests, view) /\ ConflictOK(t)
           /\ t.lastSaveId = tab.lastSaveId /\ t.version = tab.version
           /\ Held(t) = IF document # Null THEN document ELSE Held(tab)
  <1>1. tab \in Tabs
    BY DEF Core
  <1>2. view \in 0..MaxForeign
    BY DEF EnvOK, TabAssumption
  <1>3. /\ tab.pendingDocument \in Docs \cup {Null} /\ tab.pendingPageSize \in Sizes \cup {Null}
        /\ tab.base \in 0..MaxForeign
    BY <1>1 DEF Tabs
  <1>4. /\ t \in Tabs
        /\ t.pendingDocument = Else(document, tab.pendingDocument)
        /\ t.base = IF hasPendingWork(tab) THEN tab.base ELSE view
        /\ t.version = tab.version /\ t.status = tab.status /\ t.timers = tab.timers
        /\ t.savedDocument = tab.savedDocument /\ t.savedPageSize = tab.savedPageSize
        /\ t.inFlight = tab.inFlight /\ t.lastSaveId = tab.lastSaveId
    <2> DEFINE doc == Else(document, tab.pendingDocument)
               size == Else(pageSize, tab.pendingPageSize)
               base == IF hasPendingWork(tab) THEN tab.base ELSE view
    <2>1. t = [tab EXCEPT !.pendingDocument = doc, !.pendingPageSize = size, !.base = base]
      BY DEF Edited
    <2>2. doc \in Docs \cup {Null} /\ size \in Sizes \cup {Null} /\ base \in 0..MaxForeign
      BY <1>2, <1>3 DEF Else
    <2> HIDE DEF doc, size, base
    <2>3. t \in Tabs
      BY <1>1, <2>1, <2>2 DEF Tabs
    <2>4. /\ t.pendingDocument = doc /\ t.base = base
          /\ t.version = tab.version /\ t.status = tab.status /\ t.timers = tab.timers
          /\ t.savedDocument = tab.savedDocument /\ t.savedPageSize = tab.savedPageSize
          /\ t.inFlight = tab.inFlight /\ t.lastSaveId = tab.lastSaveId
      BY <1>1, <2>1 DEF Tabs
    <2> QED
      BY <2>3, <2>4 DEF doc, base
  <1>5. Held(t) = IF document # Null THEN document ELSE Held(tab)
    BY <1>4 DEF Held, Else
  <1>6. ConflictOK(t)
    BY <1>4 DEF ConflictOK, Idle
  <1>7. Grounded(t, view)
    BY <1>4 DEF Core, Grounded, Idle
  <1>8. Covered(t, requests, view)
    BY <1>4 DEF Core, Covered, Matches, AnswerOK
  <1>9. Fresh(t, requests) /\ SavedOK(t)
    BY <1>4 DEF Core, Fresh, SavedOK, Idle
  <1> QED
    BY <1>4, <1>5, <1>6, <1>7, <1>8, <1>9 DEF Core

LEMMA QueueKeeps ==
    ASSUME EnvOK, view \in 0..foreign, NEW requests,
           Core(tab, requests, view), ConflictOK(tab),
           \A r \in requests : RequestOK(r),
           NEW document \in Docs \cup {Null}, NEW pageSize \in Sizes \cup {Null},
           NEW debounce \in BOOLEAN
    PROVE  LET t == queue(tab, document, pageSize, debounce)
           IN  /\ Working(tab, t, requests, view)
               /\ Held(t) = IF document # Null THEN document ELSE Held(tab)
  <1> DEFINE edited == Edited(document, pageSize)
  <1> DEFINE normal == normalizePending(edited)
  <1> DEFINE t == scheduleQueued(normal, debounce)
  <1>1. queue(tab, document, pageSize, debounce) = t
    BY DEF queue, Edited
  <1>2. /\ Core(edited, requests, view) /\ ConflictOK(edited)
        /\ edited.lastSaveId = tab.lastSaveId /\ edited.version = tab.version
        /\ Held(edited) = IF document # Null THEN document ELSE Held(tab)
    BY EditKeeps
  <1> HIDE DEF edited
  <1>3. edited \in Tabs
    BY <1>2 DEF Core
  <1>4. /\ Core(normal, requests, view) /\ ConflictOK(normal)
        /\ Held(normal) = Held(edited)
        /\ normal.lastSaveId = edited.lastSaveId /\ normal.version = edited.version
    BY <1>2, <1>3, NormalizeKeeps, NormalizeIs
  <1> HIDE DEF normal
  <1>5. Reduced(normal, t, requests, view)
    BY <1>4, ScheduleKeeps
  <1> HIDE DEF t
  <1>6. Sends(normal, t, requests) = Sends(tab, t, requests)
    BY <1>2, <1>4 DEF Sends
  <1> QED
    BY <1>1, <1>2, <1>4, <1>5, <1>6 DEF Reduced, Working


\* The answer to the open request says what the tab may take for saved.
Acknowledged(s, answer) ==
    [s EXCEPT !.version = answer.version,
              !.savedDocument = Else(s.inFlight.document, @),
              !.savedPageSize = answer.pageSize,
              !.inFlight = NoSave,
              !.attempt = 0,
              !.status = "saved"]

LEMMA AcknowledgeKeeps ==
    ASSUME EnvOK, NEW s, NEW requests, NEW seen, NEW r \in requests,
           Core(s, requests, seen), \A q \in requests : RequestOK(q),
           r.saveId = s.inFlight.saveId, r.kind = "ok"
    PROVE  LET t == Acknowledged(s, r.answer)
           IN  /\ Core(t, requests \ {r}, seen)
               /\ t.status = "saved" /\ Held(t) = Held(s)
               /\ t.lastSaveId = s.lastSaveId /\ s.version <= t.version
  <1> DEFINE t == Acknowledged(s, r.answer)
  <1>1. s \in Tabs
    BY DEF Core
  <1>2. /\ RequestOK(r) /\ r \in SaveRequests /\ r.answer \in Answers
        /\ Matches(r, s) /\ AnswerOK(r, s, seen)
    BY DEF RequestOK, Core, Covered
  <1>3. /\ r.answer.version \in Nat /\ r.answer.pageSize \in Sizes
        /\ r.answer.version <= note.version /\ s.version < r.answer.version
    BY <1>2 DEF Answers, RequestOK, Matches
  <1>4. /\ NoSave \in Patch(0..MaxForeign) /\ NoSave.saveId = 0 /\ NoSave.document = Null
        /\ 0 \in 0..SaveAttempts
    BY DEF NoSave, Patch, EnvOK, TabAssumption
  <1>5. s.inFlight \in Patch(0..MaxForeign) /\ s.savedDocument \in Docs \cup {Null}
        /\ s.lastSaveId \in Nat /\ s.version \in Nat
    BY <1>1 DEF Tabs
  <1>6. Else(s.inFlight.document, s.savedDocument) \in Docs \cup {Null}
    BY <1>5 DEF Patch, Else
  <1>7. /\ t \in Tabs
        /\ t.version = r.answer.version /\ t.savedPageSize = r.answer.pageSize
        /\ t.savedDocument = Else(s.inFlight.document, s.savedDocument)
        /\ t.pendingDocument = s.pendingDocument /\ t.pendingPageSize = s.pendingPageSize
        /\ t.base = s.base /\ t.inFlight = NoSave /\ t.lastSaveId = s.lastSaveId
        /\ t.status = "saved"
    <2> DEFINE saved == Else(s.inFlight.document, s.savedDocument)
    <2>1. t = [s EXCEPT !.version = r.answer.version, !.savedDocument = saved,
                        !.savedPageSize = r.answer.pageSize, !.inFlight = NoSave,
                        !.attempt = 0, !.status = "saved"]
      BY DEF Acknowledged
    <2>2. saved \in Docs \cup {Null} /\ "saved" \in Statuses
      BY <1>6 DEF Statuses
    <2> HIDE DEF t, saved
    <2>3. t \in Tabs
      BY <1>1, <1>3, <1>4, <2>1, <2>2 DEF Tabs
    <2>4. /\ t.version = r.answer.version /\ t.savedPageSize = r.answer.pageSize
          /\ t.savedDocument = saved
          /\ t.pendingDocument = s.pendingDocument /\ t.pendingPageSize = s.pendingPageSize
          /\ t.base = s.base /\ t.inFlight = NoSave /\ t.lastSaveId = s.lastSaveId
          /\ t.status = "saved"
      BY <1>1, <2>1 DEF Tabs
    <2> QED
      BY <2>3, <2>4 DEF saved
  <1> HIDE DEF t
  <1>8. Held(t) = Held(s)
    BY <1>4, <1>7 DEF Held, Else
  <1>9. Fresh(t, requests \ {r})
    BY <1>4, <1>5, <1>7 DEF Core, Fresh, Idle
  <1>10. Grounded(t, seen)
    BY <1>2, <1>3, <1>7 DEF Grounded, AnswerOK, Idle, hasPendingWork
  <1>11. Covered(t, requests \ {r}, seen)
    BY <1>4, <1>7 DEF Covered, RequestOK
  <1>12. SavedOK(t)
    BY <1>2, <1>7 DEF SavedOK, AnswerOK, Matches
  <1>13. Core(t, requests \ {r}, seen)
    BY <1>7, <1>9, <1>10, <1>11, <1>12 DEF Core
  <1> QED
    BY <1>3, <1>5, <1>7, <1>8, <1>13 DEF t

LEMMA SuccessKeeps ==
    ASSUME EnvOK, NEW s, NEW requests, NEW seen, NEW r \in requests,
           Core(s, requests, seen), \A q \in requests : RequestOK(q),
           r.saveId = s.inFlight.saveId, r.kind = "ok"
    PROVE  Reduced(s, onSaveSucceeded(s, r.answer), requests \ {r}, seen)
  <1> DEFINE heard == Acknowledged(s, r.answer)
  <1> DEFINE normal == normalizePending(heard)
  <1> DEFINE t == scheduleQueued(normal, normal.pendingPageSize = Null)
  <1>1. onSaveSucceeded(s, r.answer) = t
    BY DEF onSaveSucceeded, Acknowledged
  <1>2. /\ Core(heard, requests \ {r}, seen)
        /\ heard.status = "saved" /\ Held(heard) = Held(s)
        /\ heard.lastSaveId = s.lastSaveId /\ s.version <= heard.version
    BY AcknowledgeKeeps
  <1> HIDE DEF heard
  <1>3. heard \in Tabs /\ s \in Tabs
    BY <1>2 DEF Core
  <1>4. /\ Core(normal, requests \ {r}, seen)
        /\ Held(normal) = Held(heard) /\ normal.status = heard.status
        /\ normal.lastSaveId = heard.lastSaveId /\ normal.version = heard.version
    BY <1>2, <1>3, NormalizeKeeps, NormalizeIs
  <1>5. normal \in Tabs
    BY <1>4 DEF Core
  <1> HIDE DEF normal
  <1>6. ConflictOK(normal)
    BY <1>2, <1>4 DEF ConflictOK
  <1>7. Reduced(normal, t, requests \ {r}, seen)
    BY <1>4, <1>6, ScheduleKeeps
  <1>8. t \in Tabs
    BY <1>7 DEF Reduced, Working, Core
  <1> HIDE DEF t
  <1>9. /\ Sends(normal, t, requests \ {r}) = Sends(s, t, requests \ {r})
        /\ normal.lastSaveId = s.lastSaveId
    BY <1>2, <1>4 DEF Sends
  <1>10. ~room => s.version <= t.version
    BY <1>2, <1>3, <1>4, <1>5, <1>7, <1>8 DEF Reduced, Working, Tabs
  <1> QED
    BY <1>1, <1>2, <1>4, <1>7, <1>9, <1>10 DEF Reduced, Working

\* requeue: the open request is given up, and what it carried is queued again on the
\* base it was composed on.
Requeued(s, keepSettings) ==
    [s EXCEPT !.inFlight = NoSave,
              !.pendingDocument = Else(@, s.inFlight.document),
              !.pendingPageSize = IF keepSettings THEN Else(@, s.inFlight.pageSize) ELSE @,
              !.base = s.inFlight.base]

LEMMA RequeueKeeps ==
    ASSUME EnvOK, NEW s, NEW requests, NEW seen, NEW keepSettings \in BOOLEAN,
           Core(s, requests, seen), \A q \in requests : RequestOK(q), ~Idle(s)
    PROVE  LET t == requeue(s, keepSettings)
           IN  /\ Core(t, requests, seen)
               /\ Held(t) = Held(s) /\ Idle(t)
               /\ t.lastSaveId = s.lastSaveId /\ t.version = s.version
  <1> DEFINE q == Requeued(s, keepSettings)
  <1>1. s \in Tabs
    BY DEF Core
  <1>2. /\ NoSave \in Patch(0..MaxForeign) /\ NoSave.saveId = 0 /\ NoSave.document = Null
    BY DEF NoSave, Patch, EnvOK, TabAssumption
  <1>3. /\ s.inFlight \in Patch(0..MaxForeign) /\ s.lastSaveId \in Nat
        /\ s.pendingDocument \in Docs \cup {Null} /\ s.pendingPageSize \in Sizes \cup {Null}
    BY <1>1 DEF Tabs
  <1>4. /\ Else(s.pendingDocument, s.inFlight.document) \in Docs \cup {Null}
        /\ Else(s.pendingPageSize, s.inFlight.pageSize) \in Sizes \cup {Null}
        /\ s.inFlight.base \in 0..MaxForeign
    BY <1>3 DEF Patch, Else
  <1>5. /\ q \in Tabs
        /\ q.pendingDocument = Else(s.pendingDocument, s.inFlight.document)
        /\ q.base = s.inFlight.base /\ q.inFlight = NoSave
        /\ q.version = s.version /\ q.lastSaveId = s.lastSaveId
        /\ q.savedDocument = s.savedDocument /\ q.savedPageSize = s.savedPageSize
    <2> DEFINE document == Else(s.pendingDocument, s.inFlight.document)
               pageSize == IF keepSettings THEN Else(s.pendingPageSize, s.inFlight.pageSize)
                           ELSE s.pendingPageSize
    <2>1. q = [s EXCEPT !.inFlight = NoSave, !.pendingDocument = document,
                        !.pendingPageSize = pageSize, !.base = s.inFlight.base]
      BY DEF Requeued
    <2>2. document \in Docs \cup {Null} /\ pageSize \in Sizes \cup {Null}
      BY <1>3, <1>4
    <2> HIDE DEF q, document, pageSize
    <2>3. q \in Tabs
      BY <1>1, <1>2, <1>4, <2>1, <2>2 DEF Tabs
    <2>4. /\ q.pendingDocument = document /\ q.base = s.inFlight.base /\ q.inFlight = NoSave
          /\ q.version = s.version /\ q.lastSaveId = s.lastSaveId
          /\ q.savedDocument = s.savedDocument /\ q.savedPageSize = s.savedPageSize
      BY <1>1, <2>1 DEF Tabs
    <2> QED
      BY <2>3, <2>4 DEF document
  <1>6. requeue(s, keepSettings) = normalizePending(q)
    BY DEF requeue, Requeued
  <1> HIDE DEF q
  <1>7. Fresh(q, requests)
    BY <1>2, <1>3, <1>5 DEF Core, Fresh, Idle
  <1>8. Grounded(q, seen)
    BY <1>5 DEF Core, Grounded, Idle
  <1>9. Covered(q, requests, seen)
    BY <1>2, <1>5 DEF Covered, RequestOK
  <1>10. SavedOK(q) /\ Core(q, requests, seen)
    BY <1>5, <1>7, <1>8, <1>9 DEF Core, SavedOK
  <1>11. Held(q) = Held(s)
    BY <1>2, <1>5 DEF Held, Else
  <1>12. /\ Core(normalizePending(q), requests, seen)
         /\ Held(normalizePending(q)) = Held(q)
         /\ normalizePending(q).inFlight = q.inFlight
         /\ normalizePending(q).lastSaveId = q.lastSaveId
         /\ normalizePending(q).version = q.version
    BY <1>5, <1>10, NormalizeKeeps, NormalizeIs
  <1> QED
    BY <1>5, <1>6, <1>11, <1>12 DEF Idle

\* Another status, timers and attempt count.
Retold(s, state, attempt, timers) ==
    [s EXCEPT !.status = state, !.attempt = attempt, !.timers = timers]

LEMMA RetoldIs ==
    ASSUME NEW s \in Tabs, NEW state \in Statuses, NEW attempt \in 0..SaveAttempts,
           NEW timers \in SUBSET {"debounce", "retry"}
    PROVE  LET t == Retold(s, state, attempt, timers)
           IN  SameWork(s, t) /\ t.status = state /\ t.timers = timers
  <1>1. Retold(s, state, attempt, timers) \in Tabs
    BY DEF Retold, Tabs
  <1> QED  BY <1>1 DEF Retold, SameWork, Tabs

\* One operation after another: the second one is told what the first one left.
LEMMA Through ==
    ASSUME NEW s, NEW q, NEW t, NEW requests, NEW seen,
           Held(q) = Held(s), q.lastSaveId = s.lastSaveId, q.version = s.version,
           Reduced(q, t, requests, seen)
    PROVE  Reduced(s, t, requests, seen)
  BY DEF Reduced, Working, Sends

LEMMA FailedKeeps ==
    ASSUME EnvOK, NEW s, NEW requests, NEW seen,
           NEW why \in {"conflict", "rejected", "unavailable"},
           Core(s, requests, seen), \A q \in requests : RequestOK(q), ~Idle(s),
           why = "conflict" => s.version < note.version
    PROVE  Reduced(s, onSaveFailed(s, why), requests, seen)
  <1> DEFINE t == onSaveFailed(s, why)
  <1>1. PICK keep \in BOOLEAN, state \in {"conflict", "offline", "retrying", "error"},
             attempt \in 0..SaveAttempts, timers \in SUBSET {"debounce", "retry"} :
          /\ t = Retold(requeue(s, keep), state, attempt, timers)
          /\ state = "conflict" => s.version < note.version
          /\ state # "retrying" => timers = {}
    <2>1. 0 \in 0..SaveAttempts
      BY DEF EnvOK, TabAssumption
    <2>2. \A keep \in BOOLEAN : requeue(s, keep).attempt = s.attempt
      BY DEF requeue, normalizePending, Core, Tabs
    <2>3. CASE why = "conflict"
      <3>1. t = Retold(requeue(s, TRUE), "conflict", 0, {})
        BY <2>3 DEF onSaveFailed, Retold
      <3> QED  BY <2>1, <2>3, <3>1
    <2>4. CASE why = "unavailable" /\ ~s.online
      <3>1. t = Retold(requeue(s, TRUE), "offline", 0, {})
        BY <2>4 DEF onSaveFailed, Retold
      <3> QED  BY <2>1, <3>1
    <2>5. CASE why = "unavailable" /\ s.online /\ s.attempt < SaveAttempts
      <3>1. s.attempt \in 0..SaveAttempts /\ s.attempt + 1 \in 0..SaveAttempts
        BY <2>5 DEF Core, Tabs, EnvOK, TabAssumption
      <3>2. t = [requeue(s, TRUE) EXCEPT !.status = "retrying", !.attempt = @ + 1,
                                         !.timers = {"retry"}]
        BY <2>5 DEF onSaveFailed
      <3>3. t = Retold(requeue(s, TRUE), "retrying", s.attempt + 1, {"retry"})
        BY <2>2, <3>2 DEF Retold
      <3> QED  BY <3>1, <3>3
    <2>6. CASE why = "rejected" \/ (why = "unavailable" /\ s.online
                                     /\ ~(s.attempt < SaveAttempts))
      <3>1. t = Retold(requeue(s, FALSE), "error", 0, {})
        BY <2>6 DEF onSaveFailed, Retold
      <3> QED  BY <2>1, <3>1
    <2> QED  BY <2>3, <2>4, <2>5, <2>6
  <1> DEFINE q == requeue(s, keep)
  <1>2. /\ Core(q, requests, seen) /\ Held(q) = Held(s) /\ Idle(q)
        /\ q.lastSaveId = s.lastSaveId /\ q.version = s.version
    BY RequeueKeeps
  <1> HIDE DEF q
  <1>3. SameWork(q, t) /\ t.status = state /\ t.timers = timers
    <2>1. q \in Tabs /\ state \in Statuses
      BY <1>2 DEF Core, Statuses
    <2> QED  BY <1>1, <2>1, RetoldIs DEF q
  <1> HIDE DEF t
  <1>4. StatusOK(t)
    BY <1>1, <1>2, <1>3 DEF StatusOK, ConflictOK, SameWork, Idle
  <1>5. Reduced(q, t, requests, seen)
    BY <1>2, <1>3, <1>4, RestatedIsReduced
  <1> QED
    BY <1>2, <1>5, Through DEF t

\* onAnswer: an answer that is no longer waited for changes nothing.
LEMMA AnswerKeeps ==
    ASSUME EnvOK, NEW s, NEW requests, NEW seen, NEW r \in requests,
           Core(s, requests, seen), StatusOK(s), \A q \in requests : RequestOK(q),
           r.kind # "sent"
    PROVE  Reduced(s, onAnswer(s, r.saveId, r.kind, r.answer), requests \ {r}, seen)
  <1> DEFINE rest == requests \ {r}
  <1>1. Core(s, rest, seen) /\ \A q \in rest : RequestOK(q)
    <2>1. rest \in SUBSET requests
      OBVIOUS
    <2> QED  BY <2>1, FewerRequests
  <1>2. CASE s.inFlight.saveId # r.saveId
    <2>1. SameWork(s, s)
      BY DEF Core, SameWork
    <2>2. Reduced(s, s, rest, seen)
      BY <1>1, <2>1, RestatedIsReduced
    <2> QED  BY <1>2, <2>2 DEF onAnswer
  <1>3. CASE s.inFlight.saveId = r.saveId /\ r.kind = "ok"
    BY <1>3, SuccessKeeps DEF onAnswer
  <1>4. CASE s.inFlight.saveId = r.saveId /\ r.kind # "ok"
    <2>1. /\ r.saveId # 0 /\ r.kind \in {"conflict", "rejected", "unavailable"}
          /\ r.kind = "conflict" => r.expected < note.version
      BY <1>4 DEF RequestOK, SaveRequests
    <2>2. ~Idle(s) /\ r.expected = s.version
      BY <1>4, <2>1 DEF Idle, NoSave, Core, Covered, Matches
    <2>3. Reduced(s, onSaveFailed(s, r.kind), rest, seen)
      BY <1>1, <2>1, <2>2, FailedKeeps
    <2> QED  BY <1>4, <2>3 DEF onAnswer
  <1> QED  BY <1>2, <1>3, <1>4

LEMMA OfflineKeeps ==
    ASSUME NEW s, NEW requests, NEW seen, Core(s, requests, seen), StatusOK(s)
    PROVE  Reduced(s, goneOffline(s), requests, seen)
  <1> DEFINE t == goneOffline(s)
  <1>1. s \in Tabs
    BY DEF Core
  <1>2. t \in Tabs
    BY <1>1 DEF goneOffline, Tabs, Statuses
  <1>3. /\ SameWork(s, t) /\ t.timers = {}
        /\ t.status = IF s.status = "conflict" \/ ~hasPendingWork(s) THEN s.status
                      ELSE "offline"
    BY <1>1, <1>2 DEF goneOffline, SameWork, Tabs
  <1> HIDE DEF t
  <1>4. StatusOK(t)
    BY <1>3 DEF StatusOK, ConflictOK, SameWork, Idle, hasPendingWork
  <1> QED
    BY <1>3, <1>4, RestatedIsReduced DEF t

LEMMA OnlineKeeps ==
    ASSUME EnvOK, NEW s, NEW requests, NEW seen, Core(s, requests, seen), StatusOK(s)
    PROVE  Reduced(s, backOnline(s), requests, seen)
  <1> DEFINE t == backOnline(s)
  <1> DEFINE online == [s EXCEPT !.online = TRUE, !.attempt = 0]
  <1>1. s \in Tabs /\ 0 \in 0..SaveAttempts
    BY DEF Core, EnvOK, TabAssumption
  <1>2. /\ SameWork(s, online) /\ online.status = s.status /\ online.timers = s.timers
        /\ online.status \in Statuses /\ online.timers \in SUBSET {"debounce", "retry"}
    BY <1>1 DEF SameWork, Tabs
  <1>3. /\ restingStatus(s) \in {"saving", "conflict", "saved", "idle"}
        /\ restingStatus(s) = "saving" => ~Idle(s)
        /\ restingStatus(s) = "conflict" => s.status = "conflict"
    BY DEF restingStatus
  <1>4. PICK state \in Statuses, timers \in SUBSET {"debounce", "retry"} :
          /\ t = Restated(online, state, timers)
          /\ state = "saving" => ~Idle(s)
          /\ state = "dirty" => hasPendingWork(s)
          /\ state = "conflict" => s.status = "conflict" /\ timers = s.timers
          /\ state \notin {"offline", "error"}
    <2>1. CASE s.status = "conflict"
      <3>1. t = Restated(online, s.status, s.timers)
        BY <1>1, <2>1 DEF backOnline, Restated, Tabs
      <3> QED  BY <1>2, <2>1, <3>1
    <2>2. CASE s.status # "conflict" /\ ~hasPendingWork(s)
      <3>1. t = Restated(online, restingStatus(s), s.timers)
        BY <1>1, <2>2 DEF backOnline, Restated, Tabs
      <3> QED  BY <1>2, <1>3, <2>2, <3>1 DEF Statuses
    <2>3. CASE s.status # "conflict" /\ hasPendingWork(s) /\ ~Idle(s)
      <3>1. t = Restated(online, "saving", s.timers)
        BY <1>1, <2>3 DEF backOnline, Restated, Tabs
      <3> QED  BY <1>2, <2>3, <3>1 DEF Statuses
    <2>4. CASE s.status # "conflict" /\ hasPendingWork(s) /\ Idle(s)
      <3>1. t = Restated(online, "dirty", s.timers \cup {"debounce"})
        BY <1>1, <2>4 DEF backOnline, Restated, Tabs
      <3>2. s.timers \cup {"debounce"} \in SUBSET {"debounce", "retry"}
        BY <1>2
      <3> QED  BY <2>4, <3>1, <3>2 DEF Statuses
    <2> QED  BY <2>1, <2>2, <2>3, <2>4
  <1> HIDE DEF online
  <1>5. SameWork(online, t) /\ t.status = state /\ t.timers = timers
    <2>1. online \in Tabs
      BY <1>2 DEF SameWork
    <2> QED  BY <1>4, <2>1, RestatedIs
  <1> HIDE DEF t
  <1>6. SameWork(s, t)
    BY <1>2, <1>5 DEF SameWork
  <1>7. StatusOK(t)
    BY <1>4, <1>5, <1>6 DEF StatusOK, ConflictOK, SameWork, Idle, hasPendingWork
  <1> QED
    BY <1>6, <1>7, RestatedIsReduced DEF t

LEMMA RetryKeeps ==
    ASSUME EnvOK, NEW s, NEW requests, NEW seen, Core(s, requests, seen), StatusOK(s),
           s.status = "error"
    PROVE  Reduced(s, retryRequested(s), requests, seen)
  <1> DEFINE cleared == [s EXCEPT !.attempt = 0]
  <1>1. s \in Tabs /\ 0 \in 0..SaveAttempts
    BY DEF Core, EnvOK, TabAssumption
  <1>2. /\ SameWork(s, cleared) /\ cleared.status = s.status /\ cleared.timers = s.timers
        /\ cleared.timers \in SUBSET {"debounce", "retry"}
    BY <1>1 DEF SameWork, Tabs
  <1>3. Core(cleared, requests, seen) /\ Held(cleared) = Held(s)
    BY <1>2, SameWorkKeeps
  <1>4. CASE canSaveNow(cleared)
    <2>1. retryRequested(s) = startSave(cleared)
      BY <1>4 DEF retryRequested
    <2> HIDE DEF cleared
    <2>2. Reduced(cleared, startSave(cleared), requests, seen)
      BY <1>3, <1>4, StartedIsReduced DEF canSaveNow
    <2> QED
      BY <1>2, <1>3, <2>1, <2>2, Through DEF SameWork
  <1>5. CASE ~canSaveNow(cleared)
    <2> DEFINE state == IF ~s.online /\ hasPendingWork(s) THEN "offline"
                         ELSE restingStatus(s)
    <2> DEFINE t == [cleared EXCEPT !.status = state]
    <2>1. retryRequested(s) = t
      BY <1>5 DEF retryRequested
    <2>2. /\ state \in {"offline", "saving", "saved", "idle"}
          /\ state = "saving" => ~Idle(s)
      BY DEF restingStatus
    <2> HIDE DEF state
    <2>3. SameWork(s, t) /\ t.status = state /\ t.timers = s.timers
      <3>1. state \in Statuses
        BY <2>2 DEF Statuses
      <3>2. t \in Tabs
        BY <1>1, <3>1 DEF Tabs
      <3> QED  BY <1>1, <3>2 DEF SameWork, Tabs
    <2> HIDE DEF t
    <2>4. StatusOK(t)
      BY <2>2, <2>3 DEF StatusOK, ConflictOK, SameWork, Idle
    <2> QED
      BY <2>1, <2>3, <2>4, RestatedIsReduced
  <1> QED  BY <1>4, <1>5

\* externalVersion: in a room, whose members see every write of others.
LEMMA ExternalKeeps ==
    ASSUME NEW s, NEW requests, NEW seen, NEW version \in Nat,
           Core(s, requests, seen), StatusOK(s), \A r \in requests : RequestOK(r),
           room, seen = foreign, version <= note.version
    PROVE  Reduced(s, externalVersion(s, version), requests, seen)
  <1> DEFINE t == externalVersion(s, version)
  <1>1. s \in Tabs
    BY DEF Core
  <1>2. CASE hasPendingWork(s) \/ ~Idle(s)
    <2>1. SameWork(s, s) /\ t = s
      BY <1>1, <1>2 DEF externalVersion, SameWork
    <2> QED  BY <2>1, RestatedIsReduced
  <1>3. CASE ~hasPendingWork(s) /\ Idle(s)
    <2>1. /\ t \in Tabs /\ t.version = version /\ t.status = s.status /\ t.timers = s.timers
          /\ t.savedDocument = s.savedDocument /\ t.savedPageSize = s.savedPageSize
          /\ t.pendingDocument = s.pendingDocument /\ t.pendingPageSize = s.pendingPageSize
          /\ t.base = s.base /\ t.inFlight = s.inFlight /\ t.lastSaveId = s.lastSaveId
      BY <1>1, <1>3 DEF externalVersion, Tabs
    <2> HIDE DEF t
    <2>2. ~hasPendingWork(t) /\ Idle(t) /\ t.inFlight.saveId = 0 /\ ~(t.lastSaveId > s.lastSaveId)
      BY <1>1, <1>3, <2>1 DEF Idle, NoSave, hasPendingWork, Tabs
    <2>3. Core(t, requests, seen)
      BY <2>1, <2>2 DEF Core, Fresh, Grounded, Covered, SavedOK, RequestOK
    <2>4. StatusOK(t)
      BY <1>3, <2>1, <2>2 DEF StatusOK, ConflictOK, Idle, hasPendingWork
    <2>5. Held(t) = Held(s)
      BY <2>1 DEF Held
    <2> QED
      BY <2>2, <2>3, <2>4, <2>5 DEF Reduced, Working, Sends, t
  <1> QED  BY <1>2, <1>3

\* A timer, a hidden page: whatever can be sent is sent.
LEMMA SendKeeps ==
    ASSUME EnvOK, NEW s, NEW requests, NEW seen, Core(s, requests, seen), StatusOK(s),
           NEW fewer \in SUBSET s.timers, NEW t,
           \/ canSaveNow(s) /\ t = startSave(s)
           \/ t = [s EXCEPT !.timers = fewer]
           \/ canSaveNow([s EXCEPT !.timers = fewer]) /\ t = startSave([s EXCEPT !.timers = fewer])
    PROVE  Reduced(s, t, requests, seen)
  <1> DEFINE q == [s EXCEPT !.timers = fewer]
  <1>1. s \in Tabs /\ fewer \in SUBSET {"debounce", "retry"}
    BY DEF Core, Tabs
  <1>2. SameWork(s, q) /\ q.status = s.status /\ q.timers = fewer
    BY <1>1 DEF SameWork, Tabs
  <1> HIDE DEF q
  <1>3. Core(q, requests, seen) /\ Held(q) = Held(s)
    BY <1>2, SameWorkKeeps
  <1>4. StatusOK(q)
    BY <1>2 DEF StatusOK, ConflictOK, SameWork, Idle, hasPendingWork
  <1>5. CASE canSaveNow(s) /\ t = startSave(s)
    BY <1>5, StartedIsReduced DEF canSaveNow
  <1>6. CASE t = q
    BY <1>2, <1>4, <1>6, RestatedIsReduced
  <1>7. CASE canSaveNow(q) /\ t = startSave(q)
    <2>1. Reduced(q, t, requests, seen)
      BY <1>3, <1>7, StartedIsReduced DEF canSaveNow
    <2> QED  BY <1>2, <1>3, <2>1, Through DEF SameWork
  <1> QED  BY <1>5, <1>6, <1>7 DEF q

----------------------------------------------------------------------------
(* The steps.  An operation of the reducer is dispatched: the tab takes its *)
(* result, and the wire the request it sends.                              *)

\* What the tab holds of the document is what the writer typed last, or a render has
\* re-seeded it.
TypedOK == open => Held(tab) \in {Null, typed}

LEMMA EnvIsOK ==
    ASSUME TabAssumption, TabIInv
    PROVE  EnvOK /\ view \in 0..foreign
  BY DEF TabIInv, PageOK, EnvOK

LEMMA TabIs ==
    ASSUME TabIInv, open
    PROVE  /\ Core(tab, wire, view) /\ StatusOK(tab) /\ ConflictOK(tab)
           /\ \A r \in wire : RequestOK(r)
  BY DEF TabIInv, TabOK, SentOK, StatusOK

LEMMA DispatchKeeps ==
    ASSUME TabAssumption, TabIInv, open, NEW others \in SUBSET wire, NEW t,
           Working(tab, t, others, view), Dispatch(t, others),
           shown' \in Docs, RoomOK',
           UNCHANGED <<note, foreign, seed, render, open, view, room>>
    PROVE  TabIInv'
  <1> DEFINE sent == Sends(tab, t, others)
  <1>1. tab' = t /\ wire' = sent
    BY DEF Dispatch, Sends
  <1>2. Core(t, sent, view) /\ StatusOK(t) /\ (~room => tab.version <= t.version)
    BY DEF Working
  <1>3. \A r \in sent : RequestOK(r)
    BY DEF Working, Sends, TabIInv, SentOK
  <1> HIDE DEF sent
  <1>4. PageOK'
    BY DEF TabIInv, PageOK, RenderOK
  <1>5. SentOK'
    BY <1>1, <1>3 DEF SentOK, RequestOK
  <1>6. TabOK'
    <2>1. t \in Tabs /\ tab \in Tabs
      BY <1>2 DEF Core, TabIInv, TabOK
    <2>2. Core(tab, wire, view)' /\ StatusOK(tab)'
      BY <1>1, <1>2 DEF Core, Fresh, Grounded, Covered, Matches, AnswerOK, SavedOK, StatusOK,
                        ConflictOK, Idle, hasPendingWork
    <2>3. (~room => seed.version <= tab.version)'
      <3>1. ~room => seed.version <= tab.version /\ tab.version <= t.version
        BY <1>2 DEF TabIInv, TabOK
      <3>2. seed.version \in Nat /\ tab.version \in Nat /\ t.version \in Nat
        BY <2>1 DEF TabIInv, PageOK, Answers, Tabs
      <3> QED  BY <1>1, <3>1, <3>2
    <2>4. Grounded(tab, view)' /\ SavedOK(tab)' /\ Fresh(tab, wire)' /\ (tab \in Tabs)'
      BY <2>2 DEF Core
    <2>5. (~Idle(tab) => tab.inFlight.document # Null \/ tab.inFlight.pageSize # Null)'
      BY <2>4 DEF Fresh
    <2> QED  BY <2>2, <2>3, <2>4, <2>5 DEF TabOK
  <1> QED  BY <1>4, <1>5, <1>6 DEF TabIInv

\* An operation of the reducer that is no edit.
LEMMA ReduceKeeps ==
    ASSUME TabAssumption, TabIInv, open, NEW others \in SUBSET wire, NEW t,
           Reduced(tab, t, others, view), Dispatch(t, others), RoomOK',
           UNCHANGED <<stored, page, room>>
    PROVE  TabIInv' /\ (TypedOK => TypedOK')
  <1>1. TabIInv'
    <2>1. shown' \in Docs
      BY DEF page, TabIInv, PageOK
    <2> QED  BY <2>1, DispatchKeeps DEF Reduced, stored, page
  <1>2. TypedOK => TypedOK'
    <2>1. Held(tab)' = Held(tab)
      BY DEF Reduced, Dispatch, Held
    <2> QED  BY <2>1 DEF TypedOK, page
  <1> QED  BY <1>1, <1>2

LEMMA RoomStays ==
    ASSUME TabIInv, UNCHANGED <<stored, page, projected, room>>
    PROVE  RoomOK'
  BY DEF TabIInv, RoomOK, stored, page

LEMMA TypeKeeps ==
    ASSUME TabAssumption, TabIInv, NEW d \in Docs, Type(d)
    PROVE  TabIInv' /\ (TypedOK => TypedOK')
  <1> DEFINE t == queue(tab, d, Null, TRUE)
  <1>1. d # Null
    BY DEF TabAssumption
  <1>2. Working(tab, t, wire, view) /\ Held(t) = d
    BY <1>1, EnvIsOK, TabIs, QueueKeeps DEF Type
  <1> HIDE DEF t
  <1>3. Dispatch(t, wire) /\ open /\ typed' = d /\ shown' = d /\ RoomOK'
    BY DEF Type, t, TabIInv, RoomOK, stored
  <1>4. TabIInv'
    BY <1>2, <1>3, DispatchKeeps DEF Type, stored
  <1>5. TypedOK => TypedOK'
    BY <1>2, <1>3 DEF TypedOK, Held, Dispatch, Type
  <1> QED  BY <1>4, <1>5

LEMMA PageSizeKeeps ==
    ASSUME TabAssumption, TabIInv, NEW p \in Sizes, requestPageSize(p)
    PROVE  TabIInv' /\ (TypedOK => TypedOK')
  <1> DEFINE t == queue(tab, Null, p, FALSE)
  <1>1. Working(tab, t, wire, view) /\ Held(t) = Held(tab)
    <2>1. /\ EnvOK /\ view \in 0..foreign
          /\ Core(tab, wire, view) /\ ConflictOK(tab) /\ \A r \in wire : RequestOK(r)
      BY EnvIsOK, TabIs DEF requestPageSize
    <2>2. Null \in Docs \cup {Null} /\ p \in Sizes \cup {Null} /\ FALSE \in BOOLEAN
      OBVIOUS
    <2>3. Working(tab, t, wire, view) /\ Held(t) = IF Null # Null THEN Null ELSE Held(tab)
      BY <2>1, <2>2, QueueKeeps
    <2> QED  BY <2>3
  <1> HIDE DEF t
  <1>2. Reduced(tab, t, wire, view) /\ Dispatch(t, wire) /\ open
    BY <1>1 DEF Reduced, requestPageSize, t
  <1> QED  BY <1>2, RoomStays, ReduceKeeps DEF requestPageSize

LEMMA ElapseKeeps ==
    ASSUME TabAssumption, TabIInv, NEW timer \in {"debounce", "retry"}, Elapse(timer)
    PROVE  TabIInv' /\ (TypedOK => TypedOK')
  <1> DEFINE s == [tab EXCEPT !.timers = tab.timers \ {timer}]
  <1> DEFINE t == IF canSaveNow(s) THEN startSave(s) ELSE s
  <1>1. Dispatch(t, wire) /\ open
    BY DEF Elapse
  <1>2. Reduced(tab, t, wire, view)
    <2>1. tab.timers \ {timer} \in SUBSET tab.timers
      OBVIOUS
    <2> QED  BY <1>1, <2>1, EnvIsOK, TabIs, SendKeeps
  <1> HIDE DEF t
  <1> QED  BY <1>1, <1>2, RoomStays, ReduceKeeps DEF Elapse

LEMMA FlushKeeps ==
    ASSUME TabAssumption, TabIInv, Flush
    PROVE  TabIInv' /\ (TypedOK => TypedOK')
  <1> DEFINE t == IF canSaveNow(tab) THEN startSave(tab)
                  ELSE [tab EXCEPT !.timers = tab.timers \ {"debounce"}]
  <1>1. Dispatch(t, wire) /\ open
    BY DEF Flush
  <1>2. Reduced(tab, t, wire, view)
    <2>1. tab.timers \ {"debounce"} \in SUBSET tab.timers
      OBVIOUS
    <2> QED  BY <1>1, <2>1, EnvIsOK, TabIs, SendKeeps
  <1> HIDE DEF t
  <1> QED  BY <1>1, <1>2, RoomStays, ReduceKeeps DEF Flush

LEMMA NetworkKeeps ==
    ASSUME TabAssumption, TabIInv, handleOffline \/ handleOnline \/ retry
    PROVE  TabIInv' /\ (TypedOK => TypedOK')
  <1>1. CASE handleOffline
    <2>1. Reduced(tab, goneOffline(tab), wire, view)
      BY <1>1, TabIs, OfflineKeeps DEF handleOffline
    <2> QED  BY <1>1, <2>1, RoomStays, ReduceKeeps DEF handleOffline
  <1>2. CASE handleOnline
    <2>1. Reduced(tab, backOnline(tab), wire, view)
      BY <1>2, EnvIsOK, TabIs, OnlineKeeps DEF handleOnline
    <2> QED  BY <1>2, <2>1, RoomStays, ReduceKeeps DEF handleOnline
  <1>3. CASE retry
    <2>1. Reduced(tab, retryRequested(tab), wire, view)
      BY <1>3, EnvIsOK, TabIs, RetryKeeps DEF retry
    <2> QED  BY <1>3, <2>1, RoomStays, ReduceKeeps DEF retry
  <1> QED  BY <1>1, <1>2, <1>3

LEMMA ExternalVersionKeeps ==
    ASSUME TabAssumption, TabIInv, applyExternalVersion
    PROVE  TabIInv' /\ (TypedOK => TypedOK')
  <1> DEFINE t == externalVersion(tab, Head(projected))
  <1>1. /\ projected \in Seq(Nat) /\ projected # <<>>
        /\ \A k \in 1..Len(projected) : projected[k] <= note.version
        /\ room => view = foreign
        /\ ~room => projected = <<>>
    BY DEF applyExternalVersion, TabIInv, RoomOK
  <1>2. Head(projected) \in Nat /\ Head(projected) <= note.version
    BY <1>1
  <1>3. room /\ view = foreign
    BY <1>1 DEF TabIInv, PageOK
  <1>4. Reduced(tab, t, wire, view)
    BY <1>2, <1>3, TabIs, ExternalKeeps DEF applyExternalVersion
  <1>5. RoomOK'
    <2>1. projected' = Tail(projected) /\ UNCHANGED <<note, foreign, view, room>>
      BY DEF applyExternalVersion, stored, page
    <2>2. Tail(projected) \in Seq(Nat)
          /\ \A k \in 1..Len(Tail(projected)) : Tail(projected)[k] <= note.version
      BY <1>1
    <2> QED  BY <1>3, <2>1, <2>2 DEF RoomOK
  <1> HIDE DEF t
  <1> QED  BY <1>4, <1>5, ReduceKeeps DEF applyExternalVersion, t

\* performSave: the answer is reduced if the tab is still there.
LEMMA PerformKeeps ==
    ASSUME TabAssumption, TabIInv, NEW r \in wire, performSave(r)
    PROVE  TabIInv' /\ (TypedOK => TypedOK')
  <1>1. RoomOK' /\ r.kind # "sent" /\ wire \ {r} \in SUBSET wire
    BY RoomStays DEF performSave
  <1>2. CASE open
    <2> DEFINE t == onAnswer(tab, r.saveId, r.kind, r.answer)
    <2>1. Reduced(tab, t, wire \ {r}, view)
      <3>1. /\ EnvOK /\ Core(tab, wire, view) /\ StatusOK(tab)
            /\ \A q \in wire : RequestOK(q)
        BY <1>2, EnvIsOK, TabIs
      <3> QED  BY <1>1, <3>1, AnswerKeeps
    <2>2. Dispatch(t, wire \ {r})
      BY <1>2 DEF performSave
    <2> HIDE DEF t
    <2> QED  BY <1>1, <1>2, <2>1, <2>2, ReduceKeeps DEF performSave
  <1>3. CASE ~open
    <2>1. wire' = wire \ {r} /\ UNCHANGED <<tab, stored, page, room>>
      BY <1>3 DEF performSave
    <2>2. PageOK'
      BY <2>1 DEF TabIInv, PageOK, RenderOK, stored, page
    <2>3. SentOK'
      BY <2>1 DEF TabIInv, SentOK, RequestOK, stored, page
    <2>4. TabOK'
      BY <1>3, <2>1 DEF TabIInv, TabOK, Grounded, SavedOK, StatusOK, ConflictOK, stored, page
    <2>5. TypedOK'
      BY <1>3, <2>1 DEF TypedOK, page
    <2> QED  BY <1>1, <2>2, <2>3, <2>4, <2>5 DEF TabIInv
  <1> QED  BY <1>2, <1>3

\* NoAnswer: the open request has failed for the tab, wherever it is by now.
LEMMA NoAnswerKeeps ==
    ASSUME TabAssumption, TabIInv, NEW r \in wire, NoAnswer(r)
    PROVE  TabIInv' /\ (TypedOK => TypedOK')
  <1> DEFINE t == onSaveFailed(tab, "unavailable")
  <1> DEFINE others == IF r.kind = "sent" THEN wire ELSE wire \ {r}
  <1>1. /\ open /\ r.saveId = tab.inFlight.saveId /\ RoomOK'
        /\ UNCHANGED <<stored, page, room>>
    BY RoomStays DEF NoAnswer
  <1>2. Dispatch(t, others)
    BY <1>1 DEF NoAnswer, onAnswer
  <1>3. others \in SUBSET wire
    OBVIOUS
  <1> HIDE DEF others
  <1>4. Core(tab, others, view) /\ \A q \in others : RequestOK(q)
    BY <1>1, <1>3, TabIs, FewerRequests
  <1>5. ~Idle(tab)
    BY <1>1, TabIs DEF RequestOK, Idle, NoSave
  <1>6. Reduced(tab, t, others, view)
    BY <1>4, <1>5, EnvIsOK, FailedKeeps
  <1> HIDE DEF t
  <1> QED  BY <1>1, <1>2, <1>3, <1>6, ReduceKeeps

\* Unmount: the last request says what the tab had queued; nothing is reduced any more.
LEMMA UnmountKeeps ==
    ASSUME TabAssumption, TabIInv, Unmount
    PROVE  TabIInv' /\ TypedOK'
  <1> DEFINE last == IF canSaveNow(tab) THEN {Request(startSave(tab))} ELSE {}
  <1> DEFINE t == [tab EXCEPT !.timers = {}]
  <1>1. /\ open /\ ~open' /\ open' = FALSE /\ tab' = t /\ wire' = wire \cup last
        /\ UNCHANGED <<stored, shown, seed, render, view, projected, room>>
    BY DEF Unmount
  <1>2. /\ Core(tab, wire, view) /\ StatusOK(tab) /\ \A r \in wire : RequestOK(r)
        /\ tab \in Tabs
    BY <1>1, TabIs DEF Core
  <1>3. \A r \in last : RequestOK(r)
    BY <1>2, EnvIsOK, StartKeeps DEF canSaveNow, EnvOK
  <1> HIDE DEF last
  <1>4. SameWork(tab, t) /\ t.timers = {} /\ t.status = tab.status
    BY <1>2 DEF SameWork, Tabs
  <1> HIDE DEF t
  <1>5. StatusOK(t) /\ Core(t, wire, view)
    BY <1>2, <1>4, SameWorkKeeps DEF StatusOK, ConflictOK, SameWork, Idle, hasPendingWork
  <1>6. PageOK' /\ RoomOK'
    BY <1>1 DEF TabIInv, PageOK, RenderOK, RoomOK, stored
  <1>7. SentOK'
    BY <1>1, <1>2, <1>3 DEF SentOK, RequestOK, stored
  <1>8. TabOK'
    <2>1. /\ t \in Tabs /\ Grounded(t, view) /\ SavedOK(t)
          /\ (~Idle(t) => t.inFlight.document # Null \/ t.inFlight.pageSize # Null)
      BY <1>5 DEF Core, Fresh
    <2>2. ~room => seed.version <= t.version
      BY <1>4 DEF TabIInv, TabOK, SameWork
    <2> QED
      BY <1>1, <1>5, <2>1, <2>2
      DEF TabOK, Grounded, SavedOK, StatusOK, ConflictOK, Idle, hasPendingWork, stored
  <1> QED  BY <1>1, <1>6, <1>7, <1>8 DEF TabIInv, TypedOK


\* An answer that tells the tab nothing but that its save failed.
LEMMA TellKeeps ==
    ASSUME TabAssumption, TabIInv, NEW r \in wire,
           NEW why \in {"conflict", "rejected", "unavailable"},
           why = "conflict" => r.expected < note.version,
           wire' = (wire \ {r}) \cup {[r EXCEPT !.kind = why]},
           UNCHANGED <<tab, stored, page, projected, room>>
    PROVE  TabIInv' /\ (TypedOK => TypedOK')
  <1> DEFINE q == [r EXCEPT !.kind = why]
  <1>1. RequestOK(r)
    BY DEF TabIInv, SentOK
  <1>2. /\ q \in SaveRequests /\ q.kind = why /\ q.saveId = r.saveId /\ q.expected = r.expected
        /\ q.document = r.document /\ q.pageSize = r.pageSize /\ q.base = r.base
    BY <1>1 DEF RequestOK, SaveRequests
  <1>3. wire' = (wire \ {r}) \cup {q}
    OBVIOUS
  <1> HIDE DEF q
  <1>4. RequestOK(q)
    BY <1>1, <1>2 DEF RequestOK
  <1>5. SentOK'
    BY <1>3, <1>4 DEF TabIInv, SentOK, RequestOK, stored
  <1>6. PageOK' /\ RoomOK'
    BY RoomStays DEF TabIInv, PageOK, RenderOK, stored, page
  <1>7. open => Core(tab, wire', view)
    <2> HAVE open
    <2>1. Core(tab, wire, view)
      BY TabIs
    <2>2. Fresh(tab, wire')
      BY <1>2, <1>3, <2>1 DEF Core, Fresh
    <2>3. Covered(tab, wire', view)
      BY <1>2, <1>3, <2>1 DEF Core, Covered, Matches, AnswerOK
    <2> QED  BY <2>1, <2>2, <2>3 DEF Core
  <1>8. TabOK'
    BY <1>7 DEF TabIInv, TabOK, Core, Fresh, Grounded, Covered, Matches, AnswerOK,
                SavedOK, StatusOK, ConflictOK, stored, page
  <1> QED
    BY <1>5, <1>6, <1>8 DEF TabIInv, TypedOK, page

LEMMA RefuseKeeps ==
    ASSUME TabAssumption, TabIInv, NEW r \in wire, Refuse(r)
    PROVE  TabIInv' /\ (TypedOK => TypedOK')
  <1>1. PICK why \in {"rejected", "unavailable"} :
          wire' = (wire \ {r}) \cup {[r EXCEPT !.kind = why]}
    BY DEF Refuse
  <1>2. UNCHANGED <<tab, stored, page, projected, room>>
    BY DEF Refuse
  <1> QED  BY <1>1, <1>2, TellKeeps

\* A write makes whatever was known of the row the knowledge of an older version.
LEMMA NewerRow ==
    ASSUME TabIInv, note' \in Rows, note'.version = note.version + 1,
           foreign' \in foreign..MaxForeign, view' \in 0..foreign', ~room => view' = view,
           UNCHANGED <<tab, shown, seed, render, open, room>>
    PROVE  /\ PageOK'
           /\ TabOK' <=> (open => Core(tab, wire, view))'
  <1>1. /\ note.version \in Nat /\ foreign \in 0..MaxForeign /\ seed.version \in Nat
        /\ note'.version \in Nat
    BY DEF TabIInv, PageOK, Rows, Answers
  <1>2. /\ tab \in Tabs /\ tab.version \in Nat /\ tab.version < note'.version
    BY <1>1 DEF TabIInv, TabOK, Grounded, Tabs
  <1>3. PageOK'
    <2>1. foreign' \in 0..MaxForeign
      BY <1>1
    <2>2. seed.version < note'.version
      BY <1>1 DEF TabIInv, PageOK
    <2>3. render # Null => RenderOK'
      <3> HAVE render # Null
      <3>1. RenderOK
        BY DEF TabIInv, PageOK
      <3>2. render.row.version \in Nat /\ render.row.version < note'.version
        BY <1>1, <3>1 DEF RenderOK, Rows
      <3>3. render.foreign \in 0..foreign'
        BY <1>1, <3>1 DEF RenderOK
      <3> QED  BY <1>1, <3>1, <3>2, <3>3 DEF RenderOK
    <2> QED  BY <1>1, <2>1, <2>2, <2>3 DEF TabIInv, PageOK
  <1>4. Grounded(tab, view)' /\ SavedOK(tab)'
    BY <1>1, <1>2 DEF Grounded, SavedOK
  <1>5. StatusOK(tab)'
    BY <1>1, <1>2 DEF TabIInv, TabOK, StatusOK, ConflictOK, Idle, hasPendingWork
  <1> QED
    BY <1>2, <1>3, <1>4, <1>5 DEF TabIInv, TabOK, Idle

\* update: the compare-and-set refuses a save that was composed on an older row, and the
\* row an accepted one makes includes what the writer was shown, and no more.
LEMMA UpdateKeeps ==
    ASSUME TabAssumption, TabIInv, NEW r \in wire, update(r)
    PROVE  TabIInv' /\ (TypedOK => TypedOK')
  <1>1. r.kind = "sent" /\ UNCHANGED <<tab, page, projected, room, foreign>> /\ RequestOK(r)
    BY DEF update, TabIInv, SentOK
  <1>2. CASE r.expected # note.version
    <2>1. r.expected < note.version
      BY <1>1, <1>2 DEF RequestOK, SaveRequests, TabIInv, PageOK, Rows
    <2>2. wire' = (wire \ {r}) \cup {[r EXCEPT !.kind = "conflict"]} /\ UNCHANGED note
      BY <1>2 DEF update
    <2> QED  BY <1>1, <2>1, <2>2, TellKeeps DEF stored
  <1>3. CASE r.expected = note.version
    <2>0. PICK answer : answer = [version |-> note'.version, pageSize |-> note'.pageSize]
      OBVIOUS
    <2> DEFINE q == [r EXCEPT !.kind = "ok", !.answer = answer]
    <2>1. /\ note' = [version |-> note.version + 1,
                      document |-> Else(r.document, note.document),
                      pageSize |-> Else(r.pageSize, note.pageSize)]
          /\ wire' = (wire \ {r}) \cup {q}
      BY <1>3, <2>0 DEF update
    <2>2. /\ note \in Rows /\ note.version \in Nat /\ r \in SaveRequests
          /\ r.document \in Docs \cup {Null} /\ r.pageSize \in Sizes \cup {Null}
      BY <1>1 DEF TabIInv, PageOK, RequestOK, SaveRequests, Rows
    <2>3. note' \in Rows /\ note'.version = note.version + 1
      BY <2>1, <2>2 DEF Rows, Else
    <2>4. answer \in Answers /\ answer.version = note'.version /\ answer.pageSize = note'.pageSize
      BY <2>0, <2>3 DEF Answers, Rows
    <2>5. /\ q \in SaveRequests /\ q.kind = "ok" /\ q.answer = answer /\ q.saveId = r.saveId
          /\ q.expected = r.expected /\ q.document = r.document /\ q.pageSize = r.pageSize
          /\ q.base = r.base
      BY <2>2, <2>4 DEF SaveRequests
    <2> HIDE DEF q
    <2>6. SentOK'
      <3>1. RequestOK(q)'
        BY <1>1, <1>3, <2>2, <2>3, <2>4, <2>5 DEF RequestOK
      <3>2. ASSUME NEW p \in wire
            PROVE  RequestOK(p)'
        <4>1. RequestOK(p) /\ p \in SaveRequests /\ p.expected \in Nat
          BY DEF TabIInv, SentOK, RequestOK, SaveRequests
        <4>2. p.kind = "ok" => p.answer.version \in Nat
          BY <4>1 DEF RequestOK, Answers
        <4> QED  BY <1>1, <2>2, <2>3, <4>1, <4>2 DEF RequestOK
      <3> QED  BY <2>1, <3>1, <3>2 DEF SentOK
    <2>7. RoomOK'
      <3>1. \A k \in 1..Len(projected) : projected[k] <= note'.version
        BY <2>2, <2>3 DEF TabIInv, RoomOK
      <3> QED  BY <1>1, <3>1 DEF TabIInv, RoomOK, page
    <2>8. PageOK' /\ (TabOK' <=> (open => Core(tab, wire, view))')
      <3>1. foreign' \in foreign..MaxForeign /\ view' \in 0..foreign' /\ view' = view
        BY <1>1 DEF TabIInv, PageOK, page
      <3> QED  BY <1>1, <2>3, <3>1, NewerRow DEF page
    <2>9. (open => Core(tab, wire, view))'
      <3> SUFFICES ASSUME open
                   PROVE  Core(tab, wire, view)'
        BY <1>1 DEF page
      <3>1. /\ Core(tab, wire, view) /\ \A p \in wire : RequestOK(p)
            /\ tab \in Tabs /\ tab.version \in Nat /\ tab.version <= note.version
        BY TabIs DEF Core, Grounded, Tabs
      <3>2. Fresh(tab, wire)'
        BY <1>1, <2>1, <2>5, <3>1 DEF Core, Fresh, Idle
      <3>3. Grounded(tab, view)' /\ SavedOK(tab)'
        BY <1>1, <2>2, <2>3, <3>1 DEF Grounded, SavedOK, page
      <3>4. ASSUME NEW p \in wire, p.saveId = tab.inFlight.saveId
            PROVE  Matches(p, tab) /\ AnswerOK(p, tab, view)'
        <4>1. Matches(p, tab) /\ RequestOK(p)
          BY <3>1, <3>4 DEF Core, Covered
        <4>2. p.kind = "ok" => p.answer.version \in Nat /\ p.answer.version < note'.version
          BY <2>2, <2>3, <4>1 DEF RequestOK, Answers
        <4> QED  BY <2>2, <2>3, <4>1, <4>2 DEF AnswerOK
      <3>5. ASSUME q.saveId = tab.inFlight.saveId
            PROVE  Matches(q, tab) /\ AnswerOK(q, tab, view)'
        <4>1. Matches(r, tab) /\ Matches(q, tab)
          BY <2>5, <3>1, <3>5 DEF Core, Covered, Matches
        <4>2. tab.version = note.version
          BY <1>3, <4>1 DEF Matches
        <4>3. /\ view = foreign /\ (hasPendingWork(tab) => tab.base = foreign)
              /\ ~room => tab.savedDocument \in {Null, note.document}
          BY <3>1, <4>2 DEF Core, Grounded, SavedOK
        <4>4. note'.document = Else(r.document, note.document)
          BY <2>1
        <4>5. ~room => Else(q.document, tab.savedDocument) \in {Null, note'.document}
          BY <2>5, <4>3, <4>4 DEF Else
        <4> QED
          BY <1>1, <2>4, <2>5, <4>1, <4>3, <4>5 DEF AnswerOK, hasPendingWork, page
      <3>6. Covered(tab, wire, view)'
        BY <1>1, <2>1, <3>4, <3>5 DEF Covered, Matches, AnswerOK, hasPendingWork, page
      <3> QED  BY <1>1, <3>1, <3>2, <3>3, <3>6 DEF Core
    <2> QED
      BY <1>1, <2>6, <2>7, <2>8, <2>9
      DEF TabIInv, TypedOK, page, Held
  <1> QED  BY <1>2, <1>3

\* ForeignWrite: what the tab holds and has sent is about an older row from now on.
LEMMA ForeignKeeps ==
    ASSUME TabAssumption, TabIInv, NEW d \in Docs, ForeignWrite(d)
    PROVE  TabIInv' /\ (TypedOK => TypedOK')
  <1>1. /\ foreign < MaxForeign /\ foreign' = foreign + 1
        /\ note' = [note EXCEPT !.version = note.version + 1, !.document = d]
        /\ room => view' = foreign + 1 /\ projected' = Append(projected, note.version + 1)
        /\ ~room => UNCHANGED <<view, projected>>
        /\ UNCHANGED <<tab, wire, shown, typed, seed, render, open, room>>
    BY DEF ForeignWrite
  <1>2. /\ note \in Rows /\ note.version \in Nat /\ foreign \in Nat /\ view \in 0..foreign
        /\ MaxForeign \in Nat
    BY DEF TabIInv, PageOK, Rows, TabAssumption
  <1>3. note' \in Rows /\ note'.version = note.version + 1
    <2>1. note' = [note EXCEPT !.version = note.version + 1, !.document = d]
      BY <1>1
    <2>2. note.version + 1 \in Nat
      BY <1>2
    <2> QED  BY <1>2, <2>1, <2>2 DEF Rows
  <1>4. foreign' \in foreign..MaxForeign /\ view' \in 0..foreign' /\ (~room => view' = view)
    BY <1>1, <1>2 DEF TabIInv, PageOK
  <1>5. PageOK' /\ (TabOK' <=> (open => Core(tab, wire, view))')
    BY <1>1, <1>3, <1>4, NewerRow
  <1>6. RoomOK'
    <2>1. /\ projected \in Seq(Nat) /\ \A k \in 1..Len(projected) : projected[k] <= note.version
          /\ ~room => projected = <<>>
      BY DEF TabIInv, RoomOK
    <2>2. CASE room
      <3>1. /\ projected' \in Seq(Nat) /\ Len(projected') = Len(projected) + 1
            /\ \A k \in 1..Len(projected) : projected'[k] = projected[k]
            /\ projected'[Len(projected) + 1] = note.version + 1
        <4>1. projected' = Append(projected, note.version + 1)
          BY <1>1, <2>2
        <4>2. note.version + 1 \in Nat
          BY <1>2
        <4> QED  BY <2>1, <4>1, <4>2
      <3>2. \A k \in 1..Len(projected) : projected[k] \in Nat
        BY <2>1
      <3>3. \A k \in 1..Len(projected') : projected'[k] <= note'.version
        BY <1>2, <1>3, <2>1, <3>1, <3>2
      <3> QED  BY <1>1, <2>2, <3>1, <3>3 DEF RoomOK
    <2>3. CASE ~room
      BY <1>1, <2>1, <2>3 DEF RoomOK
    <2> QED  BY <2>2, <2>3
  <1>7. ASSUME NEW p \in wire
        PROVE  RequestOK(p)' /\ (p.kind = "ok" => p.answer.version < note'.version)
    <2>1. RequestOK(p) /\ p \in SaveRequests /\ p.expected \in Nat
      BY DEF TabIInv, SentOK, RequestOK, SaveRequests
    <2>2. p.kind = "ok" => p.answer.version \in Nat
      BY <2>1 DEF RequestOK, Answers
    <2> QED  BY <1>2, <1>3, <2>1, <2>2 DEF RequestOK
  <1>8. SentOK'
    BY <1>1, <1>7 DEF SentOK
  <1>9. (open => Core(tab, wire, view))'
    <2> SUFFICES ASSUME open
                 PROVE  Core(tab, wire, view)'
      BY <1>1
    <2>1. Core(tab, wire, view) /\ tab \in Tabs /\ tab.version \in Nat
          /\ tab.version <= note.version
      BY TabIs DEF Core, Grounded, Tabs
    <2>2. tab.version < note'.version /\ tab' = tab /\ wire' = wire
      BY <1>1, <1>2, <1>3, <2>1
    <2>3. Grounded(tab, view)' /\ SavedOK(tab)'
      BY <1>2, <1>3, <2>1, <2>2 DEF Grounded, SavedOK
    <2>4. Covered(tab, wire, view)'
      <3>1. ASSUME NEW p \in wire, p.saveId = tab.inFlight.saveId
            PROVE  Matches(p, tab) /\ (p.kind = "ok" => p.answer.version # note'.version)
        <4>1. p.kind = "ok" => p.answer.version \in Nat /\ p.answer.version < note'.version
          BY <1>7 DEF RequestOK, Answers
        <4>2. note'.version \in Nat
          BY <1>2, <1>3
        <4> QED  BY <2>1, <3>1, <4>1, <4>2 DEF Core, Covered
      <3> QED  BY <2>2, <3>1 DEF Covered, Matches, AnswerOK
    <2> QED  BY <2>1, <2>2, <2>3, <2>4 DEF Core, Fresh, Idle
  <1> QED
    BY <1>1, <1>5, <1>6, <1>8, <1>9 DEF TabIInv, TypedOK, Held

\* refresh: the render says what the row says, which a writer in a conflict was not shown.
LEMMA RefreshKeeps ==
    ASSUME TabAssumption, TabIInv, NEW cause, refresh(cause)
    PROVE  TabIInv' /\ (TypedOK => TypedOK')
  <1>1. /\ open /\ render' = [row |-> note, foreign |-> foreign, cause |-> cause]
        /\ UNCHANGED <<note, foreign, tab, wire, shown, typed, seed, open, view, projected, room>>
    BY DEF refresh, stored
  <1>2. render'.row = note /\ render'.foreign = foreign
    BY <1>1
  <1>3. PageOK'
    <2>1. RenderOK'
      <3>1. note \in Rows /\ foreign \in Nat /\ note.version \in Nat
        BY DEF TabIInv, PageOK, TabAssumption, Rows
      <3>2. ~room /\ note.version = seed.version => foreign = view
        BY DEF TabIInv, PageOK
      <3> QED  BY <1>1, <1>2, <3>1, <3>2 DEF RenderOK
    <2> QED  BY <1>1, <2>1 DEF TabIInv, PageOK
  <1>4. RoomOK' /\ SentOK' /\ TabOK'
    BY <1>1 DEF TabIInv, RoomOK, SentOK, RequestOK, TabOK, Core, Fresh, Grounded, Covered,
                Matches, AnswerOK, SavedOK, StatusOK, ConflictOK
  <1> QED
    BY <1>1, <1>3, <1>4 DEF TabIInv, TypedOK, Held

\* A re-seeded machine has nothing queued, nothing open and nothing to show.
AfreshOK(s, t, version, pageSize) ==
    /\ t \in Tabs /\ t.status = "idle" /\ t.version = version
    /\ t.savedDocument = Null /\ t.savedPageSize = pageSize
    /\ t.pendingDocument = Null /\ t.pendingPageSize = Null
    /\ t.inFlight = NoSave /\ t.lastSaveId = s.lastSaveId

LEMMA ResetIs ==
    ASSUME EnvOK, NEW s \in Tabs, NEW version \in Nat, NEW pageSize \in Sizes
    PROVE  AfreshOK(s, reset(s, version, pageSize), version, pageSize)
  <1> DEFINE t == reset(s, version, pageSize)
  <1>1. NoSave \in Patch(0..MaxForeign) /\ 0 \in 0..SaveAttempts /\ 0 \in 0..MaxForeign
    BY DEF NoSave, Patch, EnvOK, TabAssumption
  <1>2. s.online \in BOOLEAN /\ s.lastSaveId \in Nat
    BY DEF Tabs
  <1>3. t = [status |-> "idle", version |-> version,
             savedDocument |-> Null, savedPageSize |-> pageSize,
             pendingDocument |-> Null, pendingPageSize |-> Null, base |-> 0,
             inFlight |-> NoSave, lastSaveId |-> s.lastSaveId, attempt |-> 0,
             online |-> s.online, timers |-> {}]
    BY DEF reset, createAutosaveState
  <1> QED
    BY <1>1, <1>2, <1>3 DEF Tabs, Statuses, AfreshOK

\* Rerender: the row the page was rendered from is the one the machine starts from again,
\* and what the editor shows includes as many writes of others.
LEMMA RerenderKeeps ==
    ASSUME TabAssumption, TabIInv, Rerender
    PROVE  TabIInv' /\ (TypedOK => TypedOK')
  <1> DEFINE row == render.row
  <1> DEFINE props == [version |-> row.version, pageSize |-> row.pageSize]
  <1> DEFINE again == reset(tab, row.version, row.pageSize)
  <1> DEFINE t == IF props = seed THEN tab ELSE again
  <1>1. /\ open /\ render # Null /\ render' = Null /\ seed' = props
        /\ Dispatch(t, wire)
        /\ room => UNCHANGED <<shown, view>>
        /\ ~room => shown' = row.document /\ view' = render.foreign
        /\ UNCHANGED <<note, foreign, typed, open, projected, room>>
    BY DEF Rerender, stored
  <1>2. /\ RenderOK /\ row \in Rows /\ row.version \in Nat /\ row.pageSize \in Sizes
        /\ row.document \in Docs /\ note \in Rows /\ seed \in Answers
    BY <1>1 DEF TabIInv, PageOK, RenderOK, Rows
  <1>3. /\ Core(tab, wire, view) /\ StatusOK(tab) /\ \A r \in wire : RequestOK(r)
        /\ tab \in Tabs /\ EnvOK /\ view \in 0..foreign
    BY <1>1, TabIs, EnvIsOK DEF Core
  <1>4. props \in Answers /\ props.version = row.version /\ props.pageSize = row.pageSize
    BY <1>2 DEF Answers
  <1> HIDE DEF row, props
  <1>4a. AfreshOK(tab, again, row.version, row.pageSize)
    BY <1>2, <1>3, ResetIs
  <1> HIDE DEF again
  <1>5. /\ again \in Tabs /\ again.status = "idle" /\ again.version = row.version
        /\ again.savedDocument = Null /\ again.savedPageSize = row.pageSize
        /\ again.pendingDocument = Null /\ again.pendingPageSize = Null
        /\ again.inFlight = NoSave /\ again.lastSaveId = tab.lastSaveId
    BY <1>4a DEF AfreshOK
  <1>6. tab' = t /\ wire' = wire
    BY <1>1, <1>3, <1>5 DEF Dispatch, Tabs
  <1>7. view' \in 0..foreign /\ shown' \in Docs
    BY <1>1, <1>2, <1>3 DEF RenderOK, TabIInv, PageOK
  <1>8. row.version <= note.version
        /\ (row.version = note.version => (~room => render.foreign = foreign) /\ row = note)
    BY <1>2 DEF RenderOK, row
  <1>9. PageOK'
    BY <1>1, <1>4, <1>7, <1>8 DEF TabIInv, PageOK
  <1>10. RoomOK' /\ SentOK'
    BY <1>1, <1>6 DEF TabIInv, RoomOK, SentOK, RequestOK
  <1>11. row.version = note.version => view' = foreign
    BY <1>1, <1>8 DEF TabIInv, RoomOK, PageOK
  <1>12. CASE props # seed
    <2>1. /\ ~hasPendingWork(again) /\ Idle(again) /\ again.inFlight.saveId = 0
          /\ Held(again) = Null
      BY <1>5 DEF hasPendingWork, Idle, NoSave, Held, Else
    <2>2. tab' = again
      BY <1>6, <1>12
    <2>3. Core(tab, wire, view)'
      <3>1. Fresh(tab, wire)'
        BY <1>3, <1>5, <1>6, <2>1, <2>2 DEF Core, Fresh, Idle, Tabs
      <3>2. Grounded(tab, view)'
        BY <1>1, <1>5, <1>8, <1>11, <2>1, <2>2 DEF Grounded, Idle, hasPendingWork
      <3>3. Covered(tab, wire, view)'
        BY <1>3, <1>6, <2>1, <2>2 DEF Covered, RequestOK
      <3>4. SavedOK(tab)'
        BY <1>1, <1>5, <1>8, <2>2 DEF SavedOK
      <3> QED  BY <1>5, <2>2, <3>1, <3>2, <3>3, <3>4 DEF Core
    <2>4. StatusOK(tab)'
      BY <1>5, <2>2 DEF StatusOK, ConflictOK
    <2>5. (~room => seed.version <= tab.version)'
      BY <1>1, <1>2, <1>4, <1>5, <2>2
    <2>6. TabOK'
      BY <2>3, <2>4, <2>5 DEF TabOK, Core, Fresh
    <2>7. TypedOK'
      BY <1>1, <2>1, <2>2 DEF TypedOK, Held
    <2> QED  BY <1>9, <1>10, <2>6, <2>7 DEF TabIInv
  <1>13. CASE props = seed
    <2>1. tab' = tab /\ row.version = seed.version
      BY <1>4, <1>6, <1>13
    <2>2. view' = view
      BY <1>1, <1>2, <2>1 DEF RenderOK, row
    <2>3. TabOK'
      BY <1>1, <1>6, <1>13, <2>1, <2>2
      DEF TabIInv, TabOK, Core, Fresh, Grounded, Covered, Matches, AnswerOK, SavedOK,
          StatusOK, ConflictOK
    <2>4. TypedOK => TypedOK'
      BY <1>1, <2>1 DEF TypedOK, Held
    <2> QED  BY <1>9, <1>10, <2>3, <2>4 DEF TabIInv
  <1> QED  BY <1>12, <1>13

----------------------------------------------------------------------------
(* The theorems.                                                           *)

LEMMA CreatedIs ==
    ASSUME TabAssumption, NEW version \in Nat, NEW document \in Docs, NEW pageSize \in Sizes,
           NEW online \in BOOLEAN
    PROVE  LET t == createAutosaveState(version, document, pageSize, online)
           IN  /\ t \in Tabs /\ t.status = "idle" /\ t.version = version
               /\ t.savedDocument = document /\ t.savedPageSize = pageSize
               /\ t.pendingDocument = Null /\ t.pendingPageSize = Null
               /\ t.inFlight = NoSave /\ t.lastSaveId = 0
  <1>1. NoSave \in Patch(0..MaxForeign) /\ 0 \in 0..SaveAttempts /\ 0 \in 0..MaxForeign
    BY DEF NoSave, Patch, TabAssumption
  <1> QED
    BY <1>1 DEF createAutosaveState, Tabs, Statuses

LEMMA TabInitHolds ==
    ASSUME TabAssumption, TabInit
    PROVE  TabIInv /\ TypedOK
  <1>0. PICK online \in BOOLEAN : online = TRUE
    OBVIOUS
  <1> DEFINE t == createAutosaveState(1, Opened, Paper, online)
  <1>1. /\ note = [version |-> 1, document |-> Opened, pageSize |-> Paper]
        /\ room \in Rooms /\ tab = t /\ wire = {} /\ shown = Opened /\ typed = Opened
        /\ seed = [version |-> 1, pageSize |-> Paper] /\ render = Null
        /\ projected = <<>> /\ open = TRUE /\ foreign = 0 /\ view = 0
    BY <1>0 DEF TabInit
  <1>2. /\ Opened \in Docs /\ Paper \in Sizes /\ Opened # Null
        /\ 0 \in 0..MaxForeign /\ 0 \in 0..SaveAttempts
    BY DEF TabAssumption
  <1>3. NoSave \in Patch(0..MaxForeign) /\ NoSave.saveId = 0 /\ NoSave.document = Null
    BY <1>2 DEF NoSave, Patch
  <1>4. 1 \in Nat
    OBVIOUS
  <1>5. /\ t \in Tabs /\ t.status = "idle" /\ t.version = 1
        /\ t.savedDocument = Opened /\ t.savedPageSize = Paper
        /\ t.pendingDocument = Null /\ t.pendingPageSize = Null
        /\ t.inFlight = NoSave /\ t.lastSaveId = 0
    BY <1>2, <1>4, CreatedIs
  <1> HIDE DEF t
  <1>6. /\ note \in Rows /\ note.version = 1 /\ note.document = Opened
        /\ note.pageSize = Paper
    BY <1>1, <1>2 DEF Rows
  <1>7. seed \in Answers /\ seed.version = 1
    BY <1>1, <1>2 DEF Answers
  <1>8. PageOK
    BY <1>1, <1>2, <1>6, <1>7 DEF PageOK
  <1>9. RoomOK /\ SentOK
    BY <1>1 DEF RoomOK, SentOK
  <1>10. ~hasPendingWork(t) /\ Idle(t) /\ Held(t) = Opened
    BY <1>2, <1>3, <1>5 DEF hasPendingWork, Idle, Held, Else
  <1>11. Core(tab, wire, view)
    BY <1>1, <1>3, <1>5, <1>6, <1>10 DEF Core, Fresh, Grounded, Covered, SavedOK
  <1>12. StatusOK(tab)
    BY <1>1, <1>5 DEF StatusOK, ConflictOK
  <1>13. TabOK
    BY <1>1, <1>5, <1>7, <1>11, <1>12 DEF TabOK, Core, Fresh
  <1> QED
    BY <1>1, <1>8, <1>9, <1>10, <1>13 DEF TabIInv, TypedOK

LEMMA TabNextKeeps ==
    ASSUME TabAssumption, TabIInv, [TabNext]_tabVars
    PROVE  TabIInv' /\ (TypedOK => TypedOK')
  <1>1. CASE \E d \in Docs : Type(d)
    BY <1>1, TypeKeeps
  <1>2. CASE \E d \in Docs : ForeignWrite(d)
    BY <1>2, ForeignKeeps
  <1>3. CASE \E p \in Sizes : requestPageSize(p)
    BY <1>3, PageSizeKeeps
  <1>4. CASE \E timer \in {"debounce", "retry"} : Elapse(timer)
    BY <1>4, ElapseKeeps
  <1>5. CASE Flush
    BY <1>5, FlushKeeps
  <1>6. CASE handleOffline \/ handleOnline \/ retry
    BY <1>6, NetworkKeeps
  <1>7. CASE Unmount
    BY <1>7, UnmountKeeps
  <1>8. CASE Answered
    <2>1. PICK r \in wire : update(r) \/ performSave(r)
      BY <1>8 DEF Answered
    <2> QED  BY <2>1, UpdateKeeps, PerformKeeps
  <1>9. CASE \E r \in wire : NoAnswer(r) \/ Refuse(r)
    BY <1>9, NoAnswerKeeps, RefuseKeeps
  <1>10. CASE applyExternalVersion
    BY <1>10, ExternalVersionKeeps
  <1>11. CASE \E cause \in {"reload", "task"} : refresh(cause)
    BY <1>11, RefreshKeeps
  <1>12. CASE Rerender
    BY <1>12, RerenderKeeps
  <1>13. CASE UNCHANGED tabVars
    BY <1>13 DEF tabVars, TabIInv, PageOK, RenderOK, RoomOK, SentOK, RequestOK, TabOK, Core,
       Fresh, Grounded, Covered, Matches, AnswerOK, SavedOK, StatusOK, ConflictOK,
       TypedOK
  <1> QED
    BY <1>1, <1>2, <1>3, <1>4, <1>5, <1>6, <1>7, <1>8, <1>9, <1>10, <1>11, <1>12, <1>13
    DEF TabNext

\* The machine's knowledge of the row: whatever the tab would send over the version the
\* row has was composed by a writer who had been shown everything in it.
THEOREM TabIsGrounded == TabSpec => []TabIInv
  <1>1. TabInit => TabIInv
    BY TabInitHolds, TabAssumption
  <1>2. TabIInv /\ [TabNext]_tabVars => TabIInv'
    BY TabNextKeeps, TabAssumption
  <1> QED  BY <1>1, <1>2, PTL DEF TabSpec

\* "The local document is never re-sent over a newer server version" (use-reliable-save and
\* the autosave machine): a patch the server accepts carries the work of a writer who had
\* been shown every write of somebody else, whatever was lost, retried or rendered again,
\* alone or in a room.
THEOREM NoUpdateIsLost == TabSpec => NoLostUpdate
  <1> DEFINE Shown == \A r \in wire : Accepted(r) => r.base = foreign
  <1>1. TabIInv /\ [TabNext]_tabVars => [Shown]_tabVars
    <2> SUFFICES ASSUME TabIInv, TabNext, NEW r \in wire, Accepted(r)
                 PROVE  r.base = foreign
      OBVIOUS
    <2>1. r \notin wire' /\ note' # note /\ r.kind = "sent" /\ RequestOK(r)
      BY DEF Accepted, TabIInv, SentOK
    <2>2. \/ \E d \in Docs : ForeignWrite(d)
          \/ \E q \in wire : update(q)
      BY <2>1 DEF TabNext, Type, requestPageSize, Elapse, Flush, handleOffline, handleOnline,
                  retry, Unmount, Answered, performSave, NoAnswer, Refuse,
                  applyExternalVersion, refresh, Rerender, stored
    <2>3. PICK q \in wire : update(q)
      BY <2>1, <2>2 DEF ForeignWrite
    <2>4. q.expected = note.version /\ r = q
      BY <2>1, <2>3 DEF update
    <2> QED  BY <2>1, <2>4 DEF RequestOK
  <1>2. TabSpec => []TabIInv
    BY TabIsGrounded
  <1>3. TabSpec => [][Shown]_tabVars
    BY <1>1, <1>2, PTL DEF TabSpec
  <1> QED  BY <1>3 DEF NoLostUpdate

\* Nothing the writer typed drops out of the machine until a newer row re-seeds it, whatever
\* is lost, retried or rendered again, and the version it would save over names what it
\* believes is saved (autosave-machine.ts, useNoteAutosave.ts).
THEOREM TypedIsKept == TabSpec => []TabInv
  <1>1. TabInit => TabIInv /\ TypedOK
    BY TabInitHolds, TabAssumption
  <1>2. (TabIInv /\ TypedOK) /\ [TabNext]_tabVars => (TabIInv /\ TypedOK)'
    BY TabNextKeeps, TabAssumption
  <1>3. TabIInv /\ TypedOK => TabInv
    <2> SUFFICES ASSUME TabIInv, TypedOK
                 PROVE  TabTypeOK /\ TypedIsHeld /\ VersionNamesSaved
      BY DEF TabInv
    <2>1. /\ tab \in Tabs /\ SavedOK(tab) /\ StatusOK(tab) /\ note \in Rows
          /\ ~Idle(tab) => tab.inFlight.document # Null \/ tab.inFlight.pageSize # Null
      BY DEF TabIInv, TabOK, PageOK
    <2>2. TabTypeOK
      BY <2>1 DEF TabTypeOK, Tabs, Rows, StatusOK, ConflictOK
    <2>3. TypedIsHeld
      <3> SUFFICES ASSUME ~room, open, tab.savedDocument # Null
                   PROVE  typed = Held(tab)
        BY DEF TypedIsHeld
      <3>1. Held(tab) # Null
        BY DEF Held, Else
      <3> QED  BY <3>1 DEF TypedOK
    <2>4. VersionNamesSaved
      BY <2>1 DEF VersionNamesSaved, SavedOK
    <2> QED  BY <2>2, <2>3, <2>4
  <1> QED  BY <1>1, <1>2, <1>3, PTL DEF TabSpec

----------------------------------------------------------------------------
(* Claims of domains.  A call acts on a claim that it read before, so what *)
(* it read must still be told from what is there: ids are given once, in   *)
(* order, a claim keeps its workspace and its host for as long as its id   *)
(* lives (Read), and a claim that is about to be written holds the row of  *)
(* its workspace and both its hosts (CommitOK, CommitsApart).  What a      *)
(* replica remembers of the watched host is as true as the lookup it came  *)
(* from (LookupIsTrue).                                                    *)

\* The values of the variables.
ClaimRows ==
    [id : Nat, tenant : Tenants, host : Hosts, status : {"pending", "verified", "error"}]

DomainCalls ==
    [op : {"none", "set", "verify", "remove"},
     pc : {"idle", "dns", "write", "commit", "invalidate"},
     tenant : Tenants \cup {Nobody}, host : Hosts \cup {Nobody},
     row : ClaimRows \cup {Nobody}, ok : BOOLEAN]

DomainTyped ==
    /\ claims \subseteq ClaimRows
    /\ minted \in Nat
    /\ mirror \in [Tenants -> Hosts \cup {Nobody}]
    /\ call \in [Calls -> DomainCalls]
    /\ cache \in {"unknown", "trusted", "late", "refused"}
    /\ lookup \in {"none", "yes", "late", "no"}

\* What a call has read keeps its id: a claim of that id has this workspace and this host.
Read(row) ==
    /\ row \in ClaimRows
    /\ row.id <= minted
    /\ \A e \in claims : e.id = row.id => e.tenant = row.tenant /\ e.host = row.host

\* What a call is going to do is what it was asked to, to the claim that it has read.
CallOK(c) ==
    /\ call[c].op = "set" =>
          /\ call[c].tenant \in Tenants /\ call[c].host \in Hosts
          /\ call[c].pc \in {"write", "commit"}
          /\ call[c].row # Nobody => Read(call[c].row) /\ call[c].row.tenant = call[c].tenant
    /\ call[c].op \in {"verify", "remove"} =>
          Read(call[c].row) /\ call[c].row # Nobody /\ call[c].pc # "idle"
    /\ call[c].pc = "invalidate" => call[c].op \in {"verify", "remove"}
    /\ call[c].op = "verify" /\ call[c].ok => call[c].row.id \in proved

\* The transaction of a new claim is open.
Committing(c) == Domains!At(c, "set", "commit")

\* Nothing is in the way of a claim that is going to be committed.
CommitOK(c) ==
    Committing(c) =>
        \A e \in Domains!Without(call[c].row) :
            e.tenant # call[c].tenant /\ e.host # call[c].host

\* Two claims are never committed at once for one workspace or one host.
CommitsApart ==
    \A c, d \in Calls :
        Committing(c) /\ Committing(d) /\ c # d =>
            call[c].tenant # call[d].tenant /\ call[c].host # call[d].host

\* An id that is still to be given is the id of no claim.
IdsAreGiven == \A c \in claims : c.id <= minted

\* The answer that a replica is going to remember was not outdated since it was read.
LookupIsTrue == lookup = "yes" => Domains!Verified(Watched)

\* The inductive invariant.
DomainIInv ==
    /\ DomainTyped
    /\ IdsAreGiven
    /\ \A c \in Calls : CallOK(c) /\ CommitOK(c)
    /\ CommitsApart
    /\ LookupIsTrue
    /\ Domains!DomainInv



LEMMA SameCardinality == ASSUME NEW S PROVE Domains!Cardinality(S) = Cardinality(S)
  BY Zenon DEF Domains!Cardinality, Cardinality

LEMMA DomainInitIInv == Domains!DomainInit => DomainIInv
  <1> SUFFICES ASSUME Domains!DomainInit PROVE DomainIInv
    OBVIOUS
  <1> USE DEF Domains!DomainInit
  <1>1. /\ claims \subseteq ClaimRows /\ minted \in Nat /\ IdsAreGiven
        /\ mirror \in [Tenants -> Hosts \cup {Nobody}]
        /\ Domains!OneClaimEach /\ Domains!MirrorHolds
    <2>1. CASE claims = {} /\ mirror = [t \in Tenants |-> Nobody]
      <3>1. minted = 0
        BY <2>1, FS_EmptySet, SameCardinality
      <3>2. QED  BY <2>1, <3>1 DEF IdsAreGiven, Domains!OneClaimEach, Domains!MirrorHolds
    <2>2. CASE \E t \in Tenants, h \in Hosts :
                  /\ claims = {Domains!Claim(1, t, h, "verified")}
                  /\ mirror = [u \in Tenants |-> IF u = t THEN h ELSE Nobody]
      <3>1. PICK t \in Tenants, h \in Hosts :
                  /\ claims = {Domains!Claim(1, t, h, "verified")}
                  /\ mirror = [u \in Tenants |-> IF u = t THEN h ELSE Nobody]
        BY <2>2
      <3>2. minted = 1
        BY <3>1, FS_Singleton, SameCardinality
      <3>3. QED
        BY <3>1, <3>2 DEF Domains!Claim, ClaimRows, IdsAreGiven, Domains!OneClaimEach,
                          Domains!MirrorHolds
    <2>3. QED  BY <2>1, <2>2
  <1>2. call \in [Calls -> DomainCalls]
    BY DEF Domains!Free, DomainCalls
  <1>3. \A c \in Calls : call[c] = Domains!Free
    OBVIOUS
  <1>4. \A c \in Calls : CallOK(c) /\ CommitOK(c)
    BY <1>3 DEF CallOK, CommitOK, Committing, Domains!At, Domains!Free
  <1>5. CommitsApart
    BY <1>3 DEF CommitsApart, Committing, Domains!At, Domains!Free
  <1>6. Domains!VerifiedIsProved /\ Domains!ReleaseIsSeen /\ LookupIsTrue
    BY DEF Domains!VerifiedIsProved, Domains!ReleaseIsSeen, LookupIsTrue
  <1>7. DomainTyped
    BY <1>1, <1>2 DEF DomainTyped
  <1>8. QED
    BY <1>1, <1>4, <1>5, <1>6, <1>7 DEF DomainIInv, Domains!DomainInv


\* A step that writes no claim keeps the invariant if what its call has become is right.
LEMMA CallKeeps ==
  ASSUME DomainIInv, NEW c \in Calls, NEW q \in DomainCalls,
         call' = [call EXCEPT ![c] = q],
         UNCHANGED <<claims, minted, mirror, unmirrored, lookup>>,
         proved \subseteq proved',
         CallOK(c)', CommitOK(c)',
         Committing(c)' =>
            \A d \in Calls : Committing(d) =>
                q.tenant # call[d].tenant /\ q.host # call[d].host,
         \/ cache' = "unknown"
         \/ cache' = cache /\ (call[c].pc = "invalidate" => call[c].row.host # Watched)
  PROVE  DomainIInv'
  <1> USE DEF DomainIInv, DomainTyped
  <1>1. /\ call' \in [Calls -> DomainCalls] /\ \A d \in Calls \ {c} : call'[d] = call[d]
        /\ call'[c] = q
    OBVIOUS
  <1>2. \A d \in Calls \ {c} : (Committing(d)' <=> Committing(d)) /\ CallOK(d)' /\ CommitOK(d)'
    BY <1>1 DEF CallOK, Read, CommitOK, Committing, Domains!At, Domains!Without
  <1>3. CommitsApart'
    BY <1>1, <1>2 DEF CommitsApart
  <1>4. Domains!ReleaseIsSeen'
    BY <1>1 DEF Domains!DomainInv, Domains!ReleaseIsSeen, Domains!Verified
  <1>5. /\ IdsAreGiven' /\ LookupIsTrue' /\ Domains!OneClaimEach' /\ Domains!VerifiedIsProved'
        /\ Domains!MirrorHolds'
    BY DEF IdsAreGiven, LookupIsTrue, Domains!DomainInv, Domains!OneClaimEach,
           Domains!VerifiedIsProved, Domains!MirrorHolds, Domains!Verified
  <1>6. QED
    BY <1>1, <1>2, <1>3, <1>4, <1>5 DEF Domains!DomainInv

LEMMA LoadKeeps ==
  ASSUME DomainIInv, NEW c \in Calls, Domains!load(c)
  PROVE  DomainIInv'
  <1> USE DEF DomainIInv, DomainTyped
  <1>1. PICK t \in Tenants, row \in claims \cup {Nobody} :
           \/ \E h \in Hosts : Domains!Begin(c, "set", t, h, row)
           \/ \E op \in {"verify", "remove"} : Domains!Begin(c, op, t, Nobody, row)
    BY DEF Domains!load
  <1>2. PICK op \in {"set", "verify", "remove"}, h \in Hosts \cup {Nobody} :
           Domains!Begin(c, op, t, h, row) /\ (op = "set" => h \in Hosts)
    BY <1>1
  <1> DEFINE q == [op |-> op, pc |-> IF op = "verify" THEN "dns" ELSE "write",
                   tenant |-> t, host |-> h, row |-> row, ok |-> FALSE]
  <1>3. /\ UNCHANGED <<claims, minted, mirror, proved, unmirrored, cache, lookup>>
        /\ call[c] = Domains!Free /\ call' = [call EXCEPT ![c] = q]
        /\ op # "set" => row # Nobody
        /\ row # Nobody => row.tenant = t
    BY <1>2 DEF Domains!Begin
  <1>4. row # Nobody => row \in ClaimRows /\ Read(row)'
    BY <1>3 DEF Read, IdsAreGiven, Domains!DomainInv, Domains!OneClaimEach
  <1>5. q \in DomainCalls /\ call'[c] = q
    BY <1>3, <1>4 DEF DomainCalls
  <1>6. CallOK(c)' /\ ~Committing(c)' /\ CommitOK(c)'
    BY <1>2, <1>3, <1>4, <1>5 DEF CallOK, Committing, CommitOK, Domains!At
  <1>7. call[c].pc # "invalidate"
    BY <1>3 DEF Domains!Free
  <1> HIDE DEF q
  <1>8. QED
    BY <1>3, <1>5, <1>6, <1>7, CallKeeps

\* A call that is over has nothing to keep.
LEMMA EndKeeps ==
  ASSUME DomainIInv, NEW c \in Calls, Domains!Ends(c),
         UNCHANGED <<claims, minted, mirror, proved, unmirrored, lookup>>,
         \/ cache' = "unknown"
         \/ cache' = cache /\ (call[c].pc = "invalidate" => call[c].row.host # Watched)
  PROVE  DomainIInv'
  <1>1. Domains!Free \in DomainCalls
    BY DEF Domains!Free, DomainCalls
  <1>2. call' = [call EXCEPT ![c] = Domains!Free] /\ call'[c] = Domains!Free
    BY DEF Domains!Ends, DomainIInv, DomainTyped
  <1>3. CallOK(c)' /\ ~Committing(c)' /\ CommitOK(c)'
    BY <1>2 DEF CallOK, Committing, CommitOK, Domains!At, Domains!Free
  <1>4. QED
    BY <1>1, <1>2, <1>3, CallKeeps

LEMMA SetKeeps ==
  ASSUME DomainIInv, NEW c \in Calls, Domains!set(c)
  PROVE  DomainIInv'
  <1> DEFINE q == [call[c] EXCEPT !.pc = "commit"]
  <1>1. /\ call[c].op = "set" /\ call[c].pc = "write"
        /\ UNCHANGED <<claims, minted, mirror, proved, unmirrored, lookup>>
        /\ cache' = cache \/ cache' = "unknown"
    BY DEF Domains!set, Domains!At, Domains!Forget
  <1>2. CASE Domains!Ends(c)
    BY <1>1, <1>2, EndKeeps
  <1>3. CASE /\ call' = [call EXCEPT ![c].pc = "commit"]
             /\ \A e \in Domains!Without(call[c].row) :
                   e.tenant # call[c].tenant /\ e.host # call[c].host
    <2>1. CallOK(c) /\ call[c] \in DomainCalls /\ call' = [call EXCEPT ![c] = q]
      BY <1>3 DEF DomainIInv, DomainTyped
    <2>2. q \in DomainCalls /\ call'[c] = q
      BY <2>1 DEF DomainCalls, DomainIInv, DomainTyped
    <2>3. CallOK(c)'
      BY <1>1, <2>1, <2>2 DEF CallOK, Read, DomainCalls
    <2>4. CommitOK(c)'
      BY <1>1, <1>3, <2>1, <2>2 DEF CommitOK, Domains!Without, DomainCalls
    <2>5. \A d \in Calls : Committing(d) =>
             q.tenant # call[d].tenant /\ q.host # call[d].host
      BY <2>1 DEF Domains!set, Domains!Unlocked, Domains!Undecided, Committing, DomainCalls
    <2> HIDE DEF q
    <2>6. QED
      BY <1>1, <2>1, <2>2, <2>3, <2>4, <2>5, CallKeeps
  <1>4. \/ Domains!Ends(c)
        \/ /\ Domains!Goes(c, "commit")
           /\ \A e \in Domains!Without(call[c].row) :
                 ~(e.tenant = call[c].tenant \/ e.host = call[c].host)
    BY DEF Domains!set
  <1>5. QED
    BY <1>2, <1>3, <1>4 DEF Domains!Goes

LEMMA VerifyDomainKeeps ==
  ASSUME DomainIInv, NEW c \in Calls, Domains!verifyDomain(c)
  PROVE  DomainIInv'
  <1> USE DEF DomainIInv, DomainTyped
  <1>1. PICK ok \in BOOLEAN :
          /\ call' = [call EXCEPT ![c].ok = ok, ![c].pc = "write"]
          /\ proved' = IF ok THEN proved \cup {call[c].row.id} ELSE proved
    BY Zenon DEF Domains!verifyDomain
  <1>2. /\ UNCHANGED <<claims, minted, mirror, unmirrored, cache, lookup>>
        /\ call[c].op = "verify" /\ call[c].pc = "dns"
    BY DEF Domains!verifyDomain, Domains!At
  <1> DEFINE q == [call[c] EXCEPT !.ok = ok, !.pc = "write"]
  <1>3. CallOK(c) /\ call[c] \in DomainCalls /\ call' = [call EXCEPT ![c] = q] /\ call'[c] = q
    BY <1>1
  <1>4. q \in DomainCalls
    BY <1>3 DEF DomainCalls
  <1>5. CallOK(c)' /\ ~Committing(c)' /\ CommitOK(c)'
    BY <1>1, <1>2, <1>3, <1>4 DEF CallOK, Read, Committing, CommitOK, Domains!At, DomainCalls
  <1> HIDE DEF q
  <1>6. QED
    BY <1>1, <1>2, <1>3, <1>4, <1>5, CallKeeps

LEMMA InvalidateKeeps ==
  ASSUME DomainIInv, NEW c \in Calls, Domains!invalidate(c)
  PROVE  DomainIInv'
  <1>1. /\ Domains!Ends(c) /\ UNCHANGED <<claims, minted, mirror, proved, unmirrored, lookup>>
        /\ \/ cache' = "unknown"
           \/ cache' = cache /\ call[c].row.host # Watched
    BY DEF Domains!invalidate, Domains!Forget
  <1>2. QED
    BY <1>1, EndKeeps

LEMMA CacheKeeps ==
  ASSUME DomainIInv,
         Domains!isVerifiedTenantHost \/ Domains!remembers \/ Domains!Expire
  PROVE  DomainIInv'
  <1> USE DEF DomainIInv
  <1>1. UNCHANGED <<claims, minted, mirror, proved, unmirrored, call>>
    BY DEF Domains!isVerifiedTenantHost, Domains!remembers, Domains!Expire, Domains!elsewhere
  <1>2. /\ cache' \in {"unknown", "trusted", "late", "refused"}
        /\ lookup' \in {"none", "yes", "late", "no"}
        /\ lookup' = "yes" => lookup = "yes" \/ Domains!Verified(Watched)
        /\ cache' = "trusted" => cache = "trusted" \/ lookup = "yes"
    BY DEF Domains!isVerifiedTenantHost, Domains!remembers, Domains!Expire, DomainTyped
  <1>3. /\ IdsAreGiven' /\ CommitsApart'
        /\ Domains!OneClaimEach' /\ Domains!VerifiedIsProved' /\ Domains!MirrorHolds'
    BY <1>1 DEF IdsAreGiven, CommitsApart, Committing, Domains!At, Domains!DomainInv,
                Domains!OneClaimEach, Domains!VerifiedIsProved, Domains!MirrorHolds
  <1>4. \A d \in Calls : CallOK(d)' /\ CommitOK(d)'
    BY <1>1 DEF CallOK, Read, CommitOK, Committing, Domains!At, Domains!Without
  <1>5. DomainTyped' /\ LookupIsTrue' /\ Domains!ReleaseIsSeen'
    BY <1>1, <1>2 DEF DomainTyped, LookupIsTrue, Domains!DomainInv, Domains!ReleaseIsSeen,
                      Domains!Verified
  <1>6. QED
    BY <1>3, <1>4, <1>5 DEF Domains!DomainInv

LEMMA SetCommitKeeps ==
  ASSUME DomainIInv, NEW c \in Calls, Domains!setCommit(c)
  PROVE  DomainIInv'
  <1> USE DEF DomainIInv, DomainTyped
  <1> DEFINE t == call[c].tenant
             row == call[c].row
             new == Domains!Claim(minted + 1, t, call[c].host, "pending")
  <1>1. /\ Committing(c) /\ minted' = minted + 1 /\ claims' = Domains!Without(row) \cup {new}
        /\ mirror' = [mirror EXCEPT ![t] = Nobody]
        /\ call' = [call EXCEPT ![c] = Domains!Free]
        /\ proved' = proved /\ unmirrored' = unmirrored
    BY DEF Domains!setCommit, Committing, Domains!Ends
  <1>2. CallOK(c) /\ CommitOK(c)
    OBVIOUS
  <1>3. /\ t \in Tenants /\ call[c].host \in Hosts /\ call[c].op = "set" /\ call[c].pc = "commit"
        /\ row # Nobody => Read(row) /\ row.tenant = t
        /\ \A e \in Domains!Without(row) : e.tenant # t /\ e.host # call[c].host
    BY <1>1, <1>2 DEF CallOK, CommitOK, Committing, Domains!At
  <1>4. /\ new \in ClaimRows /\ new.id = minted + 1 /\ new.tenant = t
        /\ new.host = call[c].host /\ new.status = "pending"
    BY <1>3 DEF Domains!Claim, ClaimRows
  <1> HIDE DEF new
  <1>5. Domains!Without(row) \subseteq claims
    BY DEF Domains!Without
  <1>6. \A e \in claims \ Domains!Without(row) :
            row # Nobody /\ e.tenant = t /\ e.host = row.host
    BY <1>3 DEF Domains!Without, Read
  <1>7. /\ Domains!Free \in DomainCalls /\ call' \in [Calls -> DomainCalls]
        /\ call'[c] = Domains!Free /\ \A d \in Calls \ {c} : call'[d] = call[d]
    BY <1>1 DEF Domains!Free, DomainCalls
  <1>8. IdsAreGiven' /\ \A e \in claims : e.id \in Nat /\ e.id <= minted
    BY <1>1, <1>4, <1>5 DEF IdsAreGiven, ClaimRows
  <1>9. CallOK(c)' /\ CommitOK(c)' /\ ~Committing(c)'
    BY <1>7 DEF CallOK, CommitOK, Committing, Domains!At, Domains!Free
  <1>10. ASSUME NEW d \in Calls \ {c}
         PROVE  CallOK(d)' /\ CommitOK(d)' /\ (Committing(d)' <=> Committing(d))
    <2>1. CallOK(d) /\ CommitOK(d) /\ call'[d] = call[d]
      BY <1>7
    <2>2. ASSUME NEW r, Read(r)
          PROVE  Read(r)'
      BY <2>2, <1>1, <1>4, <1>5, <1>8 DEF Read, ClaimRows
    <2>3. Committing(d)' <=> Committing(d)
      BY <2>1 DEF Committing, Domains!At
    <2>4. Committing(d) => new.tenant # call[d].tenant /\ new.host # call[d].host
      BY <1>1, <1>4 DEF CommitsApart
    <2>5. \A e \in Domains!Without(call[d].row)' : e \in Domains!Without(call[d].row) \/ e = new
      BY <1>1, <1>5, <2>1 DEF Domains!Without
    <2>6. CommitOK(d)'
      BY <2>1, <2>3, <2>4, <2>5 DEF CommitOK
    <2>7. CallOK(d)'
      BY <1>1, <2>1, <2>2 DEF CallOK
    <2>8. QED
      BY <2>3, <2>6, <2>7
  <1>11. CommitsApart'
    BY <1>7, <1>9, <1>10 DEF CommitsApart
  <1>12. Domains!OneClaimEach'
    BY <1>1, <1>3, <1>4, <1>5, <1>8 DEF Domains!DomainInv, Domains!OneClaimEach
  <1>13. Domains!VerifiedIsProved'
    BY <1>1, <1>4, <1>5 DEF Domains!DomainInv, Domains!VerifiedIsProved
  <1>14. Domains!MirrorHolds'
    <2> SUFFICES ASSUME NEW u \in Tenants
                 PROVE  (/\ mirror[u] # Nobody =>
                             \E e \in claims : /\ e.tenant = u /\ e.host = mirror[u]
                                               /\ e.status = "verified"
                         /\ \A e \in claims : e.tenant = u /\ e.status = "verified"
                                               /\ e.id \notin unmirrored => mirror[u] = e.host)'
      BY DEF Domains!MirrorHolds
    <2>1. CASE u = t
      BY <2>1, <1>1, <1>3, <1>4
    <2>2. CASE u # t
      <3>1. mirror'[u] = mirror[u]
        BY <1>1, <2>2
      <3>2. \A e \in claims : e.tenant = u => e \in claims'
        BY <1>1, <1>6, <2>2
      <3>3. \A e \in claims' : e.tenant = u => e \in claims
        BY <1>1, <1>4, <1>5, <2>2
      <3>4. QED
        BY <1>1, <3>1, <3>2, <3>3 DEF Domains!DomainInv, Domains!MirrorHolds
    <2>3. QED  BY <2>1, <2>2
  <1>15. Domains!ReleaseIsSeen' /\ LookupIsTrue'
    <2>1. CASE row = Nobody \/ row.host # Watched
      <3>1. UNCHANGED <<cache, lookup>>
        BY <2>1 DEF Domains!setCommit, Domains!Outdates
      <3>2. Domains!Verified(Watched) => Domains!Verified(Watched)'
        BY <1>1, <1>6, <2>1 DEF Domains!Verified
      <3>3. QED
        BY <1>3, <1>7, <3>1, <3>2 DEF Domains!DomainInv, Domains!ReleaseIsSeen, LookupIsTrue
    <2>2. CASE row # Nobody /\ row.host = Watched
      <3>1. cache' # "trusted" /\ lookup' # "yes"
        BY <2>2 DEF Domains!setCommit, Domains!Outdates
      <3>2. QED  BY <3>1 DEF Domains!ReleaseIsSeen, LookupIsTrue
    <2>3. QED  BY <2>1, <2>2
  <1>16. DomainTyped'
    <2>1. cache' \in {"unknown", "trusted", "late", "refused"}
          /\ lookup' \in {"none", "yes", "late", "no"}
      BY DEF Domains!setCommit, Domains!Outdates
    <2>2. mirror' \in [Tenants -> Hosts \cup {Nobody}]
      BY <1>1
    <2>3. claims' \subseteq ClaimRows /\ minted' \in Nat
      BY <1>1, <1>4, <1>5
    <2>4. QED  BY <1>7, <2>1, <2>2, <2>3
  <1>17. QED
    BY <1>8, <1>9, <1>10, <1>11, <1>12, <1>13, <1>14, <1>15, <1>16 DEF Domains!DomainInv

\* A call that may go on to forget the host is as it was, or over.
LEMMA GoesOnKeeps ==
  ASSUME DomainTyped, NEW c \in Calls, CallOK(c), ~Committing(c),
         call[c].op \in {"verify", "remove"}, NEW here \in BOOLEAN, Domains!GoesOn(c, here),
         NEW r, r = call[c].row, Read(r)', proved' = proved
  PROVE  /\ call' \in [Calls -> DomainCalls]
         /\ \A d \in Calls \ {c} : call'[d] = call[d]
         /\ CallOK(c)' /\ CommitOK(c)' /\ ~Committing(c)'
         /\ here => call'[c].pc = "invalidate" /\ call'[c].row = call[c].row
  <1> USE DEF DomainTyped
  <1>1. CASE here
    <2>1. call' = [call EXCEPT ![c].pc = "invalidate"] /\ call[c] \in DomainCalls
      BY <1>1 DEF Domains!GoesOn, Domains!Goes
    <2>2. call'[c] = [call[c] EXCEPT !.pc = "invalidate"] /\ call'[c] \in DomainCalls
      BY <2>1 DEF DomainCalls
    <2>3. CallOK(c)' /\ ~Committing(c)'
      BY <2>2 DEF CallOK, Read, Committing, Domains!At, DomainCalls
    <2>4. QED
      BY <2>1, <2>2, <2>3 DEF CommitOK, DomainCalls
  <1>2. CASE ~here
    <2>1. call' = [call EXCEPT ![c] = Domains!Free] /\ Domains!Free \in DomainCalls
      BY <1>2 DEF Domains!GoesOn, Domains!Ends, Domains!Free, DomainCalls
    <2>2. call'[c] = Domains!Free
      BY <2>1
    <2>3. CallOK(c)' /\ ~Committing(c)'
      BY <2>2 DEF CallOK, Committing, Domains!At, Domains!Free
    <2>4. QED
      BY <1>2, <2>1, <2>2, <2>3 DEF CommitOK
  <1>3. QED  BY <1>1, <1>2

\* Claims that keep their ids, workspaces and hosts are in nobody's way.
LEMMA SameNamesKeep ==
  ASSUME DomainIInv, NEW c \in Calls, minted' = minted, proved' = proved,
         \A f \in claims' : \E e \in claims :
             f.id = e.id /\ f.tenant = e.tenant /\ f.host = e.host,
         call' \in [Calls -> DomainCalls],
         \A d \in Calls \ {c} : call'[d] = call[d],
         CallOK(c)', ~Committing(c)'
  PROVE  /\ IdsAreGiven' /\ CommitsApart'
         /\ \A d \in Calls : CallOK(d)' /\ CommitOK(d)'
  <1>1. IdsAreGiven'
    BY DEF IdsAreGiven, DomainIInv
  <1>2. ASSUME NEW d \in Calls \ {c}
        PROVE  CallOK(d)' /\ CommitOK(d)' /\ (Committing(d)' <=> Committing(d))
    <2>1. CallOK(d) /\ CommitOK(d) /\ call'[d] = call[d]
      BY DEF DomainIInv
    <2>2. ASSUME NEW r, Read(r)
          PROVE  Read(r)'
      BY <2>2 DEF Read
    <2>3. CallOK(d)'
      BY <2>1, <2>2 DEF CallOK
    <2>4. Committing(d)' <=> Committing(d)
      BY <2>1 DEF Committing, Domains!At
    <2>5. \A f \in Domains!Without(call[d].row)' :
             \E e \in Domains!Without(call[d].row) : f.tenant = e.tenant /\ f.host = e.host
      BY <2>1 DEF Domains!Without
    <2>6. QED
      BY <2>1, <2>3, <2>4, <2>5 DEF CommitOK
  <1>3. CommitOK(c)' /\ CommitsApart'
    BY <1>2 DEF CommitOK, CommitsApart, DomainIInv
  <1>4. QED
    BY <1>1, <1>2, <1>3

LEMMA RemoveKeeps ==
  ASSUME DomainIInv, NEW c \in Calls, Domains!remove(c)
  PROVE  DomainIInv'
  <1> DEFINE row == call[c].row
  <1>1. PICK here \in BOOLEAN :
          /\ Domains!GoesOn(c, here)
          /\ IF Domains!Present(row) THEN Domains!Outdates(row.host, here)
             ELSE UNCHANGED <<cache, lookup>>
    BY DEF Domains!remove
  <1>2. /\ call[c].op = "remove" /\ call[c].pc = "write"
        /\ claims' = Domains!Without(row) /\ minted' = minted /\ proved' = proved
        /\ mirror' = [mirror EXCEPT ![row.tenant] = Nobody]
        /\ \A e \in claims : e.tenant = row.tenant /\ e.id # row.id /\ e.status = "verified"
                  => e.id \in unmirrored'
        /\ unmirrored \subseteq unmirrored'
    BY DEF Domains!remove, Domains!At
  <1>3. CallOK(c) /\ Read(row) /\ row # Nobody
    BY <1>2 DEF DomainIInv, CallOK
  <1>4. \A e \in claims : e \notin claims' <=> (row # Nobody /\ e.id = row.id)
    BY <1>2 DEF Domains!Without
  <1>5. claims' \subseteq claims
    BY <1>2 DEF Domains!Without
  <1>6. \A r : r = row => Read(r)'
    BY <1>2, <1>3, <1>5 DEF Read
  <1>7. ~Committing(c)
    BY <1>2 DEF Committing, Domains!At
  <1>8. /\ call' \in [Calls -> DomainCalls]
        /\ \A d \in Calls \ {c} : call'[d] = call[d]
        /\ CallOK(c)' /\ CommitOK(c)' /\ ~Committing(c)'
        /\ here => call'[c].pc = "invalidate" /\ call'[c].row = row
    BY <1>1, <1>2, <1>3, <1>6, <1>7, GoesOnKeeps DEF DomainIInv
  <1>9. /\ IdsAreGiven' /\ CommitsApart'
        /\ \A d \in Calls : CallOK(d)' /\ CommitOK(d)'
    BY <1>2, <1>5, <1>8, SameNamesKeep
  <1>10. Domains!OneClaimEach' /\ Domains!VerifiedIsProved'
    BY <1>2, <1>5 DEF DomainIInv, Domains!DomainInv, Domains!OneClaimEach,
                      Domains!VerifiedIsProved
  <1>11. row.tenant \in Tenants /\ \A e \in claims : e.id = row.id => e.tenant = row.tenant /\ e.host = row.host
    BY <1>3 DEF Read, ClaimRows
  <1>12. Domains!MirrorHolds'
    <2> SUFFICES ASSUME NEW u \in Tenants
                 PROVE  (/\ mirror[u] # Nobody =>
                             \E e \in claims : /\ e.tenant = u /\ e.host = mirror[u]
                                               /\ e.status = "verified"
                         /\ \A e \in claims : e.tenant = u /\ e.status = "verified"
                                               /\ e.id \notin unmirrored => mirror[u] = e.host)'
      BY DEF Domains!MirrorHolds
    <2>1. CASE u = row.tenant
      BY <2>1, <1>2, <1>4, <1>5, <1>3 DEF DomainIInv, DomainTyped, Read
    <2>2. CASE u # row.tenant
      <3>1. mirror'[u] = mirror[u]
        BY <1>2, <2>2 DEF DomainIInv, DomainTyped
      <3>2. \A e \in claims : e.tenant = u => e \in claims'
        BY <1>4, <1>11, <2>2
      <3>3. QED
        BY <1>2, <1>5, <3>1, <3>2 DEF DomainIInv, Domains!DomainInv, Domains!MirrorHolds
    <2>3. QED  BY <2>1, <2>2
  <1>13. Domains!ReleaseIsSeen' /\ LookupIsTrue'
    <2>1. CASE ~Domains!Present(row) \/ row.host # Watched
      <3>1. UNCHANGED <<cache, lookup>>
        BY <1>1, <2>1 DEF Domains!Outdates
      <3>2. Domains!Verified(Watched) => Domains!Verified(Watched)'
        BY <1>4, <1>11, <2>1 DEF Domains!Verified, Domains!Present
      <3>3. QED
        BY <1>2, <1>8, <3>1, <3>2
           DEF DomainIInv, Domains!DomainInv, Domains!ReleaseIsSeen, LookupIsTrue
    <2>2. CASE Domains!Present(row) /\ row.host = Watched
      <3>1. /\ cache' = IF ~here /\ cache = "trusted" THEN "late" ELSE cache
            /\ lookup' # "yes"
        BY <1>1, <2>2 DEF Domains!Outdates
      <3>2. QED
        BY <1>8, <2>2, <3>1 DEF Domains!ReleaseIsSeen, LookupIsTrue
    <2>3. QED  BY <2>1, <2>2
  <1>14. DomainTyped'
    <2>1. cache' \in {"unknown", "trusted", "late", "refused"}
          /\ lookup' \in {"none", "yes", "late", "no"}
      BY <1>1 DEF Domains!Outdates, DomainIInv, DomainTyped
    <2>2. mirror' \in [Tenants -> Hosts \cup {Nobody}]
      BY <1>2 DEF DomainIInv, DomainTyped
    <2>3. QED  BY <1>2, <1>5, <1>8, <2>1, <2>2 DEF DomainIInv, DomainTyped
  <1>15. QED
    BY <1>9, <1>10, <1>12, <1>13, <1>14 DEF DomainIInv, Domains!DomainInv

LEMMA VerifyKeeps ==
  ASSUME DomainIInv, NEW c \in Calls, Domains!verify(c)
  PROVE  DomainIInv'
  <1> DEFINE row == call[c].row
             now == {d \in claims : d.id = row.id}
             verdict == IF call[c].ok THEN "verified" ELSE "error"
  <1>1. call[c].op = "verify" /\ call[c].pc = "write" /\ minted' = minted /\ proved' = proved
    BY DEF Domains!verify, Domains!At
  <1>2. CallOK(c) /\ Read(row) /\ (call[c].ok => row.id \in proved)
    BY <1>1 DEF DomainIInv, CallOK
  <1>3. CASE now = {}
    <2>1. /\ Domains!Ends(c)
          /\ UNCHANGED <<claims, minted, mirror, proved, unmirrored, cache, lookup>>
      BY <1>3 DEF Domains!verify
    <2>2. QED
      BY <1>1, <2>1, EndKeeps
  <1>4. CASE now # {}
    <2>1. /\ claims' = (claims \ now) \cup {[d EXCEPT !.status = verdict] : d \in now}
          /\ mirror' = [mirror EXCEPT ![row.tenant] = IF call[c].ok THEN row.host ELSE Nobody]
          /\ unmirrored' = unmirrored \ {row.id}
      BY <1>4 DEF Domains!verify
    <2>2. PICK here \in BOOLEAN :
            /\ Domains!GoesOn(c, here)
            /\ IF call[c].ok THEN UNCHANGED <<cache, lookup>>
               ELSE Domains!Outdates(row.host, here)
      BY <1>4 DEF Domains!verify
    <2>3. PICK d \in claims : d.id = row.id
      BY <1>4
    <2> DEFINE new == [id |-> row.id, tenant |-> row.tenant, host |-> row.host, status |-> verdict]
    <2>4. d = [id |-> row.id, tenant |-> row.tenant, host |-> row.host, status |-> d.status]
      BY <1>2, <2>3 DEF Read, DomainIInv, DomainTyped, ClaimRows
    <2>5. now = {d}
      BY <2>3 DEF DomainIInv, Domains!DomainInv, Domains!OneClaimEach
    <2>6. claims' = (claims \ {d}) \cup {new}
      BY <2>1, <2>4, <2>5
    <2>7. new \in ClaimRows /\ row.tenant \in Tenants /\ row.host \in Hosts
      BY <1>2 DEF Read, ClaimRows
    <2>8. /\ new.id = d.id /\ new.tenant = d.tenant /\ new.host = d.host /\ new.status = verdict
          /\ d.id = row.id /\ d.tenant = row.tenant /\ d.host = row.host
      BY <2>4
    <2> HIDE DEF now, new
    <2>9. \A f \in claims' : \E e \in claims :
             f.id = e.id /\ f.tenant = e.tenant /\ f.host = e.host
      BY <2>6, <2>8
    <2>10. \A r : r = row => Read(r)'
      BY <1>1, <1>2, <2>9 DEF Read
    <2>11. ~Committing(c)
      BY <1>1 DEF Committing, Domains!At
    <2>12. /\ call' \in [Calls -> DomainCalls]
           /\ \A e \in Calls \ {c} : call'[e] = call[e]
           /\ CallOK(c)' /\ CommitOK(c)' /\ ~Committing(c)'
           /\ here => call'[c].pc = "invalidate" /\ call'[c].row = row
      BY <1>1, <1>2, <2>2, <2>10, <2>11, GoesOnKeeps DEF DomainIInv
    <2>13. /\ IdsAreGiven' /\ CommitsApart'
           /\ \A e \in Calls : CallOK(e)' /\ CommitOK(e)'
      BY <1>1, <2>9, <2>12, SameNamesKeep
    <2>14. Domains!OneClaimEach'
      BY <2>6, <2>8 DEF DomainIInv, Domains!DomainInv, Domains!OneClaimEach
    <2>15. Domains!VerifiedIsProved'
      BY <1>1, <1>2, <2>6, <2>8 DEF DomainIInv, Domains!DomainInv, Domains!VerifiedIsProved
    <2>16. \A e \in claims \ {d} : e.id # d.id /\ e.tenant # d.tenant /\ e.host # d.host
      BY DEF DomainIInv, Domains!DomainInv, Domains!OneClaimEach
    <2>17. Domains!MirrorHolds'
      <3> SUFFICES ASSUME NEW u \in Tenants
                   PROVE  (/\ mirror[u] # Nobody =>
                               \E e \in claims : /\ e.tenant = u /\ e.host = mirror[u]
                                                 /\ e.status = "verified"
                           /\ \A e \in claims : e.tenant = u /\ e.status = "verified"
                                                 /\ e.id \notin unmirrored => mirror[u] = e.host)'
        BY DEF Domains!MirrorHolds
      <3>1. CASE u = row.tenant
        <4>1. mirror'[u] = IF call[c].ok THEN row.host ELSE Nobody
          BY <2>1, <3>1 DEF DomainIInv, DomainTyped
        <4>2. \A e \in claims' : e.tenant = u => e = new
          BY <2>6, <2>8, <2>16, <3>1
        <4>3. new \in claims' /\ (new.status = "verified" <=> call[c].ok)
          BY <2>6, <2>8
        <4>4. QED
          BY <2>8, <3>1, <4>1, <4>2, <4>3
      <3>2. CASE u # row.tenant
        <4>1. mirror'[u] = mirror[u]
          BY <2>1, <3>2 DEF DomainIInv, DomainTyped
        <4>2. \A e : e.tenant = u => (e \in claims <=> e \in claims')
          BY <2>6, <2>8, <3>2
        <4>3. \A e \in claims : e.tenant = u => (e.id \in unmirrored <=> e.id \in unmirrored')
          BY <2>1, <2>8, <2>16, <3>2
        <4>4. QED
          BY <4>1, <4>2, <4>3 DEF DomainIInv, Domains!DomainInv, Domains!MirrorHolds
      <3>3. QED  BY <3>1, <3>2
    <2>18. Domains!ReleaseIsSeen' /\ LookupIsTrue'
      <3>1. CASE call[c].ok \/ row.host # Watched
        <4>1. UNCHANGED <<cache, lookup>>
          BY <2>2, <3>1 DEF Domains!Outdates
        <4>2. Domains!Verified(Watched) => Domains!Verified(Watched)'
          BY <2>6, <2>8, <3>1 DEF Domains!Verified
        <4>3. QED
          BY <1>1, <2>12, <4>1, <4>2
             DEF DomainIInv, Domains!DomainInv, Domains!ReleaseIsSeen, LookupIsTrue
      <3>2. CASE ~call[c].ok /\ row.host = Watched
        <4>1. /\ cache' = IF ~here /\ cache = "trusted" THEN "late" ELSE cache
              /\ lookup' # "yes"
          BY <2>2, <3>2 DEF Domains!Outdates
        <4>2. QED
          BY <2>12, <3>2, <4>1 DEF Domains!ReleaseIsSeen, LookupIsTrue
      <3>3. QED  BY <3>1, <3>2
    <2>19. DomainTyped'
      <3>1. cache' \in {"unknown", "trusted", "late", "refused"}
            /\ lookup' \in {"none", "yes", "late", "no"}
        BY <2>2 DEF Domains!Outdates, DomainIInv, DomainTyped
      <3>2. mirror' \in [Tenants -> Hosts \cup {Nobody}]
        BY <2>1, <2>7 DEF DomainIInv, DomainTyped
      <3>3. QED
        BY <1>1, <2>6, <2>7, <2>12, <3>1, <3>2 DEF DomainIInv, DomainTyped
    <2>20. QED
      BY <2>13, <2>14, <2>15, <2>17, <2>18, <2>19 DEF DomainIInv, Domains!DomainInv
  <1>5. QED  BY <1>3, <1>4

LEMMA DomainKeeps == DomainIInv /\ [Domains!DomainNext]_Domains!domainVars => DomainIInv'
  <1> SUFFICES ASSUME DomainIInv, [Domains!DomainNext]_Domains!domainVars PROVE DomainIInv'
    OBVIOUS
  <1>1. ASSUME NEW c \in Calls,
               \/ Domains!load(c) \/ Domains!set(c) \/ Domains!setCommit(c)
               \/ Domains!verifyDomain(c) \/ Domains!verify(c) \/ Domains!remove(c)
               \/ Domains!invalidate(c)
        PROVE  DomainIInv'
    BY <1>1, LoadKeeps, SetKeeps, SetCommitKeeps, VerifyDomainKeeps, VerifyKeeps, RemoveKeeps,
       InvalidateKeeps
  <1>2. CASE UNCHANGED Domains!domainVars
    BY <1>2 DEF Domains!domainVars, DomainIInv, DomainTyped, IdsAreGiven, CallOK, Read, CommitOK,
                Committing, CommitsApart, LookupIsTrue, Domains!DomainInv, Domains!OneClaimEach,
                Domains!VerifiedIsProved, Domains!MirrorHolds, Domains!ReleaseIsSeen,
                Domains!Verified, Domains!At, Domains!Without
  <1>3. QED
    BY <1>1, <1>2, CacheKeeps DEF Domains!DomainNext

----------------------------------------------------------------------------
(* Names.  A creation decides on what its transaction saw.  What it saw is *)
(* there when it commits or somebody has spoilt it (SeenIsThere,           *)
(* NameWasFree, KeyIsFree), and a key is held by one creation between its  *)
(* lock and its commit (LocksHold): so a place that is free in the         *)
(* snapshot is free in the table, and a key is used once.                  *)

LEMMA SameCount == ASSUME NEW S PROVE Naming!Cardinality(S) = Cardinality(S)
  BY Zenon DEF Naming!Cardinality, Cardinality

\* A set that is not empty, of naturals and finite, has a greatest element.
LEMMA GreatestExists ==
  ASSUME NEW S \in SUBSET Nat, IsFiniteSet(S), S # {}
  PROVE  \E x \in S : \A y \in S : y <= x
  <1> DEFINE Above(x) == {y \in S : y > x}
             All == {Above(x) : x \in S}
             Less == StrictSubsetOrdering(S)
  <1>1. IsWellFoundedOn(Less, SUBSET S)
    BY FS_StrictSubsetOrderingWellFounded, FS_FiniteSubsetsOfFinite
  <1>2. All \subseteq SUBSET S /\ All # {}
    OBVIOUS
  <1>3. \E U \in All : \A V \in All : <<V, U>> \notin Less
    <2> HIDE DEF All, Less
    <2>1. QED  BY <1>1, <1>2, WFMin
  <1>4. PICK x \in S : \A y \in S : <<Above(y), Above(x)>> \notin Less
    <2> HIDE DEF Less
    <2>1. QED  BY <1>3
  <1>5. ASSUME NEW y \in S, y > x
        PROVE  FALSE
    <2>1. ~(y > y) /\ \A z \in S : z > y => z > x
      <3>1. S \subseteq Nat
        OBVIOUS
      <3>2. QED  BY <1>5, <3>1
    <2>2. Above(y) \subseteq Above(x) /\ y \in Above(x) /\ y \notin Above(y)
      BY <1>5, <2>1
    <2>3. Above(y) \in SUBSET S /\ Above(x) \in SUBSET S
      OBVIOUS
    <2> HIDE DEF Above
    <2>4. <<Above(y), Above(x)>> \in Less
      BY <2>2, <2>3 DEF StrictSubsetOrdering
    <2>5. QED  BY <1>4, <2>4
  <1>6. QED  BY <1>5

\* The image of a finite set is finite, and no larger.
LEMMA ImageIsFinite ==
  ASSUME NEW S, IsFiniteSet(S), NEW T, NEW f \in [S -> T], \A t \in T : \E x \in S : f[x] = t
  PROVE  IsFiniteSet(T) /\ Cardinality(T) <= Cardinality(S)
  <1>1. f \in Surjection(S, T)
    BY DEF Surjection
  <1>2. QED  BY <1>1, FS_Surjection

\* The values of the variables.
NamedRows == [id : Asking \cup {Seed}, name : Names, order : Nat]
KeyRecords == [id : Asking, name : Names]
Views == [rows : SUBSET NamedRows, records : [Keys -> KeyRecords \cup {Nobody}]]
Verdicts == {"reused", "missing", "taken", "full", "failed", "done"}

Askings ==
    [op : {"none", "create", "rename", "remove"},
     pc : {"idle", "lock", "check", "commit", "done"},
     key : Keys \cup {Nobody}, name : Names \cup {Nobody},
     target : Asking \cup {Seed, Nobody}, snap : Views \cup {Nobody},
     fate : {"sound", "moved", "spoiled"}, tries : Nat,
     answer : Asking \cup Verdicts \cup {Nobody}]

CreationTyped ==
    /\ kind \in {"tags", "statuses"}
    /\ named \subseteq NamedRows /\ IsFiniteSet(named)
    /\ records \in [Keys -> KeyRecords \cup {Nobody}]
    /\ asking \in [Asking -> Askings]

InTransaction(q) == q.pc \in {"lock", "check", "commit"}

\* What is asked for, and what a transaction looks at.
AskedFor(q) ==
    /\ InTransaction(q) =>
          /\ q.answer = Nobody
          /\ q.op # "none"
          /\ q.op = "create" => q.target = Nobody
          /\ q.op = "rename" => q.pc # "lock" /\ q.name \in Names /\ q.target # Nobody
          /\ q.op = "remove" => q.pc # "lock" /\ q.name = Nobody /\ q.target # Nobody
          /\ kind = "statuses" => q.snap \in Views /\ IsFiniteSet(q.snap.rows)
          /\ kind = "tags" => q.snap = Nobody /\ q.fate = "sound"
    /\ ~InTransaction(q) => q.snap = Nobody
    /\ q.op = "create" => q.key \in Keys /\ q.name \in Names
    /\ q.op # "create" => q.answer \notin Asking

\* Who is answered with a row is answered with the row of the record.
AnsweredWell(q) ==
    q.op = "create" /\ q.answer \in Asking =>
        records[q.key] = [id |-> q.answer, name |-> q.name]

\* A record stays, so that what a snapshot has of it is true.
RecordsStay(q) ==
    InTransaction(q) /\ kind = "statuses" =>
        \A k \in Keys : q.snap.records[k] # Nobody => records[k] = q.snap.records[k]

\* A key that a creation has found free is free.
KeyIsFree(q) ==
    q.op = "create" /\ q.pc \in {"check", "commit"} =>
        /\ kind = "tags" => records[q.key] = Nobody
        /\ kind = "statuses" => q.snap.records[q.key] = Nobody

\* What an unspoiled transaction has seen is what there is, as far as it matters to it.
SeenIsThere(q) ==
    kind = "statuses" /\ InTransaction(q) /\ q.fate # "spoiled" =>
        /\ q.op = "create" =>
              /\ records = q.snap.records
              /\ \A a \in named : \E s \in q.snap.rows : s.order = a.order
        /\ q.name # Nobody =>
              \A a \in named : a.name = q.name =>
                  \E s \in q.snap.rows : s.id = a.id /\ s.name = a.name

\* The name that is going to be written was free in what was seen.
NameWasFree(q) ==
    kind = "statuses" /\ q.pc = "commit" /\ q.op # "remove" =>
        \A s \in q.snap.rows : s.name = q.name => s.id = q.target

AskingOK(q) ==
    /\ AskedFor(q) /\ AnsweredWell(q) /\ RecordsStay(q)
    /\ KeyIsFree(q) /\ SeenIsThere(q) /\ NameWasFree(q)

\* A row is its creator's, who is done.
RowsHaveCreators ==
    /\ \A a, b \in named : a.id = b.id => a = b
    /\ \A a \in named : a.id \in Asking => asking[a.id].pc = "done"

\* The locks of the tags: one creation of a key, one creation at the ceiling.
Capturing(r) == asking[r].op = "create" /\ asking[r].pc = "commit"

LocksHold ==
    kind = "tags" =>
        /\ \A p, r \in Asking, k \in Keys : Naming!Holds(p, k) /\ Naming!Holds(r, k) => p = r
        /\ \A p, r \in Asking : Capturing(p) /\ Capturing(r) => p = r
        /\ \A r \in Asking : Capturing(r) => Cardinality(named) < Ceiling

\* The inductive invariant.
NamesIInv ==
    /\ CreationTyped
    /\ \A r \in Asking : AskingOK(asking[r])
    /\ RowsHaveCreators /\ LocksHold
    /\ Naming!NamesAreApart /\ Naming!PlacesAreApart /\ Naming!CeilingHolds

LEMMA NamesIInvImplies == NamesIInv => Naming!NamesInv
  <1> SUFFICES ASSUME NamesIInv PROVE Naming!NamesInv
    OBVIOUS
  <1> USE DEF NamesIInv
  <1>1. Naming!AnsweredAlike
    BY DEF AskingOK, AnsweredWell, Naming!AnsweredAlike, Naming!Is
  <1>2. Naming!RepetitionsAreSeen
    BY DEF Naming!RepetitionsAreSeen, Naming!At, Naming!Used, Naming!Is, AskingOK, KeyIsFree,
           SeenIsThere, InTransaction, CreationTyped
  <1>3. QED
    BY <1>1, <1>2 DEF Naming!NamesInv

LEMMA UnaskedOK ==
  ASSUME NamesIInv
  PROVE  Naming!Unasked \in Askings /\ AskingOK(Naming!Unasked)
  BY NamesAssumption
     DEF Naming!Unasked, Askings, AskingOK, AskedFor, InTransaction, AnsweredWell, RecordsStay, KeyIsFree,
         SeenIsThere, NameWasFree

LEMMA CreationInitOK == Naming!CreationInit => NamesIInv
  <1> SUFFICES ASSUME Naming!CreationInit PROVE NamesIInv
    OBVIOUS
  <1> USE DEF Naming!CreationInit
  <1>1. PICK name \in Names : named = {Naming!Row(Seed, name, 1)}
    OBVIOUS
  <1>2. Naming!Row(Seed, name, 1) \in NamedRows
    BY DEF Naming!Row, NamedRows
  <1>3. IsFiniteSet(named) /\ Cardinality(named) = 1
    BY <1>1, FS_Singleton
  <1>4. Naming!Unasked \in Askings
    BY NamesAssumption DEF Naming!Unasked, Askings
  <1>5. CreationTyped
    BY <1>1, <1>2, <1>3, <1>4 DEF CreationTyped
  <1>6. \A r \in Asking : asking[r] = Naming!Unasked
    OBVIOUS
  <1>7. \A r \in Asking : AskingOK(asking[r])
    BY <1>6, NamesAssumption
       DEF Naming!Unasked, AskingOK, AskedFor, InTransaction, AnsweredWell, RecordsStay, KeyIsFree,
           SeenIsThere, NameWasFree
  <1>8. RowsHaveCreators /\ Naming!NamesAreApart /\ Naming!PlacesAreApart
    BY <1>1, NamesAssumption
       DEF RowsHaveCreators, Naming!Row, Naming!NamesAreApart, Naming!PlacesAreApart
  <1>9. LocksHold /\ Naming!CeilingHolds
    BY <1>3, <1>6, SameCount, NamesAssumption
       DEF LocksHold, Capturing, Naming!Holds, Naming!Is, Naming!Unasked, Naming!CeilingHolds
  <1>10. QED
    BY <1>5, <1>7, <1>8, <1>9 DEF NamesIInv

\* A step that writes no row keeps the invariant if what its request has become is right.
LEMMA QuietKeeps ==
  ASSUME NamesIInv, NEW r \in Asking, NEW q \in Askings,
         asking' = [asking EXCEPT ![r] = q], UNCHANGED <<kind, named, records>>,
         AskingOK(q), q.pc = "done" \/ asking[r].pc # "done", LocksHold'
  PROVE  NamesIInv'
  <1> USE DEF NamesIInv
  <1>1. asking' \in [Asking -> Askings] /\ asking'[r] = q
        /\ \A p \in Asking \ {r} : asking'[p] = asking[p]
    BY DEF CreationTyped
  <1>2. \A p : AskingOK(p) => AskingOK(p)'
    BY DEF AskingOK, AskedFor, AnsweredWell, RecordsStay, KeyIsFree, SeenIsThere, NameWasFree,
           InTransaction
  <1>3. \A p \in Asking : AskingOK(asking'[p])
    BY <1>1
  <1>4. \A p \in Asking : AskingOK(asking[p])'
    <2> SUFFICES ASSUME NEW p \in Asking PROVE AskingOK(asking[p])'
      OBVIOUS
    <2>1. \A x : x = asking'[p] => AskingOK(x)'
      BY <1>2, <1>3
    <2>2. QED  BY <2>1
  <1>5. CreationTyped' /\ RowsHaveCreators'
    BY <1>1 DEF CreationTyped, RowsHaveCreators
  <1>6. QED
    BY <1>4, <1>5 DEF Naming!NamesAreApart, Naming!PlacesAreApart, Naming!CeilingHolds

\* A request that does not hold a lock after a step does not disturb the locks.
LEMMA LocksAreLeft ==
  ASSUME NamesIInv, NEW r \in Asking, NEW q \in Askings,
         asking' = [asking EXCEPT ![r] = q], UNCHANGED <<kind, named>>,
         q.op # "create" \/ q.pc \notin {"check", "commit"}
  PROVE  LocksHold'
  <1>1. asking'[r] = q /\ \A p \in Asking \ {r} : asking'[p] = asking[p]
    BY DEF CreationTyped, NamesIInv
  <1>2. ~Capturing(r)' /\ \A p \in Asking \ {r} : Capturing(p)' <=> Capturing(p)
    BY <1>1 DEF Capturing
  <1>3. \A k \in Keys : ~Naming!Holds(r, k)' /\ \A p \in Asking \ {r} : Naming!Holds(p, k)' <=> Naming!Holds(p, k)
    BY <1>1 DEF Naming!Holds, Naming!Is
  <1>4. QED
    BY <1>2, <1>3 DEF LocksHold, NamesIInv

\* A transaction that begins, or begins again, sees what there is.
LEMMA EnteredOK ==
  ASSUME NamesIInv, NEW q \in Askings, q.op # "none", q.answer = Nobody,
         q.op = "create" => q.target = Nobody /\ q.key \in Keys /\ q.name \in Names,
         q.op = "rename" => q.name \in Names /\ q.target # Nobody,
         q.op = "remove" => q.name = Nobody /\ q.target # Nobody
  PROVE  /\ Naming!Entered(q) \in Askings /\ AskingOK(Naming!Entered(q))
         /\ Naming!Entered(q).op = q.op
         /\ q.op = "create" => Naming!Entered(q).pc = "lock"
  <1> DEFINE e == Naming!Entered(q)
  <1>1. Naming!Snapshot \in Views /\ IsFiniteSet(Naming!Snapshot.rows)
        /\ Naming!Snapshot.rows = named /\ Naming!Snapshot.records = records
    BY DEF Naming!Snapshot, Views, NamesIInv, CreationTyped
  <1> DEFINE pc == IF q.op = "create" THEN "lock" ELSE "check"
             snap == IF kind = "statuses" THEN Naming!Snapshot ELSE Nobody
  <1>2. e \in Askings
    <2>1. pc \in {"lock", "check"} /\ snap \in Views \cup {Nobody}
      BY <1>1
    <2>2. e = [[[q EXCEPT !.pc = pc] EXCEPT !.snap = snap] EXCEPT !.fate = "sound"]
      BY DEF Naming!Entered
    <2> HIDE DEF pc, snap, e
    <2>3. e = [op |-> q.op, pc |-> pc, key |-> q.key, name |-> q.name, target |-> q.target,
               snap |-> snap, fate |-> "sound", tries |-> q.tries, answer |-> q.answer]
      BY <2>2 DEF Askings
    <2>4. QED  BY <2>1, <2>3 DEF Askings
  <1>3. /\ e.op = q.op /\ e.key = q.key /\ e.name = q.name /\ e.target = q.target
        /\ e.answer = Nobody /\ e.fate = "sound"
        /\ e.pc = IF q.op = "create" THEN "lock" ELSE "check"
        /\ e.snap = IF kind = "statuses" THEN Naming!Snapshot ELSE Nobody
    BY DEF Naming!Entered, Askings
  <1> HIDE DEF e
  <1>4. AskingOK(e)
    BY <1>1, <1>3, NamesAssumption
       DEF AskingOK, AskedFor, InTransaction, AnsweredWell, RecordsStay, KeyIsFree, SeenIsThere,
           NameWasFree
  <1>5. QED
    BY <1>2, <1>3, <1>4 DEF e

\* What is kept of a request that is answered.
LEMMA ConcludedIs ==
  ASSUME NamesIInv, NEW r \in Asking, NEW answer \in Asking \cup Verdicts
  PROVE  LET d == Naming!Concluded(r, answer)
         IN  /\ d \in Askings /\ d.pc = "done" /\ d.snap = Nobody /\ d.answer = answer
             /\ d.op = IF answer \in Asking THEN asking[r].op ELSE "none"
             /\ answer \in Asking => d.key = asking[r].key /\ d.name = asking[r].name
  <1> DEFINE d == Naming!Concluded(r, answer)
  <1>1. asking[r] \in Askings
    BY DEF NamesIInv, CreationTyped
  <1>2. d \in Askings
    <2>1. Naming!Unasked \in Askings
      BY NamesAssumption DEF Naming!Unasked, Askings
    <2>2. CASE answer \in Asking
      <3>1. d = [Naming!Unasked EXCEPT !.op = asking[r].op, !.pc = "done",
                                       !.key = asking[r].key, !.name = asking[r].name,
                                       !.answer = answer]
        BY <2>2 DEF Naming!Concluded
      <3> HIDE DEF d
      <3> QED  BY <1>1, <2>1, <2>2, <3>1 DEF Askings
    <2>3. CASE answer \notin Asking
      <3>1. d = [Naming!Unasked EXCEPT !.pc = "done", !.answer = answer]
        BY <2>3 DEF Naming!Concluded
      <3> HIDE DEF d
      <3> QED  BY <2>1, <2>3, <3>1 DEF Askings
    <2> QED  BY <2>2, <2>3
  <1>3. /\ d.pc = "done" /\ d.snap = Nobody /\ d.answer = answer
        /\ d.op = IF answer \in Asking THEN asking[r].op ELSE "none"
        /\ answer \in Asking => d.key = asking[r].key /\ d.name = asking[r].name
    BY <1>1 DEF Naming!Concluded, Naming!Unasked, Askings
  <1>4. QED  BY <1>2, <1>3

\* A request that is answered, with a row only if it is the row of its key.
LEMMA ConcludedOK ==
  ASSUME NamesIInv, NEW r \in Asking, NEW answer \in Asking \cup Verdicts,
         answer \in Asking =>
            /\ asking[r].op = "create"
            /\ records[asking[r].key] = [id |-> answer, name |-> asking[r].name]
  PROVE  /\ Naming!Concluded(r, answer) \in Askings /\ AskingOK(Naming!Concluded(r, answer))
         /\ Naming!Concluded(r, answer).pc = "done"
  <1> DEFINE d == Naming!Concluded(r, answer)
  <1>1. AskedFor(asking[r])
    BY DEF NamesIInv, AskingOK
  <1>2. /\ d \in Askings /\ d.pc = "done" /\ d.snap = Nobody /\ d.answer = answer
        /\ d.op = IF answer \in Asking THEN asking[r].op ELSE "none"
        /\ answer \in Asking => d.key = asking[r].key /\ d.name = asking[r].name
    BY ConcludedIs
  <1> HIDE DEF d
  <1>3. AskingOK(d)
    BY <1>1, <1>2 DEF AskingOK, AskedFor, InTransaction, AnsweredWell, RecordsStay, KeyIsFree, SeenIsThere,
           NameWasFree
  <1>4. QED
    BY <1>2, <1>3 DEF d

LEMMA ConcludesKeeps ==
  ASSUME NamesIInv, NEW r \in Asking, NEW answer \in Asking \cup Verdicts,
         Naming!Concludes(r, answer), UNCHANGED <<kind, named, records>>,
         answer \in Asking =>
            /\ asking[r].op = "create"
            /\ records[asking[r].key] = [id |-> answer, name |-> asking[r].name]
  PROVE  NamesIInv'
  <1>1. /\ Naming!Concluded(r, answer) \in Askings /\ AskingOK(Naming!Concluded(r, answer))
        /\ Naming!Concluded(r, answer).pc = "done"
    BY ConcludedOK
  <1>2. asking' = [asking EXCEPT ![r] = Naming!Concluded(r, answer)]
    BY DEF Naming!Concludes
  <1>3. LocksHold'
    BY <1>1, <1>2, LocksAreLeft
  <1>4. QED
    BY <1>1, <1>2, <1>3, QuietKeeps

LEMMA RequestKeeps ==
  ASSUME NamesIInv, NEW r \in Asking, Naming!request(r)
  PROVE  NamesIInv'
  <1> USE NamesAssumption
  <1>1. asking[r].pc = "idle" /\ UNCHANGED <<kind, named, records>>
    BY DEF Naming!request, Naming!At, Naming!Stored
  <1>2. ASSUME NEW q \in Askings, asking' = [asking EXCEPT ![r] = Naming!Entered(q)],
               q.op # "none", q.answer = Nobody,
               q.op = "create" => q.target = Nobody /\ q.key \in Keys /\ q.name \in Names,
               q.op = "rename" => q.name \in Names /\ q.target # Nobody,
               q.op = "remove" => q.name = Nobody /\ q.target # Nobody
        PROVE  NamesIInv'
    <2>1. /\ Naming!Entered(q) \in Askings /\ AskingOK(Naming!Entered(q))
          /\ Naming!Entered(q).op # "create" \/ Naming!Entered(q).pc \notin {"check", "commit"}
      BY <1>2, EnteredOK
    <2>2. LocksHold'
      BY <1>1, <1>2, <2>1, LocksAreLeft
    <2>3. QED
      BY <1>1, <1>2, <2>1, <2>2, QuietKeeps
  <1>3. CASE \E name \in Names, k \in Keys : asking' = [asking EXCEPT ![r] =
                Naming!Entered([Naming!Unasked EXCEPT !.op = "create", !.key = k, !.name = name])]
    <2>1. PICK name \in Names, k \in Keys : asking' = [asking EXCEPT ![r] =
                Naming!Entered([Naming!Unasked EXCEPT !.op = "create", !.key = k, !.name = name])]
      BY <1>3
    <2> DEFINE q == [Naming!Unasked EXCEPT !.op = "create", !.key = k, !.name = name]
    <2>2. /\ q \in Askings /\ q.op = "create" /\ q.answer = Nobody /\ q.target = Nobody
          /\ q.key = k /\ q.name = name
      BY DEF Askings, Naming!Unasked
    <2> HIDE DEF q
    <2>3. QED  BY <1>2, <2>1, <2>2 DEF q
  <1>4. CASE \E name \in Names, row \in named : asking' = [asking EXCEPT ![r] =
                Naming!Entered([Naming!Unasked EXCEPT !.op = "rename", !.target = row.id, !.name = name])]
    <2>1. PICK name \in Names, row \in named : asking' = [asking EXCEPT ![r] =
                Naming!Entered([Naming!Unasked EXCEPT !.op = "rename", !.target = row.id, !.name = name])]
      BY <1>4
    <2> DEFINE q == [Naming!Unasked EXCEPT !.op = "rename", !.target = row.id, !.name = name]
    <2>2. row.id \in Asking \cup {Seed}
      BY DEF NamesIInv, CreationTyped, NamedRows
    <2>3. /\ q \in Askings /\ q.op = "rename" /\ q.answer = Nobody /\ q.target = row.id
          /\ q.name = name
      BY <2>2 DEF Askings, Naming!Unasked
    <2> HIDE DEF q
    <2>4. QED  BY <1>2, <2>1, <2>2, <2>3 DEF q
  <1>5. CASE \E row \in named : asking' = [asking EXCEPT ![r] =
                Naming!Entered([Naming!Unasked EXCEPT !.op = "remove", !.target = row.id])]
    <2>1. PICK row \in named : asking' = [asking EXCEPT ![r] =
                Naming!Entered([Naming!Unasked EXCEPT !.op = "remove", !.target = row.id])]
      BY <1>5
    <2> DEFINE q == [Naming!Unasked EXCEPT !.op = "remove", !.target = row.id]
    <2>2. row.id \in Asking \cup {Seed}
      BY DEF NamesIInv, CreationTyped, NamedRows
    <2>3. /\ q \in Askings /\ q.op = "remove" /\ q.answer = Nobody /\ q.target = row.id
          /\ q.name = Nobody
      BY <2>2 DEF Askings, Naming!Unasked
    <2> HIDE DEF q
    <2>4. QED  BY <1>2, <2>1, <2>2, <2>3 DEF q
  <1>6. QED
    BY <1>3, <1>4, <1>5 DEF Naming!request

\* A request that goes on keeps the rest of what it is.
LEMMA GoesTo ==
  ASSUME NamesIInv, NEW r \in Asking, NEW pc \in {"check", "commit"}, Naming!Goes(r, pc)
  PROVE  \E q \in Askings :
            /\ asking' = [asking EXCEPT ![r] = q]
            /\ q.pc = pc /\ q.op = asking[r].op /\ q.key = asking[r].key /\ q.name = asking[r].name
            /\ q.target = asking[r].target /\ q.snap = asking[r].snap /\ q.fate = asking[r].fate
            /\ q.answer = asking[r].answer
  <1> DEFINE q == [asking[r] EXCEPT !.pc = pc]
  <1>1. asking[r] \in Askings
    BY DEF NamesIInv, CreationTyped
  <1>2. asking' = [asking EXCEPT ![r] = q]
    BY DEF Naming!Goes
  <1>3. /\ q \in Askings
        /\ q.pc = pc /\ q.op = asking[r].op /\ q.key = asking[r].key /\ q.name = asking[r].name
        /\ q.target = asking[r].target /\ q.snap = asking[r].snap /\ q.fate = asking[r].fate
        /\ q.answer = asking[r].answer
    BY <1>1 DEF Askings
  <1> HIDE DEF q
  <1>4. QED  BY <1>2, <1>3

LEMMA LockKeeps ==
  ASSUME NamesIInv, NEW r \in Asking, Naming!lockApiIdempotency(r)
  PROVE  NamesIInv'
  <1> DEFINE k == asking[r].key
             record == Naming!Seen(r).records[k]
  <1>1. /\ asking[r].pc = "lock" /\ UNCHANGED <<kind, named, records>>
        /\ \A p \in Asking : ~Naming!Holds(p, k)
        /\ Naming!loadApiIdempotency(r)
    BY DEF Naming!lockApiIdempotency, Naming!At, Naming!Stored
  <1>2. AskingOK(asking[r]) /\ asking[r] \in Askings
    BY DEF NamesIInv, CreationTyped
  <1>3. asking[r].op = "create" /\ k \in Keys /\ InTransaction(asking[r])
    BY <1>1, <1>2 DEF AskingOK, AskedFor, InTransaction, Askings
  <1>4. /\ kind = "tags" => record = records[k]
        /\ kind = "statuses" => record = asking[r].snap.records[k]
    BY DEF Naming!Seen, Naming!Snapshot
  <1> HIDE DEF record
  <1>5. CASE record = Nobody
    <2>1. Naming!Goes(r, "check")
      BY <1>1, <1>5 DEF Naming!loadApiIdempotency, record
    <2>2. PICK q \in Askings :
            /\ asking' = [asking EXCEPT ![r] = q]
            /\ q.pc = "check" /\ q.op = asking[r].op /\ q.key = k /\ q.name = asking[r].name
            /\ q.target = asking[r].target /\ q.snap = asking[r].snap /\ q.fate = asking[r].fate
            /\ q.answer = asking[r].answer
      BY <2>1, GoesTo
    <2>3. AskingOK(q)
      BY <1>1, <1>2, <1>3, <1>4, <1>5, <2>2
         DEF AskingOK, AskedFor, InTransaction, AnsweredWell, RecordsStay, KeyIsFree, SeenIsThere,
             NameWasFree
    <2>4. LocksHold'
      <3>1. asking'[r] = q /\ \A p \in Asking \ {r} : asking'[p] = asking[p]
        BY <2>2 DEF NamesIInv, CreationTyped
      <3>2. ~Capturing(r)' /\ \A p \in Asking \ {r} : Capturing(p)' <=> Capturing(p)
        BY <2>2, <3>1 DEF Capturing
      <3>3. \A x \in Keys :
               /\ Naming!Holds(r, x)' => x = k
               /\ \A p \in Asking \ {r} : Naming!Holds(p, x)' <=> Naming!Holds(p, x)
        BY <2>2, <3>1 DEF Naming!Holds, Naming!Is
      <3>4. QED
        BY <1>1, <3>2, <3>3 DEF LocksHold, NamesIInv
    <2>5. QED
      BY <1>1, <2>2, <2>3, <2>4, QuietKeeps
  <1>6. CASE record # Nobody
    <2>1. record \in KeyRecords /\ records[k] = record
      BY <1>2, <1>3, <1>4, <1>6
         DEF AskingOK, AskedFor, RecordsStay, NamesIInv, CreationTyped, Views
    <2>2. record = [id |-> record.id, name |-> record.name] /\ record.id \in Asking
      BY <2>1 DEF KeyRecords
    <2> DEFINE answer == Naming!Replay(r, record)
    <2>3. Naming!Concludes(r, answer)
      BY <1>1, <1>6 DEF Naming!loadApiIdempotency, record
    <2>4. \/ answer \in {"reused", "missing"}
          \/ answer = record.id /\ record.name = asking[r].name
      BY DEF Naming!Replay
    <2> HIDE DEF answer
    <2>5. /\ answer \in Asking \cup Verdicts
          /\ answer \in Asking => records[k] = [id |-> answer, name |-> asking[r].name]
      BY <2>1, <2>2, <2>4, NamesAssumption DEF Verdicts
    <2>6. QED
      BY <1>1, <1>3, <2>3, <2>5, ConcludesKeeps
  <1>7. QED  BY <1>5, <1>6

\* A check that is passed leads to the commit.
LEMMA PassedKeeps ==
  ASSUME NamesIInv, NEW r \in Asking, Naming!Goes(r, "commit"), asking[r].pc = "check",
         UNCHANGED <<kind, named, records>>,
         kind = "statuses" /\ asking[r].op # "remove" =>
            \A s \in asking[r].snap.rows : s.name = asking[r].name => s.id = asking[r].target,
         kind = "tags" /\ asking[r].op = "create" =>
            /\ \A p \in Asking : ~Capturing(p)
            /\ Cardinality(named) < Ceiling
  PROVE  NamesIInv'
  <1>1. AskingOK(asking[r])
    BY DEF NamesIInv
  <1>2. PICK q \in Askings :
            /\ asking' = [asking EXCEPT ![r] = q]
            /\ q.pc = "commit" /\ q.op = asking[r].op /\ q.key = asking[r].key /\ q.name = asking[r].name
            /\ q.target = asking[r].target /\ q.snap = asking[r].snap /\ q.fate = asking[r].fate
            /\ q.answer = asking[r].answer
    BY GoesTo
  <1>3. AskingOK(q)
    BY <1>1, <1>2 DEF AskingOK, AskedFor, InTransaction, AnsweredWell, RecordsStay, KeyIsFree, SeenIsThere,
             NameWasFree
  <1>4. asking'[r] = q /\ \A p \in Asking \ {r} : asking'[p] = asking[p]
    BY <1>2 DEF NamesIInv, CreationTyped
  <1>5. /\ Capturing(r)' => asking[r].op = "create"
        /\ \A p \in Asking \ {r} : Capturing(p)' <=> Capturing(p)
    BY <1>2, <1>4 DEF Capturing
  <1>6. \A p \in Asking, k \in Keys : Naming!Holds(p, k)' <=> Naming!Holds(p, k)
    BY <1>2, <1>4 DEF Naming!Holds, Naming!Is
  <1>7. LocksHold'
    BY <1>5, <1>6 DEF LocksHold, NamesIInv
  <1>8. QED
    BY <1>2, <1>3, <1>7, QuietKeeps

LEMMA ChecksKeep ==
  ASSUME NamesIInv, NEW r \in Asking,
         Naming!assertCapacity(r) \/ Naming!assertNameFree(r) \/ Naming!checkNothing(r)
  PROVE  NamesIInv'
  <1>1. asking[r].pc = "check" /\ UNCHANGED <<kind, named, records>>
    BY DEF Naming!assertCapacity, Naming!assertNameFree, Naming!checkNothing, Naming!At, Naming!Stored
  <1>2. AskingOK(asking[r]) /\ asking[r] \in Askings
    BY DEF NamesIInv, CreationTyped
  <1>3. \A answer \in {"full", "missing", "taken"} : answer \in Verdicts /\ answer \notin Asking
    BY NamesAssumption DEF Verdicts
  <1>4. CASE Naming!assertCapacity(r)
    <2>1. /\ kind = "tags" /\ asking[r].op = "create"
          /\ \A p \in Asking : ~Capturing(p)
      BY <1>4 DEF Naming!assertCapacity, Naming!Is, Naming!At, Capturing
    <2>2. CASE Naming!Concludes(r, "full")
      BY <1>1, <1>3, <2>2, ConcludesKeeps
    <2>3. CASE Naming!Goes(r, "commit") /\ ~(Cardinality(named) >= Ceiling)
      <3>1. Cardinality(named) < Ceiling
        BY <2>3, FS_CardinalityType, NamesAssumption DEF NamesIInv, CreationTyped
      <3>2. QED  BY <1>1, <2>1, <2>3, <3>1, PassedKeeps
    <2>4. QED
      BY <1>4, <2>2, <2>3, SameCount DEF Naming!assertCapacity
  <1>5. CASE Naming!assertNameFree(r)
    <2>1. kind = "statuses"
      BY <1>5 DEF Naming!assertNameFree
    <2>2. CASE Naming!Concludes(r, "missing")
      BY <1>1, <1>3, <2>2, ConcludesKeeps
    <2>3. CASE Naming!Concludes(r, "taken")
      BY <1>1, <1>3, <2>3, ConcludesKeeps
    <2>4. CASE /\ Naming!Goes(r, "commit")
               /\ ~(asking[r].op # "remove" /\ Naming!Taken(r, Naming!Seen(r).rows))
      <3>1. asking[r].op # "remove" =>
               \A s \in asking[r].snap.rows : s.name = asking[r].name => s.id = asking[r].target
        BY <2>1, <2>4 DEF Naming!Taken, Naming!Seen
      <3>2. QED  BY <1>1, <2>1, <2>4, <3>1, PassedKeeps
    <2>5. QED
      BY <1>5, <2>2, <2>3, <2>4 DEF Naming!assertNameFree, Naming!Is
  <1>6. CASE Naming!checkNothing(r)
    <2>1. kind = "tags" /\ asking[r].op # "create" /\ Naming!Goes(r, "commit")
      BY <1>6 DEF Naming!checkNothing, Naming!Is
    <2>2. QED  BY <1>1, <2>1, PassedKeeps
  <1>7. QED
    BY <1>4, <1>5, <1>6

LEMMA TriesAgainKeeps ==
  ASSUME NamesIInv, NEW r \in Asking, asking[r].pc = "commit", Naming!TriesAgain(r),
         UNCHANGED <<kind, named, records>>
  PROVE  NamesIInv'
  <1>1. AskingOK(asking[r]) /\ asking[r] \in Askings
    BY DEF NamesIInv, CreationTyped
  <1>2. CASE Naming!Concludes(r, "failed")
    <2>1. "failed" \in Verdicts /\ "failed" \notin Asking
      BY NamesAssumption DEF Verdicts
    <2>2. QED  BY <1>2, <2>1, ConcludesKeeps
  <1>3. CASE asking' = [asking EXCEPT ![r] = Naming!Entered([asking[r] EXCEPT !.tries = @ + 1])]
    <2> DEFINE q == [asking[r] EXCEPT !.tries = @ + 1]
    <2>1. /\ q \in Askings /\ q.op = asking[r].op /\ q.key = asking[r].key /\ q.name = asking[r].name
          /\ q.target = asking[r].target /\ q.answer = asking[r].answer
      BY <1>1 DEF Askings
    <2> HIDE DEF q
    <2>2. /\ q.op # "none" /\ q.answer = Nobody
          /\ q.op = "create" => q.target = Nobody /\ q.key \in Keys /\ q.name \in Names
          /\ q.op = "rename" => q.name \in Names /\ q.target # Nobody
          /\ q.op = "remove" => q.name = Nobody /\ q.target # Nobody
      BY <1>1, <2>1 DEF AskingOK, AskedFor, InTransaction
    <2>3. /\ Naming!Entered(q) \in Askings /\ AskingOK(Naming!Entered(q))
          /\ Naming!Entered(q).op # "create" \/ Naming!Entered(q).pc \notin {"check", "commit"}
      BY <2>1, <2>2, EnteredOK
    <2>4. asking' = [asking EXCEPT ![r] = Naming!Entered(q)]
      BY <1>3 DEF q
    <2>5. LocksHold'
      BY <2>3, <2>4, LocksAreLeft
    <2>6. QED
      BY <2>3, <2>4, <2>5, QuietKeeps
  <1>4. QED
    BY <1>2, <1>3 DEF Naming!TriesAgain, Naming!Concludes

\* What a commit leaves of another request.
LEMMA DisturbedIs ==
  ASSUME NEW p \in Askings, NEW q \in Askings
  PROVE  LET d == Naming!Disturbed(p, q)
         IN  /\ d \in Askings
             /\ d.op = q.op /\ d.pc = q.pc /\ d.key = q.key /\ d.name = q.name
             /\ d.target = q.target /\ d.snap = q.snap /\ d.answer = q.answer
             /\ q.snap = Nobody => d = q
             /\ q.snap # Nobody /\ d.fate # "spoiled" => q.fate # "spoiled" /\ ~Naming!Clash(p, q)
  <1> DEFINE fate == IF Naming!Clash(p, q) THEN "spoiled"
                     ELSE IF q.fate = "sound" THEN "moved" ELSE q.fate
             d == Naming!Disturbed(p, q)
  <1>1. CASE q.snap = Nobody
    BY <1>1 DEF Naming!Disturbed
  <1>2. CASE q.snap # Nobody
    <2>1. fate \in {"sound", "moved", "spoiled"}
          /\ (fate # "spoiled" => q.fate # "spoiled" /\ ~Naming!Clash(p, q))
      BY DEF Askings
    <2>2. d = [q EXCEPT !.fate = fate]
      BY <1>2 DEF Naming!Disturbed
    <2> HIDE DEF fate, d
    <2>3. /\ d \in Askings /\ d.fate = fate
          /\ d.op = q.op /\ d.pc = q.pc /\ d.key = q.key /\ d.name = q.name
          /\ d.target = q.target /\ d.snap = q.snap /\ d.answer = q.answer
      BY <2>1, <2>2 DEF Askings
    <2>4. QED
      BY <1>2, <2>1, <2>3 DEF d
  <1>3. QED  BY <1>1, <1>2

\* What a request that may commit can rely on.
LEMMA CommitFacts ==
  ASSUME NamesIInv, NEW r \in Asking, asking[r].pc = "commit", Naming!MayCommit(r)
  PROVE  /\ asking[r] \in Askings /\ AskingOK(asking[r]) /\ InTransaction(asking[r])
         /\ asking[r].op \in {"create", "rename", "remove"}
         /\ asking[r].op = "create" =>
               records[asking[r].key] = Nobody /\ asking[r].key \in Keys /\ asking[r].target = Nobody
         /\ asking[r].op # "remove" =>
               /\ asking[r].name \in Names
               /\ \A a \in named : a.name = asking[r].name => a.id = asking[r].target
         /\ kind = "statuses" => asking[r].fate # "spoiled"
  <1>1. asking[r] \in Askings /\ AskingOK(asking[r]) /\ InTransaction(asking[r])
    BY DEF NamesIInv, CreationTyped, InTransaction
  <1>2. asking[r].op \in {"create", "rename", "remove"}
    BY <1>1 DEF AskingOK, AskedFor, Askings
  <1>3. kind \in {"tags", "statuses"}
    BY DEF NamesIInv, CreationTyped
  <1>4. kind = "statuses" => asking[r].fate # "spoiled"
    BY DEF Naming!MayCommit
  <1>5. asking[r].op = "create" =>
           records[asking[r].key] = Nobody /\ asking[r].key \in Keys /\ asking[r].target = Nobody
    BY <1>1, <1>3, <1>4 DEF AskingOK, AskedFor, KeyIsFree, SeenIsThere
  <1>6. asking[r].op # "remove" => asking[r].name \in Names
    BY <1>1, <1>2 DEF AskingOK, AskedFor
  <1>7. asking[r].op # "remove" =>
           \A a \in named : a.name = asking[r].name => a.id = asking[r].target
    <2>1. CASE kind = "tags"
      BY <2>1 DEF Naming!MayCommit, Naming!Refused, Naming!Taken
    <2>2. CASE kind = "statuses"
      BY <1>1, <1>4, <1>6, <2>2, NamesAssumption DEF AskingOK, SeenIsThere, NameWasFree
    <2>3. QED  BY <1>3, <2>1, <2>2
  <1>8. QED
    BY <1>1, <1>2, <1>4, <1>5, <1>6, <1>7

\* The next place on the board is after those that were seen.
LEMMA PlaceIsNew ==
  ASSUME NamesIInv, NEW r \in Asking, AskingOK(asking[r]), InTransaction(asking[r])
  PROVE  /\ Naming!nextSortOrder(r) \in Nat
         /\ kind = "statuses" => \A s \in asking[r].snap.rows : s.order # Naming!nextSortOrder(r)
  <1>1. CASE kind = "tags"
    BY <1>1 DEF Naming!nextSortOrder
  <1>2. CASE kind = "statuses"
    <2> DEFINE seen == asking[r].snap.rows
               Orders == {row.order : row \in seen}
    <2>1. seen \subseteq NamedRows /\ IsFiniteSet(seen)
      BY <1>2 DEF AskingOK, AskedFor, Views
    <2>2. Orders \subseteq Nat
      BY <2>1 DEF NamedRows
    <2>3. IsFiniteSet(Orders)
      <3> DEFINE f == [row \in seen |-> row.order]
      <3>1. f \in [seen -> Orders] /\ \A t \in Orders : \E x \in seen : f[x] = t
        OBVIOUS
      <3> HIDE DEF f, Orders
      <3>2. QED  BY <2>1, <3>1, ImageIsFinite
    <2>4. \A s \in seen : s.order \in Orders
      OBVIOUS
    <2>5. Naming!nextSortOrder(r) = 1 + Naming!Max(Orders \cup {0})
      BY <1>2 DEF Naming!nextSortOrder, Naming!Seen
    <2> HIDE DEF Orders
    <2>6. IsFiniteSet(Orders \cup {0})
      BY <2>3, FS_AddElement
    <2>7. \E x \in Orders \cup {0} : \A y \in Orders \cup {0} : y <= x
      BY <2>2, <2>6, GreatestExists
    <2>8. \E x \in Orders \cup {0} : \A y \in Orders \cup {0} : x >= y
      BY <2>2, <2>7
    <2> DEFINE m == Naming!Max(Orders \cup {0})
    <2>9. m \in Orders \cup {0} /\ \A y \in Orders \cup {0} : m >= y
      BY <2>8 DEF Naming!Max
    <2>10. Naming!nextSortOrder(r) = 1 + m
      BY <2>5
    <2> HIDE DEF m
    <2>11. m \in Nat /\ \A y \in Orders : y \in Nat /\ m >= y
      BY <2>2, <2>9
    <2>12. Naming!nextSortOrder(r) \in Nat /\ \A y \in Orders : y # Naming!nextSortOrder(r)
      BY <2>10, <2>11
    <2>13. QED  BY <2>4, <2>12
  <1>3. QED
    BY <1>1, <1>2 DEF NamesIInv, CreationTyped

\* What the writes of a commit do to the rows and to the records.
LEMMA WritesOK ==
  ASSUME NamesIInv, NEW r \in Asking, asking[r].pc = "commit", Naming!MayCommit(r),
         Naming!Writes(r), kind' = kind,
         \A p \in Asking : asking[p].pc = "done" => asking'[p].pc = "done",
         asking'[r].pc = "done"
  PROVE  /\ named' \subseteq NamedRows /\ IsFiniteSet(named')
         /\ asking[r].op # "create" => Cardinality(named') <= Cardinality(named) /\ records' = records
         /\ asking[r].op = "create" =>
               /\ Cardinality(named') <= Cardinality(named) + 1
               /\ records' = [records EXCEPT ![asking[r].key] = [id |-> r, name |-> asking[r].name]]
         /\ RowsHaveCreators' /\ Naming!NamesAreApart' /\ Naming!PlacesAreApart'
         /\ \A b \in named' : \/ b.name = asking[r].name /\ asking[r].op # "remove"
                              \/ b \in named
         /\ asking[r].op # "create" => \A b \in named' : \E a \in named : a.order = b.order
  <1> DEFINE q == asking[r]
  <1> USE DEF NamesIInv
  <1>1. /\ q \in Askings /\ AskingOK(q) /\ InTransaction(q)
        /\ q.op \in {"create", "rename", "remove"}
        /\ q.op = "create" => records[q.key] = Nobody /\ q.key \in Keys /\ q.target = Nobody
        /\ q.op # "remove" => q.name \in Names /\ \A a \in named : a.name = q.name => a.id = q.target
        /\ kind = "statuses" => q.fate # "spoiled"
    BY CommitFacts
  <1>2. named \subseteq NamedRows /\ IsFiniteSet(named) /\ Cardinality(named) \in Nat
    BY FS_CardinalityType DEF CreationTyped
  <1>3. CASE q.op = "create"
    <2> DEFINE new == Naming!Row(r, q.name, Naming!nextSortOrder(r))
    <2>1. /\ named' = named \cup {new}
          /\ records' = [records EXCEPT ![q.key] = [id |-> r, name |-> q.name]]
      BY <1>3 DEF Naming!Writes, Naming!WritesNew, Naming!Is
    <2>2. /\ Naming!nextSortOrder(r) \in Nat
          /\ kind = "statuses" => \A s \in q.snap.rows : s.order # Naming!nextSortOrder(r)
      BY <1>1, PlaceIsNew
    <2>3. new \in NamedRows /\ new.id = r /\ new.name = q.name /\ new.order = Naming!nextSortOrder(r)
      BY <1>1, <1>3, <2>2 DEF Naming!Row, NamedRows
    <2> HIDE DEF new
    <2>4. IsFiniteSet(named') /\ Cardinality(named') <= Cardinality(named) + 1
      <3>1. /\ IsFiniteSet(named')
            /\ Cardinality(named') = IF new \in named THEN Cardinality(named) ELSE Cardinality(named) + 1
        BY <1>2, <2>1, FS_AddElement
      <3>2. QED  BY <1>2, <3>1
    <2>5. \A a \in named : a.id # r /\ a.name # q.name
      BY <1>1, <1>2, <1>3, NamesAssumption DEF RowsHaveCreators, NamedRows
    <2>6. RowsHaveCreators'
      BY <2>1, <2>3, <2>5 DEF RowsHaveCreators
    <2>7. Naming!NamesAreApart'
      BY <2>1, <2>3, <2>5 DEF Naming!NamesAreApart
    <2>8. kind = "statuses" => \A a \in named : a.order # new.order
      BY <1>1, <1>3, <2>2, <2>3 DEF AskingOK, SeenIsThere
    <2>9. Naming!PlacesAreApart'
      BY <2>1, <2>8 DEF Naming!PlacesAreApart
    <2>10. QED
      BY <1>2, <1>3, <2>1, <2>3, <2>4, <2>6, <2>7, <2>9
  <1>4. CASE q.op = "rename"
    <2> DEFINE f == [row \in named |-> IF row.id = q.target THEN [row EXCEPT !.name = q.name] ELSE row]
    <2>1. /\ named' = {IF row.id = q.target THEN [row EXCEPT !.name = q.name] ELSE row : row \in named}
          /\ records' = records
      BY <1>4 DEF Naming!Writes, Naming!Is
    <2>2. named' = {f[row] : row \in named}
      BY <2>1
    <2>3. \A row \in named :
             /\ f[row] \in NamedRows /\ f[row].id = row.id /\ f[row].order = row.order
             /\ row.id = q.target => f[row].name = q.name
             /\ row.id # q.target => f[row] = row
      BY <1>1, <1>2, <1>4 DEF NamedRows
    <2> HIDE DEF f
    <2>4. named' \subseteq NamedRows
      BY <2>2, <2>3
    <2>5. IsFiniteSet(named') /\ Cardinality(named') <= Cardinality(named)
      <3>1. f \in [named -> named'] /\ \A t \in named' : \E x \in named : f[x] = t
        BY <2>2 DEF f
      <3>2. QED  BY <1>2, <3>1, ImageIsFinite
    <2>6. RowsHaveCreators'
      BY <2>2, <2>3 DEF RowsHaveCreators
    <2>7. Naming!NamesAreApart'
      BY <1>1, <1>4, <2>2, <2>3 DEF Naming!NamesAreApart, RowsHaveCreators
    <2>8. Naming!PlacesAreApart'
      BY <2>2, <2>3 DEF Naming!PlacesAreApart
    <2>9. QED
      BY <1>2, <1>4, <2>1, <2>2, <2>3, <2>4, <2>5, <2>6, <2>7, <2>8
  <1>5. CASE q.op = "remove"
    <2>1. named' \subseteq named /\ records' = records
      BY <1>5 DEF Naming!Writes, Naming!Is
    <2>2. IsFiniteSet(named') /\ Cardinality(named') <= Cardinality(named)
      BY <1>2, <2>1, FS_Subset
    <2>3. RowsHaveCreators' /\ Naming!NamesAreApart' /\ Naming!PlacesAreApart'
      BY <2>1 DEF RowsHaveCreators, Naming!NamesAreApart, Naming!PlacesAreApart
    <2>4. QED
      BY <1>2, <1>5, <2>1, <2>2, <2>3
  <1>6. QED
    BY <1>1, <1>3, <1>4, <1>5

\* What a commit means to the requests it does not answer.
LEMMA OthersKeep ==
  ASSUME NamesIInv, NEW r \in Asking, asking[r].pc = "commit", Naming!MayCommit(r), kind' = kind,
         asking[r].op # "create" =>
            /\ records' = records
            /\ \A b \in named' : \E a \in named : a.order = b.order,
         asking[r].op = "create" =>
            records' = [records EXCEPT ![asking[r].key] = [id |-> r, name |-> asking[r].name]],
         \A b \in named' : \/ b.name = asking[r].name /\ asking[r].op # "remove"
                          \/ b \in named,
         NEW p \in Asking \ {r},
         NEW d, d = Naming!Disturbed(asking[r], asking[p])
  PROVE  AskingOK(d)'
  <1> DEFINE q == asking[r]
             o == asking[p]
  <1>1. /\ q \in Askings /\ q.op \in {"create", "rename", "remove"}
        /\ q.op = "create" => records[q.key] = Nobody /\ q.key \in Keys
        /\ q.op # "remove" => q.name \in Names
        /\ kind = "statuses" => q.fate # "spoiled"
    BY CommitFacts
  <1>2. o \in Askings /\ AskingOK(o) /\ kind \in {"tags", "statuses"}
        /\ records \in [Keys -> KeyRecords \cup {Nobody}]
    BY DEF NamesIInv, CreationTyped
  <1>3. /\ d \in Askings
        /\ d.op = o.op /\ d.pc = o.pc /\ d.key = o.key /\ d.name = o.name
        /\ d.target = o.target /\ d.snap = o.snap /\ d.answer = o.answer
        /\ o.snap = Nobody => d = o
        /\ o.snap # Nobody /\ d.fate # "spoiled" => o.fate # "spoiled" /\ ~Naming!Clash(q, o)
    BY <1>1, <1>2, DisturbedIs
  <1>4. \A k \in Keys : records[k] # Nobody => records'[k] = records[k]
    BY <1>1, <1>2
  <1>5. (AskedFor(d) /\ NameWasFree(d))'
    BY <1>2, <1>3 DEF AskingOK, AskedFor, NameWasFree, InTransaction
  <1>6. (AnsweredWell(d) /\ RecordsStay(d))'
    <2>1. (AnsweredWell(d))'
      <3>1. ASSUME o.op = "create", o.answer \in Asking
            PROVE  records'[o.key] = [id |-> o.answer, name |-> o.name]
        <4>1. /\ o.key \in Keys /\ o.name \in Names
              /\ records[o.key] = [id |-> o.answer, name |-> o.name]
          BY <1>2, <3>1 DEF AskingOK, AskedFor, AnsweredWell
        <4>2. records[o.key] # Nobody
          BY <3>1, <4>1, NamesAssumption
        <4>3. QED  BY <1>4, <4>1, <4>2
      <3>2. QED  BY <1>3, <3>1 DEF AnsweredWell
    <2>2. (RecordsStay(d))'
      BY <1>2, <1>3, <1>4 DEF AskingOK, RecordsStay, InTransaction
    <2>3. QED  BY <2>1, <2>2
  <1>7. (KeyIsFree(d))'
    <2>1. CASE kind = "tags" /\ q.op = "create"
      <3>1. d.op = "create" /\ d.pc \in {"check", "commit"} => d.key # q.key
        BY <1>1, <1>3, <2>1
           DEF NamesIInv, LocksHold, Naming!Holds, Naming!Is
      <3>2. QED
        BY <1>2, <1>3, <2>1, <3>1 DEF AskingOK, AskedFor, KeyIsFree
    <2>2. CASE ~(kind = "tags" /\ q.op = "create")
      BY <1>1, <1>2, <1>3, <2>2 DEF AskingOK, KeyIsFree
    <2>3. QED  BY <2>1, <2>2
  <1>8. (SeenIsThere(d))'
    <2> SUFFICES ASSUME kind = "statuses", InTransaction(d), d.fate # "spoiled"
                 PROVE  (/\ d.op = "create" =>
                               /\ records = d.snap.records
                               /\ \A a \in named : \E s \in d.snap.rows : s.order = a.order
                         /\ d.name # Nobody =>
                               \A a \in named : a.name = d.name =>
                                   \E s \in d.snap.rows : s.id = a.id /\ s.name = a.name)'
      BY DEF SeenIsThere, InTransaction
    <2>1. InTransaction(o) /\ o.snap # Nobody
      BY <1>2, <1>3, NamesAssumption
         DEF AskingOK, AskedFor, InTransaction, Views, NamedRows, KeyRecords
    <2>2. o.fate # "spoiled" /\ ~Naming!Clash(q, o)
      BY <1>3, <2>1
    <2>3. SeenIsThere(o)
      BY <1>2 DEF AskingOK
    <2>4. d.op = "create" => q.op # "create"
      BY <1>3, <2>2 DEF Naming!Clash
    <2>5. d.name # Nobody => d.name # q.name \/ q.op = "remove"
      BY <1>1, <1>3, <2>2, NamesAssumption DEF Naming!Clash
    <2>6. QED
      BY <1>3, <2>1, <2>2, <2>3, <2>4, <2>5 DEF SeenIsThere
  <1>9. QED
    BY <1>5, <1>6, <1>7, <1>8 DEF AskingOK

LEMMA CommitKeeps ==
  ASSUME NamesIInv, NEW r \in Asking, asking[r].pc = "commit", Naming!MayCommit(r),
         Naming!Writes(r), Naming!Commits(r, Naming!Answer(r)), kind' = kind
  PROVE  NamesIInv'
  <1> DEFINE q == asking[r]
             answer == Naming!Answer(r)
  <1>1. /\ q \in Askings /\ AskingOK(q) /\ InTransaction(q)
        /\ q.op \in {"create", "rename", "remove"}
        /\ q.op = "create" => records[q.key] = Nobody /\ q.key \in Keys /\ q.target = Nobody
    BY CommitFacts
  <1>2. /\ asking'[r] = Naming!Concluded(r, answer)
        /\ \A p \in Asking \ {r} : asking'[p] = Naming!Disturbed(q, asking[p])
        /\ DOMAIN asking' = Asking
    BY DEF Naming!Commits
  <1>3. \A p \in Asking \ {r} :
          /\ asking'[p] \in Askings
          /\ asking'[p].op = asking[p].op /\ asking'[p].pc = asking[p].pc
          /\ asking'[p].key = asking[p].key
    BY <1>1, <1>2, DisturbedIs DEF NamesIInv, CreationTyped
  <1>4. /\ answer \in Asking \cup Verdicts
        /\ answer \in Asking => answer = r /\ q.op = "create"
    BY NamesAssumption DEF Naming!Answer, Naming!Is, Verdicts
  <1>5. /\ asking'[r] \in Askings /\ asking'[r].pc = "done" /\ asking'[r].snap = Nobody
        /\ asking'[r].answer = answer
        /\ asking'[r].op = IF answer \in Asking THEN q.op ELSE "none"
        /\ answer \in Asking => asking'[r].key = q.key /\ asking'[r].name = q.name
    BY <1>2, <1>4, ConcludedIs
  <1>6. \A p \in Asking : asking[p].pc = "done" => asking'[p].pc = "done"
    BY <1>3
  <1>7. /\ named' \subseteq NamedRows /\ IsFiniteSet(named')
        /\ q.op # "create" => Cardinality(named') <= Cardinality(named) /\ records' = records
        /\ q.op = "create" =>
              /\ Cardinality(named') <= Cardinality(named) + 1
              /\ records' = [records EXCEPT ![q.key] = [id |-> r, name |-> q.name]]
        /\ RowsHaveCreators' /\ Naming!NamesAreApart' /\ Naming!PlacesAreApart'
        /\ \A b \in named' : (b.name = q.name /\ q.op # "remove") \/ b \in named
        /\ q.op # "create" => \A b \in named' : \E a \in named : a.order = b.order
    BY <1>5, <1>6, WritesOK
  <1>8. ASSUME NEW p \in Asking \ {r}
        PROVE  AskingOK(asking[p])'
    <2>1. \A d : d = Naming!Disturbed(q, asking[p]) => AskingOK(d)'
      BY <1>7, OthersKeep
    <2>2. \A d : d = asking'[p] => AskingOK(d)'
      BY <1>2, <2>1
    <2>3. QED  BY <2>2
  <1>9. AskingOK(asking[r])'
    <2>1. AnsweredWell(asking[r])'
      BY <1>1, <1>4, <1>5, <1>7 DEF AnsweredWell, NamesIInv, CreationTyped
    <2>2. (AskedFor(asking[r]) /\ RecordsStay(asking[r]) /\ KeyIsFree(asking[r])
             /\ SeenIsThere(asking[r]) /\ NameWasFree(asking[r]))'
      BY <1>1, <1>4, <1>5 DEF AskingOK, AskedFor, RecordsStay, KeyIsFree, SeenIsThere, NameWasFree,
                        InTransaction
    <2>3. QED  BY <2>1, <2>2 DEF AskingOK
  <1>10. records' \in [Keys -> KeyRecords \cup {Nobody}]
    <2>1. q.op = "create" => [id |-> r, name |-> q.name] \in KeyRecords
      BY <1>1 DEF AskingOK, AskedFor, KeyRecords
    <2>2. QED
      BY <1>1, <1>7, <2>1 DEF NamesIInv, CreationTyped
  <1>11. asking' \in [Asking -> Askings]
    BY <1>3, <1>5 DEF Naming!Commits
  <1>12. CreationTyped'
    BY <1>7, <1>10, <1>11 DEF NamesIInv, CreationTyped
  <1>13. Cardinality(named) \in Nat /\ Cardinality(named') \in Nat
    BY <1>7, FS_CardinalityType DEF NamesIInv, CreationTyped
  <1>14. ~Capturing(r)' /\ \A p \in Asking \ {r} : Capturing(p)' <=> Capturing(p)
    BY <1>3, <1>5 DEF Capturing
  <1>15. \A k \in Keys : ~Naming!Holds(r, k)' /\ \A p \in Asking \ {r} : Naming!Holds(p, k)' <=> Naming!Holds(p, k)
    BY <1>3, <1>5 DEF Naming!Holds, Naming!Is
  <1>16. q.op = "create" => Capturing(r)
    BY DEF Capturing
  <1>17. LocksHold'
    BY <1>1, <1>7, <1>13, <1>14, <1>15, <1>16, NamesAssumption DEF LocksHold, NamesIInv
  <1>18. Naming!CeilingHolds'
    <2>1. kind = "tags" => Cardinality(named') <= Ceiling
      BY <1>1, <1>7, <1>13, <1>16, SameCount, NamesAssumption
         DEF LocksHold, NamesIInv, Naming!CeilingHolds
    <2>2. QED
      BY <2>1, SameCount DEF Naming!CeilingHolds
  <1>19. QED
    BY <1>7, <1>8, <1>9, <1>12, <1>17, <1>18 DEF NamesIInv

LEMMA NamingKeeps == NamesIInv /\ [Naming!CreationNext]_Naming!creationVars => NamesIInv'
  <1> SUFFICES ASSUME NamesIInv, [Naming!CreationNext]_Naming!creationVars PROVE NamesIInv'
    OBVIOUS
  <1>1. ASSUME NEW r \in Asking, Naming!commit(r)
        PROVE  NamesIInv'
    <2>1. asking[r].pc = "commit" /\ kind' = kind
      BY <1>1 DEF Naming!commit, Naming!At
    <2>2. CASE Naming!MayCommit(r) /\ Naming!Writes(r) /\ Naming!Commits(r, Naming!Answer(r))
      BY <2>1, <2>2, CommitKeeps
    <2>3. CASE \E answer \in {"missing", "taken", "failed"} :
                  Naming!Concludes(r, answer) /\ UNCHANGED <<named, records>>
      <3>1. \A answer \in {"missing", "taken", "failed"} : answer \in Verdicts /\ answer \notin Asking
        BY NamesAssumption DEF Verdicts
      <3>2. QED  BY <2>1, <2>3, <3>1, ConcludesKeeps
    <2>4. CASE Naming!TriesAgain(r) /\ UNCHANGED <<named, records>>
      BY <2>1, <2>4, TriesAgainKeeps
    <2>5. QED
      BY <1>1, <2>2, <2>3, <2>4 DEF Naming!commit
  <1>2. CASE UNCHANGED Naming!creationVars
    <2>1. UNCHANGED <<kind, named, records, asking>>
      BY <1>2 DEF Naming!creationVars
    <2>2. QED
      BY <2>1 DEF NamesIInv, CreationTyped, AskingOK, AskedFor, AnsweredWell, RecordsStay, KeyIsFree,
          SeenIsThere, NameWasFree, InTransaction, RowsHaveCreators, LocksHold, Capturing,
          Naming!Holds, Naming!Is, Naming!NamesAreApart, Naming!PlacesAreApart, Naming!CeilingHolds
  <1>3. QED
    BY <1>1, <1>2, RequestKeeps, LockKeeps, ChecksKeep DEF Naming!CreationNext, Naming!Serving

----------------------------------------------------------------------------
(* The theorems about what MCRequests composes: a step of another subject  *)
(* leaves the claims, the rows and the tables alone.                       *)

\* A workspace is known by a host only if the claim of that host was proved by it, a
\* lookup never trusts a host that was released, a key creates once, two rows have two
\* names and two places: for any workspaces, hosts, calls, requests, keys and names
\* (domains.service.ts, api-idempotency.ts, tags.service.ts, task-statuses.service.ts).
THEOREM ClaimsAreTrue == MCSpec => []ClaimsInv
  <1> DEFINE I == DomainIInv /\ NamesIInv
  <1>1. MCInit => I
    BY DomainInitIInv, CreationInitOK DEF MCInit
  <1>2. I /\ [MCNext]_mcVars => I'
    <2> SUFFICES ASSUME I, [MCNext]_mcVars PROVE I'
      OBVIOUS
    <2>1. [Domains!DomainNext]_Domains!domainVars
      BY DEF MCNext, mcVars, domains, Domains!domainVars
    <2>2. [Naming!CreationNext]_Naming!creationVars
      BY DEF MCNext, mcVars, naming, Naming!creationVars
    <2> QED  BY <2>1, <2>2, DomainKeeps, NamingKeeps
  <1>3. I => ClaimsInv
    BY NamesIInvImplies DEF ClaimsInv, DomainIInv
  <1> QED  BY <1>1, <1>2, <1>3, PTL DEF MCSpec
=============================================================================
