------------------------- MODULE JobOutbox_proofs -------------------------
(***************************************************************************)
(* Proofs about JobOutbox for every set of intents and nodes and every     *)
(* limit.  Where a theorem excludes some kinds of faults, its ASSUME says  *)
(* which: with them TLC finds a counterexample.                            *)
(***************************************************************************)
EXTENDS JobOutbox, TLAPS

----------------------------------------------------------------------------
(* What the statements and the moves of a worker slot preserve.             *)

\* A write to one row keeps the rows typed.
LEMMA SetOutboxType ==
  ASSUME RowsOK, NEW i \in Intents, NEW status \in OutboxStatus, SetOutbox(i, status)
  PROVE  RowsOK'
  BY DEF RowsOK, SetOutbox

\* A conditional update of job_outbox keeps the rows typed.
LEMMA SetOutboxIfType ==
  ASSUME RowsOK, NEW i, NEW states, NEW status \in OutboxStatus,
         i \in Intents, SetOutboxIf(i, states, status)
  PROVE  RowsOK'
  BY SetOutboxType DEF RowsOK, SetOutboxIf

\* A write to one replay key keeps the keys typed.
LEMMA SetIdemIfType ==
  ASSUME idem \in [Intents -> IdemStatus], NEW i \in Intents, NEW states,
         NEW status \in IdemStatus, SetIdemIf(i, states, status)
  PROVE  idem' \in [Intents -> IdemStatus]
  BY DEF SetIdemIf

\* markFailed keeps both tables typed.
LEMMA MarkFailedType ==
  ASSUME TypeOK, NEW i \in Intents, markFailed(i)
  PROVE  RowsOK' /\ idem' \in [Intents -> IdemStatus]
  <1>1. idem' \in [Intents -> IdemStatus]
    BY DEF markFailed, TypeOK, IdemStatus
  <1>2. RowsOK'
    BY SetOutboxIfType DEF markFailed, TypeOK, OutboxStatus
  <1> QED
    BY <1>1, <1>2

\* requireReconciliation keeps both tables typed.
LEMMA RequireReconciliationType ==
  ASSUME TypeOK, NEW i \in Intents, requireReconciliation(i)
  PROVE  RowsOK' /\ idem' \in [Intents -> IdemStatus]
  BY SetOutboxIfType, SetIdemIfType
     DEF requireReconciliation, TypeOK, OutboxStatus, IdemStatus

\* A slot that stays busy with its row stays typed.
LEMMA SlotType ==
  ASSUME WorkOK, NEW n \in Nodes, work[n].pc # "idle",
         NEW slot \in Work, slot.pc # "idle", slot.intent = work[n].intent,
         work' = [work EXCEPT ![n] = slot]
  PROVE  WorkOK'
  BY DEF WorkOK

\* A busy slot that moves on keeps its row.
LEMMA GotoType ==
  ASSUME WorkOK, NEW n \in Nodes, work[n].pc # "idle",
         NEW pc \in WorkPC \ {"idle"}, Goto(n, pc)
  PROVE  WorkOK'
  <1> DEFINE slot == [work[n] EXCEPT !.pc = pc]
  <1>1. slot \in Work /\ slot.pc = pc /\ slot.intent = work[n].intent
    BY DEF WorkOK, Work
  <1>2. work' = [work EXCEPT ![n] = slot]
    BY DEF Goto
  <1> HIDE DEF slot
  <1> QED
    BY <1>1, <1>2, SlotType

\* So does one whose outcome is known.
LEMMA OutcomeType ==
  ASSUME WorkOK, NEW n \in Nodes, work[n].pc # "idle",
         NEW pc \in WorkPC \ {"idle"}, NEW outcome \in Outcomes,
         work' = [work EXCEPT ![n].pc = pc, ![n].outcome = outcome]
  PROVE  WorkOK'
  <1> DEFINE slot == [work[n] EXCEPT !.pc = pc, !.outcome = outcome]
  <1>1. slot \in Work /\ slot.pc = pc /\ slot.intent = work[n].intent
    BY DEF WorkOK, Work
  <1>2. work' = [work EXCEPT ![n] = slot]
    OBVIOUS
  <1> HIDE DEF slot
  <1> QED
    BY <1>1, <1>2, SlotType

\* A slot that is done with process() stays typed.
LEMMA FinishType ==
  ASSUME WorkOK, NEW n \in Nodes, work[n].pc # "idle",
         NEW outcome \in Outcomes, Finish(n, outcome)
  PROVE  WorkOK'
  <1>1. "ack" \in WorkPC \ {"idle"}
    BY DEF WorkPC
  <1> QED
    BY <1>1, OutcomeType DEF Finish

\* The catch block of process() leaves a typed slot.
LEMMA HandleErrorType ==
  ASSUME WorkOK, NEW n \in Nodes, work[n].pc # "idle",
         NEW outcome \in Outcomes, HandleError(n, outcome)
  PROVE  WorkOK'
  <1> DEFINE pc == IF outcome = "unrecoverable" \/ work[n].attempt >= MaxAttempts
                   THEN "fail" ELSE "release"
  <1>1. work' = [work EXCEPT ![n].pc = pc, ![n].outcome = outcome]
    BY DEF HandleError
  <1>2. pc \in WorkPC \ {"idle"}
    BY DEF WorkPC
  <1> HIDE DEF pc
  <1> QED
    BY <1>1, <1>2, OutcomeType

\* A quarantined slot is typed.
LEMMA QuarantineType ==
  ASSUME WorkOK, NEW n \in Nodes, work[n].pc # "idle", Quarantine(n)
  PROVE  WorkOK'
  <1>1. "quarantine" \in WorkPC \ {"idle"} /\ "unrecoverable" \in Outcomes
    BY DEF WorkPC, Outcomes
  <1> QED
    BY <1>1, OutcomeType DEF Quarantine

\* The row of a busy slot or loop is an intent.
LEMMA BusyRow ==
  ASSUME TypeOK, NEW n \in Nodes
  PROVE  /\ work[n].pc # "idle" => work[n].intent \in Intents
         /\ disp[n].pc \in {"mark", "deadLetter"} => disp[n].cur \in Intents
  BY ConstantsAssumption DEF TypeOK, WorkOK, DispOK, Work, Disp

\* A dispatcher that moves past a row stays typed.
LEMMA AfterRowType ==
  ASSUME DispOK, NEW n \in Nodes, NEW i, AfterRow(n, i)
  PROVE  DispOK'
  BY ConstantsAssumption DEF DispOK, AfterRow, NotDispatching, Disp, DispPC

\* The row a dispatcher looks at is an intent.
LEMMA AtRowType ==
  ASSUME DispOK, NEW n \in Nodes, NEW i \in Intents, NEW pc \in {"mark", "deadLetter"},
         disp' = [disp EXCEPT ![n].pc = pc, ![n].cur = i]
  PROVE  DispOK'
  <1>1. i # NoIntent
    BY ConstantsAssumption
  <1>2. disp' \in [Nodes -> Disp]
    <2> DEFINE row == [disp[n] EXCEPT !.pc = pc, !.cur = i]
    <2>1. disp \in [Nodes -> Disp] /\ disp' = [disp EXCEPT ![n] = row]
      BY DEF DispOK
    <2>2. row \in Disp
      BY <2>1 DEF Disp, DispPC
    <2> HIDE DEF row
    <2> QED
      BY <2>1, <2>2
  <1>3. \A m \in Nodes : m # n => disp'[m] = disp[m]
    BY DEF DispOK
  <1>4. disp'[n].pc = pc /\ disp'[n].cur = i
    BY DEF DispOK, Disp
  <1> QED
    BY <1>1, <1>2, <1>3, <1>4 DEF DispOK

\* What BullMQ makes of a job is a job.
LEMMA BullType ==
  ASSUME NEW b \in BullJob
  PROVE  /\ Failed(b) \in BullJob
         /\ \A outcome \in Outcomes : BullOutcome(b, outcome) \in BullJob
         /\ Stalled(b) \in BullJob
         /\ NotQueued \in BullJob
  <1>1. Failed(b) \in BullJob
    <2> DEFINE made == IF b.made < MaxAttempts THEN b.made + 1 ELSE b.made
    <2>1. made \in 0..MaxAttempts
      BY ConstantsAssumption DEF BullJob
    <2>2. Failed(b) = [b EXCEPT !.made = made, !.state = "failed", !.owner = NoNode]
      BY DEF Failed
    <2> HIDE DEF made
    <2> QED
      BY <2>1, <2>2 DEF BullJob, JobState
  <1>2. ASSUME NEW outcome \in Outcomes PROVE BullOutcome(b, outcome) \in BullJob
    <2>1. CASE outcome = "done"
      BY <2>1 DEF BullOutcome, BullJob, JobState
    <2>2. CASE outcome = "unrecoverable"
      BY <2>2, <1>1 DEF BullOutcome
    <2>3. CASE outcome = "error"
      <3>1. \A s \in JobState : [Failed(b) EXCEPT !.state = s] \in BullJob
        BY <1>1 DEF BullJob
      <3> QED
        BY <2>3, <3>1 DEF BullOutcome, JobState
    <2> QED
      BY <2>1, <2>2, <2>3 DEF Outcomes
  <1>3. Stalled(b) \in BullJob
    <2> DEFINE stalls == IF b.stalls < MaxStalled THEN b.stalls + 1 ELSE b.stalls
               state == IF b.stalls < MaxStalled THEN "waiting" ELSE "failed"
    <2>1. stalls \in 0..MaxStalled /\ state \in JobState
      BY ConstantsAssumption DEF BullJob, JobState
    <2>2. Stalled(b) = [b EXCEPT !.state = state, !.stalls = stalls, !.owner = NoNode]
      BY DEF Stalled
    <2> HIDE DEF stalls, state
    <2> QED
      BY <2>1, <2>2 DEF BullJob
  <1>4. NotQueued \in BullJob
    BY ConstantsAssumption DEF NotQueued, BullJob, JobState
  <1> QED
    BY <1>1, <1>2, <1>3, <1>4

----------------------------------------------------------------------------
(* Type correctness.                                                        *)

\* The initial state is well typed.
LEMMA InitType == Init => TypeOK
  BY ConstantsAssumption
     DEF Init, TypeOK, RowsOK, DispOK, WorkOK, SetsOK, OutboxStatus, IdemStatus,
         BullJob, JobState, NotQueued, Work, WorkPC, Outcomes, Idle, Disp, DispPC,
         NotDispatching

\* A dispatcher's step keeps the types.
LEMMA DispatchType ==
  ASSUME TypeOK, NEW n \in Nodes, DispatchStep(n)
  PROVE  TypeOK'
  <1> USE DEF TypeOK, SetsOK, history, database
  <1>1. CASE DispatchClaim(n)
    <2>1. RowsOK'
      BY <1>1 DEF DispatchClaim, RowsOK, OutboxStatus
    <2>2. DispOK'
      BY <1>1 DEF DispatchClaim, ClaimableRows, DispOK, Disp, DispPC
    <2> QED
      BY <1>1, <2>1, <2>2 DEF DispatchClaim, WorkOK
  <1>2. ASSUME NEW i \in Intents, DispatchRelease(n, i)
        PROVE  TypeOK'
    <2>1. RowsOK'
      BY <1>2, SetOutboxIfType DEF DispatchRelease, releaseUnhandled, OutboxStatus
    <2> QED
      BY <1>2, <2>1, AfterRowType DEF DispatchRelease, WorkOK
  <1>3. ASSUME NEW i \in Intents, DispatchReject(n, i)
        PROVE  TypeOK'
    <2>1. DispOK'
      BY <1>3, AtRowType DEF DispatchReject
    <2> QED
      BY <1>3, <2>1, MarkFailedType DEF DispatchReject, WorkOK
  <1>4. ASSUME NEW i \in Intents, DispatchPublish(n, i)
        PROVE  TypeOK'
    <2>1. DispOK'
      BY <1>4, AtRowType DEF DispatchPublish
    <2>2. job' \in [Intents -> BullJob]
      BY <1>4, ConstantsAssumption DEF DispatchPublish, NotQueued, BullJob, JobState
    <2> QED
      BY <1>4, <2>1, <2>2 DEF DispatchPublish, WorkOK, RowsOK
  <1>5. CASE DispatchDeadLetter(n)
    BY <1>5, BusyRow, AfterRowType DEF DispatchDeadLetter, WorkOK, RowsOK
  <1>6. CASE DispatchMark(n)
    <2>1. RowsOK'
      BY <1>6, BusyRow, SetOutboxIfType DEF DispatchMark, markDispatched, OutboxStatus
    <2> QED
      BY <1>6, <2>1, AfterRowType DEF DispatchMark, WorkOK
  <1> QED
    BY <1>1, <1>2, <1>3, <1>4, <1>5, <1>6 DEF DispatchStep

\* A worker's step keeps the types.
LEMMA WorkerType ==
  ASSUME TypeOK, NEW n \in Nodes, WorkerStep(n)
  PROVE  TypeOK'
  <1> DEFINE i == work[n].intent
  <1> USE DEF TypeOK, SetsOK, history, database
  <1>0. work[n].pc # "idle" => i \in Intents
    BY BusyRow
  <1> HIDE DEF i
  <1>1. CASE WorkerLoad(n)
    <2>1. WorkOK'
      BY <1>1, FinishType, GotoType, HandleErrorType DEF WorkerLoad, WorkPC, Outcomes
    <2> QED
      BY <1>1, <2>1 DEF WorkerLoad, RowsOK, DispOK
  <1>2. CASE WorkerClaim(n)
    <2>1. WorkOK'
      BY <1>2, FinishType, GotoType, QuarantineType DEF WorkerClaim, WorkPC, Outcomes
    <2>2. RowsOK' /\ idem' \in [Intents -> IdemStatus]
      BY <1>0, <1>2, SetOutboxIfType, SetIdemIfType
         DEF WorkerClaim, i, RowsOK, OutboxStatus, IdemStatus
    <2> QED
      BY <1>2, <2>1, <2>2 DEF WorkerClaim, DispOK
  <1>3. CASE HandlerReturns(n)
    <2>1. WorkOK'
      BY <1>3, GotoType DEF HandlerReturns, WorkPC
    <2> QED
      BY <1>0, <1>3, <2>1 DEF HandlerReturns, i, RowsOK, DispOK
  <1>4. CASE HandlerThrows(n)
    <2>1. WorkOK'
      BY <1>4, HandleErrorType DEF HandlerThrows, Outcomes
    <2> QED
      BY <1>4, <2>1 DEF HandlerThrows, RowsOK, DispOK
  <1>5. CASE HandlerTimesOut(n)
    <2>1. WorkOK'
      BY <1>5, QuarantineType DEF HandlerTimesOut
    <2> QED
      BY <1>0, <1>5, <2>1 DEF HandlerTimesOut, i, RowsOK, DispOK
  <1>6. CASE WorkerComplete(n)
    <2>1. WorkOK'
      BY <1>6, FinishType DEF WorkerComplete, Outcomes
    <2>2. RowsOK' /\ idem' \in [Intents -> IdemStatus]
      BY <1>0, <1>6, SetOutboxIfType, SetIdemIfType
         DEF WorkerComplete, completeExecution, i, OutboxStatus, IdemStatus
    <2> QED
      BY <1>6, <2>1, <2>2 DEF WorkerComplete, DispOK
  <1>7. CASE WorkerRelease(n)
    <2>1. WorkOK'
      BY <1>7, GotoType DEF WorkerRelease, WorkPC
    <2>2. idem' \in [Intents -> IdemStatus]
      BY <1>0, <1>7, SetIdemIfType DEF WorkerRelease, releaseExecution, i, IdemStatus
    <2> QED
      BY <1>7, <2>1, <2>2 DEF WorkerRelease, RowsOK, DispOK
  <1>8. CASE WorkerRecordRetry(n)
    <2>1. WorkOK'
      BY <1>8, FinishType DEF WorkerRecordRetry, Outcomes
    <2>2. RowsOK'
      BY <1>0, <1>8, SetOutboxIfType DEF WorkerRecordRetry, recordRetry, i, OutboxStatus
    <2> QED
      BY <1>8, <2>1, <2>2 DEF WorkerRecordRetry, DispOK
  <1>9. CASE WorkerFail(n)
    <2>1. WorkOK'
      BY <1>9, GotoType DEF WorkerFail, WorkPC
    <2> QED
      BY <1>0, <1>9, <2>1, MarkFailedType DEF WorkerFail, i, DispOK
  <1>10. CASE WorkerQuarantine(n)
    <2>1. WorkOK'
      BY <1>10, GotoType DEF WorkerQuarantine, WorkPC
    <2> QED
      BY <1>0, <1>10, <2>1, RequireReconciliationType DEF WorkerQuarantine, i, DispOK
  <1>11. CASE WorkerDeadLetter(n)
    <2>1. WorkOK'
      BY <1>11, GotoType DEF WorkerDeadLetter, WorkPC
    <2> QED
      BY <1>0, <1>11, <2>1 DEF WorkerDeadLetter, i, RowsOK, DispOK
  <1>12. CASE WorkerAck(n)
    <2>1. WorkOK'
      BY <1>12, ConstantsAssumption DEF WorkerAck, WorkOK, Work, WorkPC, Outcomes, Idle
    <2>2. work[n].outcome \in Outcomes
      BY DEF WorkOK, Work
    <2>3. job' \in [Intents -> BullJob]
      BY <1>12, <2>2, BullType DEF WorkerAck
    <2> QED
      BY <1>12, <2>1, <2>3 DEF WorkerAck, RowsOK, DispOK
  <1> QED
    BY <1>1, <1>2, <1>3, <1>4, <1>5, <1>6, <1>7, <1>8, <1>9, <1>10, <1>11, <1>12
       DEF WorkerStep, RunEnds

\* A step of BullMQ, of an operator, of maintenance or of a producer keeps the
\* types, and so do the bookkeeping of BullMQ's own steps and every fault.
LEMMA IntentType ==
  ASSUME TypeOK, NEW i \in Intents,
         \/ Enqueue(i) \/ Elapse(i) \/ RetryPrepare(i) \/ RetryForward(i)
         \/ Cleanup(i) \/ BullStep(i) \/ IntentFault(i)
  PROVE  TypeOK'
  <1> USE DEF TypeOK, SetsOK, history, database
  <1>1. CASE Enqueue(i)
    <2>1. RowsOK'
      BY <1>1 DEF Enqueue, RowsOK, OutboxStatus
    <2> QED
      BY <1>1, <2>1 DEF Enqueue, DispOK, WorkOK
  <1>2. CASE Elapse(i)
    BY <1>2 DEF Elapse, RowsOK, DispOK, WorkOK
  <1>3. CASE RetryPrepare(i)
    <2>1. RowsOK' /\ idem' \in [Intents -> IdemStatus]
      BY <1>3, SetOutboxType, SetIdemIfType DEF RetryPrepare, OutboxStatus, IdemStatus
    <2>2. retries' \in [Intents -> 0..MaxRetries]
      BY <1>3, ConstantsAssumption DEF RetryPrepare
    <2> QED
      BY <1>3, <2>1, <2>2 DEF RetryPrepare, DispOK, WorkOK
  <1>4. CASE RetryForward(i)
    <2>1. job' \in [Intents -> BullJob]
      BY <1>4 DEF RetryForward, BullJob, JobState
    <2> QED
      BY <1>4, <2>1 DEF RetryForward, RowsOK, DispOK, WorkOK
  <1>5. CASE CancelUnconsumed(i)
    BY <1>5, SetOutboxType DEF CancelUnconsumed, OutboxStatus, DispOK, WorkOK
  <1>6. CASE DeleteTerminalOutbox(i)
    BY <1>6, SetOutboxType DEF DeleteTerminalOutbox, OutboxStatus, DispOK, WorkOK
  <1>7. CASE DeleteExpiredKey(i)
    <2>1. idem' \in [Intents -> IdemStatus]
      BY <1>7 DEF DeleteExpiredKey, IdemStatus
    <2> QED
      BY <1>7, <2>1 DEF DeleteExpiredKey, RowsOK, DispOK, WorkOK
  <1>8. ASSUME NEW b \in BullJob, job' = [job EXCEPT ![i] = b],
               UNCHANGED <<database, disp, work>>, SetsOK'
        PROVE  TypeOK'
    BY <1>8 DEF RowsOK, DispOK, WorkOK
  <1>9. CASE JobStalls(i)
    BY <1>8, <1>9, BullType DEF JobStalls
  <1>10. CASE JobRemoved(i)
    BY <1>8, <1>10, BullType DEF JobRemoved
  <1>11. CASE LockLost(i)
    <2>1. faults' \in 0..MaxFaults
      BY <1>11, ConstantsAssumption DEF LockLost, Fault
    <2> QED
      BY <1>8, <1>11, <2>1, BullType DEF LockLost
  <1>12. CASE RetryForwardFails(i)
    <2>1. faults' \in 0..MaxFaults
      BY <1>12, ConstantsAssumption DEF RetryForwardFails, Fault
    <2> QED
      BY <1>12, <2>1 DEF RetryForwardFails, RowsOK, DispOK, WorkOK
  <1> QED
    BY <1>1, <1>2, <1>3, <1>4, <1>5, <1>6, <1>7, <1>9, <1>10, <1>11, <1>12
       DEF Cleanup, BullStep, IntentFault

\* Restarts and the faults of one node keep the types.
LEMMA NodeType ==
  ASSUME TypeOK, NEW n \in Nodes, Restart(n) \/ NodeFault(n)
  PROVE  TypeOK'
  <1> USE DEF TypeOK, SetsOK, history, database
  <1>1. ASSUME NEW kind, Fault(kind) PROVE faults' \in 0..MaxFaults
    BY <1>1, ConstantsAssumption DEF Fault
  <1>2. ASSUME Vanish(n), faults' \in 0..MaxFaults PROVE TypeOK'
    <2>1. DispOK'
      BY <1>2, ConstantsAssumption DEF Vanish, DispOK, NotDispatching, Disp, DispPC
    <2>2. WorkOK'
      BY <1>2, ConstantsAssumption DEF Vanish, WorkOK, Idle, Work, WorkPC, Outcomes
    <2>3. ambiguous' \subseteq Intents
      BY <1>2, BusyRow DEF Vanish
    <2> QED
      BY <1>2, <2>1, <2>2, <2>3 DEF Vanish, RowsOK
  <1>3. CASE Restart(n)
    BY <1>2, <1>3 DEF Restart
  <1>4. CASE Crash(n)
    BY <1>1, <1>2, <1>4 DEF Crash
  <1>5. CASE BeginShutdown(n)
    BY <1>1, <1>5 DEF BeginShutdown, RowsOK, DispOK, WorkOK
  <1>6. CASE DispatchAbort(n)
    <2>1. DispOK'
      BY <1>6, ConstantsAssumption DEF DispatchAbort, DispOK, NotDispatching, Disp, DispPC
    <2> QED
      BY <1>1, <1>6, <2>1 DEF DispatchAbort, RowsOK, WorkOK
  <1>7. CASE WorkerDbError(n)
    <2>1. WorkOK'
      BY <1>7, HandleErrorType, FinishType DEF WorkerDbError, Outcomes
    <2> QED
      BY <1>1, <1>7, <2>1 DEF WorkerDbError, RowsOK, DispOK
  <1> QED
    BY <1>3, <1>4, <1>5, <1>6, <1>7 DEF NodeFault

\* Every step of the specification keeps the types.
LEMMA NextType == TypeOK /\ [Next]_vars => TypeOK'
  <1> SUFFICES ASSUME TypeOK, [Next]_vars PROVE TypeOK'
    OBVIOUS
  <1>1. ASSUME NEW n \in Nodes, NEW i \in Intents, WorkerTake(n, i)
        PROVE  TypeOK'
    <2>1. i # NoIntent /\ job[i].made + 1 \in 0..MaxAttempts + 1
      BY ConstantsAssumption DEF TypeOK, BullJob
    <2>2. WorkOK'
      <3> DEFINE slot == [pc |-> "load", intent |-> i, attempt |-> job[i].made + 1,
                          outcome |-> "done"]
      <3>1. WorkOK /\ work' = [work EXCEPT ![n] = slot]
        BY <1>1 DEF WorkerTake, TypeOK
      <3>2. slot \in Work /\ slot.pc # "idle" /\ slot.intent # NoIntent
        BY <2>1 DEF Work, WorkPC, Outcomes
      <3> HIDE DEF slot
      <3>3. work' \in [Nodes -> Work]
        BY <3>1, <3>2 DEF WorkOK
      <3>4. \A m \in Nodes : work'[m] = IF m = n THEN slot ELSE work[m]
        BY <3>1 DEF WorkOK
      <3>5. ASSUME NEW m \in Nodes
            PROVE  work'[m].pc = "idle" <=> work'[m].intent = NoIntent
        <4>1. work[m].pc = "idle" <=> work[m].intent = NoIntent
          BY <3>1 DEF WorkOK
        <4>2. CASE m = n
          BY <3>2, <3>4, <4>2, Zenon
        <4>3. CASE m # n
          BY <3>4, <4>1, <4>3, Zenon
        <4> QED
          BY <4>2, <4>3
      <3> QED
        BY <3>3, <3>5, Zenon DEF WorkOK
    <2>3. job' \in [Intents -> BullJob]
      <3> DEFINE taken == [job[i] EXCEPT !.state = "active", !.owner = n]
      <3>1. job \in [Intents -> BullJob] /\ job' = [job EXCEPT ![i] = taken]
        BY <1>1 DEF WorkerTake, TypeOK
      <3>2. taken \in BullJob
        BY <3>1 DEF BullJob, JobState
      <3> HIDE DEF taken
      <3> QED
        BY <3>1, <3>2
    <2> QED
      BY <1>1, <2>2, <2>3
         DEF WorkerTake, TypeOK, SetsOK, RowsOK, DispOK, database, history
  <1>2. ASSUME NEW n \in Nodes, NEW i \in Intents, WorkerRefuse(n, i)
        PROVE  TypeOK'
    BY <1>2, BullType
       DEF WorkerRefuse, TypeOK, SetsOK, RowsOK, DispOK, WorkOK, database, history
  <1>3. CASE RedisLoss
    <2>1. NotQueued \in BullJob
      BY ConstantsAssumption DEF NotQueued, BullJob, JobState
    <2>2. faults' \in 0..MaxFaults
      BY <1>3, ConstantsAssumption DEF RedisLoss, Fault, TypeOK, SetsOK
    <2> QED
      BY <1>3, <2>1, <2>2
         DEF RedisLoss, TypeOK, SetsOK, RowsOK, DispOK, WorkOK, database, history
  <1>4. CASE UNCHANGED vars
    BY <1>4 DEF vars, database, history, TypeOK, SetsOK, RowsOK, DispOK, WorkOK
  <1> QED
    BY <1>1, <1>2, <1>3, <1>4, DispatchType, WorkerType, IntentType, NodeType
       DEF Next

\* Every variable of the pipeline stays in its set of values.
THEOREM TypeCorrect == Spec => []TypeOK
  BY InitType, NextType, PTL DEF Spec

----------------------------------------------------------------------------
(* Completion.                                                              *)

\* What no step does: record a completion that no returned handler stands behind,
\* forget a return, or take back a completion.
CompletionStep ==
    /\ \A i \in Intents :
          outbox'[i] = "completed" \/ idem'[i] = "completed" =>
             \/ outbox[i] = "completed" \/ idem[i] = "completed"
             \/ \E n \in Nodes : work[n].pc = "complete" /\ work[n].intent = i
    /\ \A n \in Nodes :
          work'[n].pc = "complete" =>
             \/ work[n].pc = "complete" /\ work'[n].intent = work[n].intent
             \/ work'[n].intent \in returned'
    /\ returned \subseteq returned'
    /\ \A i \in Intents :
          outbox[i] = "completed" => outbox'[i] \in {"completed", "deleted"}

\* What a conditional write to one row or one key leaves alone.
LEMMA SetOutboxIfValue ==
  ASSUME RowsOK, NEW i \in Intents, NEW states, NEW status, SetOutboxIf(i, states, status),
         NEW k \in Intents
  PROVE  outbox'[k] = IF k = i /\ outbox[i] \in states THEN status ELSE outbox[k]
  BY DEF RowsOK, SetOutboxIf, SetOutbox

\* What a conditional update of job_idempotency writes, and to which key.
LEMMA SetIdemIfValue ==
  ASSUME idem \in [Intents -> IdemStatus], NEW i \in Intents, NEW states, NEW status,
         SetIdemIf(i, states, status), NEW k \in Intents
  PROVE  idem'[k] = IF k = i /\ idem[i] \in states THEN status ELSE idem[k]
  BY DEF SetIdemIf

\* markFailed writes nothing but failures and spares a completed row.
LEMMA MarkFailedValue ==
  ASSUME TypeOK, NEW i \in Intents, markFailed(i), NEW k \in Intents
  PROVE  /\ outbox'[k] \in {outbox[k], "failed"}
         /\ idem'[k] \in {idem[k], "failed"}
         /\ outbox[k] = "completed" => outbox'[k] = "completed"
  BY SetOutboxIfValue DEF TypeOK, markFailed

\* No slot comes to record a completion, except by the handler's return.
NoneCompletes ==
    \A m \in Nodes : work'[m].pc = "complete" =>
        work[m].pc = "complete" /\ work'[m].intent = work[m].intent

\* A slot that moves on does not come to record a completion.
LEMMA SlotGoto ==
  ASSUME WorkOK, NEW n \in Nodes, NEW pc \in WorkPC \ {"complete"}, Goto(n, pc)
  PROVE  NoneCompletes
  BY DEF WorkOK, Goto, Work, NoneCompletes

\* Nor does one that moves on with an outcome.
LEMMA SlotAssign ==
  ASSUME WorkOK, NEW n \in Nodes, NEW pc \in WorkPC \ {"complete"}, NEW outcome,
         work' = [work EXCEPT ![n].pc = pc, ![n].outcome = outcome]
  PROVE  NoneCompletes
  BY DEF WorkOK, Work, NoneCompletes

\* Nor does one that is done with process().
LEMMA SlotFinish ==
  ASSUME WorkOK, NEW n \in Nodes, NEW outcome, Finish(n, outcome)
  PROVE  NoneCompletes
  BY SlotAssign DEF Finish, WorkPC

\* Nor does one that enters the catch block.
LEMMA SlotError ==
  ASSUME WorkOK, NEW n \in Nodes, NEW outcome, HandleError(n, outcome)
  PROVE  NoneCompletes
  <1> DEFINE pc == IF outcome = "unrecoverable" \/ work[n].attempt >= MaxAttempts
                   THEN "fail" ELSE "release"
  <1>1. work' = [work EXCEPT ![n].pc = pc, ![n].outcome = outcome]
    BY DEF HandleError
  <1>2. pc \in WorkPC \ {"complete"}
    BY DEF WorkPC
  <1> HIDE DEF pc
  <1> QED
    BY <1>1, <1>2, SlotAssign

\* Nor does one that is quarantined.
LEMMA SlotQuarantine ==
  ASSUME WorkOK, NEW n \in Nodes, Quarantine(n)
  PROVE  NoneCompletes
  BY SlotAssign DEF Quarantine, WorkPC

\* Nor does one that falls idle.
LEMMA SlotIdle ==
  ASSUME WorkOK, NEW n \in Nodes, work' = [work EXCEPT ![n] = Idle]
  PROVE  NoneCompletes
  BY DEF WorkOK, Idle, NoneCompletes

\* No step of a dispatcher records a completion.
LEMMA DispatchCompletion ==
  ASSUME TypeOK, NEW n \in Nodes, DispatchStep(n)
  PROVE  CompletionStep
  <1> USE DEF TypeOK, CompletionStep, history, database
  <1>1. CASE DispatchClaim(n)
    BY <1>1 DEF DispatchClaim, ClaimableRows, Claimable, Open, RowsOK
  <1>2. ASSUME NEW i \in Intents, DispatchRelease(n, i)
        PROVE  CompletionStep
    BY <1>2, SetOutboxIfValue DEF DispatchRelease, releaseUnhandled
  <1>3. ASSUME NEW i \in Intents, DispatchReject(n, i)
        PROVE  CompletionStep
    BY <1>3, MarkFailedValue DEF DispatchReject
  <1>4. ASSUME NEW i \in Intents, DispatchPublish(n, i)
        PROVE  CompletionStep
    BY <1>4 DEF DispatchPublish
  <1>5. CASE DispatchDeadLetter(n)
    BY <1>5 DEF DispatchDeadLetter
  <1>6. CASE DispatchMark(n)
    BY <1>6, BusyRow, SetOutboxIfValue DEF DispatchMark, markDispatched
  <1> QED
    BY <1>1, <1>2, <1>3, <1>4, <1>5, <1>6 DEF DispatchStep

\* A worker records a completion only after the handler returned.
LEMMA WorkerCompletion ==
  ASSUME TypeOK, NEW n \in Nodes, WorkerStep(n)
  PROVE  CompletionStep
  <1> DEFINE i == work[n].intent
  <1>0. work[n].pc # "idle" => i \in Intents
    BY BusyRow
  <1> HIDE DEF i
  <1> USE DEF TypeOK, CompletionStep, NoneCompletes, history, database
  <1>1. CASE WorkerLoad(n)
    BY <1>1, SlotFinish, SlotGoto, SlotError DEF WorkerLoad, WorkPC
  <1>2. CASE WorkerClaim(n)
    <2>1. NoneCompletes
      BY <1>2, SlotFinish, SlotGoto, SlotQuarantine DEF WorkerClaim, WorkPC
    <2>2. ASSUME NEW k \in Intents
          PROVE  /\ \/ outbox'[k] = outbox[k]
                    \/ outbox'[k] = "completed" /\ idem[k] = "completed"
                 /\ idem'[k] # "completed" \/ idem'[k] = idem[k]
      <3>0. i \in Intents
        BY <1>0, <1>2 DEF WorkerClaim
      <3>1. CASE idem[i] = "completed"
        <4>1. SetOutboxIf(i, Exists, "completed") /\ UNCHANGED idem
          BY <1>2, <3>1 DEF WorkerClaim, i
        <4>2. outbox'[k] = outbox[k] \/ (k = i /\ outbox'[k] = "completed")
          BY <3>0, <4>1 DEF SetOutboxIf, SetOutbox, RowsOK
        <4> QED
          BY <3>1, <4>1, <4>2
      <3>2. CASE idem[i] # "completed"
        <4>1. PICK status \in {"processing", "reconciliation_required"} :
                 SetIdemIf(i, IdemStatus, status)
          BY <1>2, <3>2 DEF WorkerClaim, i
        <4>2. UNCHANGED outbox
          BY <1>2, <3>2 DEF WorkerClaim, i
        <4>3. idem'[k] = idem[k] \/ idem'[k] = status
          BY <3>0, <4>1 DEF SetIdemIf
        <4> QED
          BY <4>2, <4>3
      <3> QED
        BY <3>1, <3>2
    <2>3. returned' = returned
      BY <1>2 DEF WorkerClaim
    <2> HIDE DEF TypeOK
    <2> QED
      BY <2>1, <2>2, <2>3
  <1>3. CASE HandlerReturns(n)
    <2>1. \A m \in Nodes : /\ work'[m].intent = work[m].intent
                           /\ m # n => work'[m].pc = work[m].pc
      BY <1>3 DEF HandlerReturns, Goto, WorkOK, Work
    <2>2. returned' = returned \cup {work[n].intent} /\ UNCHANGED <<outbox, idem>>
      BY <1>3 DEF HandlerReturns
    <2> HIDE DEF TypeOK
    <2> QED
      BY <2>1, <2>2
  <1>4. CASE HandlerThrows(n)
    BY <1>4, SlotError DEF HandlerThrows
  <1>5. CASE HandlerTimesOut(n)
    BY <1>5, SlotQuarantine DEF HandlerTimesOut
  <1>6. CASE WorkerComplete(n)
    <2>1. NoneCompletes
      BY <1>6, SlotFinish DEF WorkerComplete
    <2>2. \A k \in Intents : k # i => outbox'[k] = outbox[k] /\ idem'[k] = idem[k]
      BY <1>0, <1>6, SetOutboxIfValue, SetIdemIfValue
         DEF WorkerComplete, completeExecution, i
    <2>3. outbox[i] = "completed" => outbox'[i] = "completed"
      BY <1>0, <1>6, SetOutboxIfValue DEF WorkerComplete, completeExecution, i
    <2> QED
      BY <1>6, <2>1, <2>2, <2>3 DEF WorkerComplete, i
  <1>7. CASE WorkerRelease(n)
    BY <1>0, <1>7, SlotGoto, SetIdemIfValue
       DEF WorkerRelease, releaseExecution, i, WorkPC
  <1>8. CASE WorkerRecordRetry(n)
    BY <1>0, <1>8, SlotFinish, SetOutboxIfValue
       DEF WorkerRecordRetry, recordRetry, i
  <1>9. CASE WorkerFail(n)
    BY <1>0, <1>9, SlotGoto, MarkFailedValue DEF WorkerFail, i, WorkPC
  <1>10. CASE WorkerQuarantine(n)
    <2>1. NoneCompletes
      BY <1>10, SlotGoto DEF WorkerQuarantine, WorkPC
    <2>2. \A k \in Intents : /\ outbox'[k] \in {outbox[k], "failed"}
                             /\ idem'[k] \in {idem[k], "reconciliation_required"}
                             /\ outbox[k] = "completed" => outbox'[k] = "completed"
      BY <1>0, <1>10, SetOutboxIfValue, SetIdemIfValue
         DEF WorkerQuarantine, requireReconciliation, i
    <2>3. returned' = returned
      BY <1>10 DEF WorkerQuarantine
    <2> HIDE DEF TypeOK
    <2> QED
      BY <2>1, <2>2, <2>3
  <1>11. CASE WorkerDeadLetter(n)
    BY <1>11, SlotGoto DEF WorkerDeadLetter, WorkPC
  <1>12. CASE WorkerAck(n)
    BY <1>12, SlotIdle DEF WorkerAck
  <1> QED
    BY <1>1, <1>2, <1>3, <1>4, <1>5, <1>6, <1>7, <1>8, <1>9, <1>10, <1>11, <1>12
       DEF WorkerStep, RunEnds

\* Every step keeps the records of completion true and final.
LEMMA NextCompletion ==
  ASSUME TypeOK, [Next]_vars
  PROVE  CompletionStep
  <1> USE DEF TypeOK, CompletionStep, NoneCompletes, history, database
  <1>1. ASSUME NEW i \in Intents, Enqueue(i) \/ Elapse(i) \/ RetryPrepare(i) \/ RetryForward(i)
        PROVE  CompletionStep
    <2>1. CASE Enqueue(i) \/ Elapse(i)
      BY <2>1 DEF Enqueue, Elapse, RowsOK
    <2>2. CASE RetryPrepare(i)
      BY <2>2, SetIdemIfValue DEF RetryPrepare, SetOutbox, RowsOK
    <2>3. CASE RetryForward(i)
      BY <2>3 DEF RetryForward
    <2> QED
      BY <1>1, <2>1, <2>2, <2>3
  <1>2. ASSUME NEW i \in Intents, Cleanup(i)
        PROVE  CompletionStep
    BY <1>2 DEF Cleanup, CancelUnconsumed, DeleteTerminalOutbox, DeleteExpiredKey,
                SetOutbox, Open, RowsOK
  <1>3. ASSUME NEW i \in Intents, BullStep(i) \/ IntentFault(i)
        PROVE  CompletionStep
    BY <1>3 DEF BullStep, IntentFault, JobStalls, JobRemoved, LockLost, RetryForwardFails
  <1>4. ASSUME NEW n \in Nodes, Restart(n) \/ NodeFault(n)
        PROVE  CompletionStep
    <2>1. ASSUME Vanish(n) PROVE CompletionStep
      BY <2>1, SlotIdle DEF Vanish
    <2>2. CASE WorkerDbError(n)
      BY <2>2, SlotError, SlotFinish DEF WorkerDbError
    <2> QED
      BY <1>4, <2>1, <2>2 DEF NodeFault, Restart, Crash, BeginShutdown, DispatchAbort
  <1>5. ASSUME NEW n \in Nodes, NEW i \in Intents, WorkerTake(n, i) \/ WorkerRefuse(n, i)
        PROVE  CompletionStep
    BY <1>5 DEF WorkerTake, WorkerRefuse, WorkOK
  <1>6. CASE RedisLoss \/ UNCHANGED vars
    BY <1>6 DEF RedisLoss, vars
  <1> QED
    BY <1>1, <1>2, <1>3, <1>4, <1>5, <1>6, DispatchCompletion, WorkerCompletion
       DEF Next

\* A node about to record a completion saw the handler return.  This is what makes
\* CompletedMeansReturned inductive.
CompletingMeansReturned ==
    \A n \in Nodes : work[n].pc = "complete" => work[n].intent \in returned

\* Whatever crashes, is redelivered, times out or is retried by hand, the records
\* of completion in job_outbox and job_idempotency are true.
THEOREM CompletionIsTrue == Spec => []CompletedMeansReturned
  <1>1. Init => CompletedMeansReturned /\ CompletingMeansReturned
    BY DEF Init, CompletedMeansReturned, CompletingMeansReturned, Idle
  <1>2. TypeOK /\ CompletedMeansReturned /\ CompletingMeansReturned /\ [Next]_vars
          => CompletedMeansReturned' /\ CompletingMeansReturned'
    BY NextCompletion DEF CompletionStep, CompletedMeansReturned, CompletingMeansReturned
  <1> QED
    BY <1>1, <1>2, TypeCorrect, PTL DEF Spec

\* A completed intent is never reopened.
THEOREM CompletionIsFinal == Spec => CompletedIsFinal
  <1>1. TypeOK /\ [Next]_vars =>
          [\A i \in Intents :
             outbox[i] = "completed" => outbox'[i] \in {"completed", "deleted"}]_vars
    BY NextCompletion DEF CompletionStep
  <1> QED
    BY <1>1, TypeCorrect, PTL DEF Spec, CompletedIsFinal

----------------------------------------------------------------------------
(* What the statements write, and where a slot goes, value by value.        *)

\* markFailed, for both tables.
LEMMA MarkFailedExact ==
  ASSUME TypeOK, NEW i \in Intents, markFailed(i), NEW k \in Intents
  PROVE  /\ outbox'[k] = IF k = i /\ outbox[i] \in Exists \ {"completed"}
                         THEN "failed" ELSE outbox[k]
         /\ idem'[k] = IF k = i /\ idem[i] \notin {"completed", "reconciliation_required"}
                       THEN "failed" ELSE idem[k]
  BY SetOutboxIfValue DEF TypeOK, markFailed

\* requireReconciliation, for both tables.
LEMMA RequireReconciliationExact ==
  ASSUME TypeOK, NEW i \in Intents, requireReconciliation(i), NEW k \in Intents
  PROVE  /\ outbox'[k] = IF k = i /\ outbox[i] \in Exists \ {"completed"}
                         THEN "failed" ELSE outbox[k]
         /\ idem'[k] = IF k = i /\ idem[i] \notin {"none", "completed"}
                       THEN "reconciliation_required" ELSE idem[k]
  BY SetOutboxIfValue, SetIdemIfValue DEF TypeOK, requireReconciliation, IdemStatus

\* Slot n goes to pc and keeps its row; every other slot stays.
SlotGoes(n, pc) ==
    \A m \in Nodes : /\ work'[m].intent = work[m].intent
                     /\ work'[m].pc = IF m = n THEN pc ELSE work[m].pc

\* Goto is such a move.
LEMMA GotoValue ==
  ASSUME WorkOK, NEW n \in Nodes, NEW pc \in WorkPC, Goto(n, pc)
  PROVE  SlotGoes(n, pc)
  BY DEF WorkOK, Goto, Work, SlotGoes

\* So is a move with an outcome.
LEMMA AssignValue ==
  ASSUME WorkOK, NEW n \in Nodes, NEW pc \in WorkPC, NEW outcome,
         work' = [work EXCEPT ![n].pc = pc, ![n].outcome = outcome]
  PROVE  SlotGoes(n, pc)
  BY DEF WorkOK, Work, SlotGoes

\* process() is over.
LEMMA FinishValue ==
  ASSUME WorkOK, NEW n \in Nodes, NEW outcome, Finish(n, outcome)
  PROVE  SlotGoes(n, "ack")
  BY AssignValue DEF Finish, WorkPC

\* The catch block fails the intent or gives its key back; a permanent error only fails.
LEMMA ErrorValue ==
  ASSUME WorkOK, NEW n \in Nodes, NEW outcome, HandleError(n, outcome)
  PROVE  SlotGoes(n, "fail") \/ (outcome # "unrecoverable" /\ SlotGoes(n, "release"))
  <1> DEFINE pc == IF outcome = "unrecoverable" \/ work[n].attempt >= MaxAttempts
                   THEN "fail" ELSE "release"
  <1>1. work' = [work EXCEPT ![n].pc = pc, ![n].outcome = outcome]
    BY DEF HandleError
  <1>2. pc \in WorkPC /\ (pc = "fail" \/ (outcome # "unrecoverable" /\ pc = "release"))
    BY DEF WorkPC
  <1> HIDE DEF pc
  <1> QED
    BY <1>1, <1>2, AssignValue

\* The quarantine of an execution.
LEMMA QuarantineValue ==
  ASSUME WorkOK, NEW n \in Nodes, Quarantine(n)
  PROVE  SlotGoes(n, "quarantine")
  BY AssignValue DEF Quarantine, WorkPC

\* A slot that falls idle.
LEMMA IdleValue ==
  ASSUME WorkOK, NEW n \in Nodes, work' = [work EXCEPT ![n] = Idle]
  PROVE  \A m \in Nodes : IF m = n THEN work'[m].pc = "idle" /\ work'[m].intent = NoIntent
                          ELSE work'[m] = work[m]
  BY DEF WorkOK, Idle

\* A slot that takes a job.
LEMMA TakeValue ==
  ASSUME TypeOK, NEW n \in Nodes, NEW i \in Intents, WorkerTake(n, i)
  PROVE  /\ \A m \in Nodes : IF m = n THEN work'[m].pc = "load" /\ work'[m].intent = i
                             ELSE work'[m] = work[m]
         /\ \A k \in Intents : IF k = i THEN job'[k].state = "active" /\ job'[k].owner = n
                               ELSE job'[k] = job[k]
  BY DEF WorkerTake, TypeOK, WorkOK, BullJob

\* The batch of a loop that moves on only shrinks.
LEMMA AfterRowValue ==
  ASSUME DispOK, NEW n \in Nodes, NEW i, AfterRow(n, i)
  PROVE  \A m \in Nodes : disp'[m].batch \subseteq disp[m].batch
  BY DEF DispOK, AfterRow, NotDispatching, Disp

\* The loop that looks at a row keeps its batch.
LEMMA AtRowValue ==
  ASSUME DispOK, NEW n \in Nodes, NEW pc, NEW i,
         disp' = [disp EXCEPT ![n].pc = pc, ![n].cur = i]
  PROVE  \A m \in Nodes : disp'[m].batch = disp[m].batch
  BY DEF DispOK, Disp

\* A slot enters the handler by a claim of a free replay key, and in no other way.
LEMMA StartsByClaim ==
  ASSUME TypeOK, [Next]_vars, NEW n \in Nodes, NEW i \in Intents, Starts(n, i)
  PROVE  /\ WorkerClaim(n) /\ work[n].pc = "claim" /\ work[n].intent = i
         /\ idem[i] \in {"none", "pending", "failed"}
  <1> DEFINE G == /\ WorkerClaim(n) /\ work[n].pc = "claim" /\ work[n].intent = i
                  /\ idem[i] \in {"none", "pending", "failed"}
  <1> SUFFICES G
    OBVIOUS
  <1>1. /\ ~(work[n].intent = i /\ work[n].pc \in {"run", "complete"})
        /\ work'[n].intent = i /\ work'[n].pc \in {"run", "complete"}
    BY DEF Starts, Running
  <1>2. WorkOK
    BY DEF TypeOK
  <1>3. ASSUME work'[n] = work[n]
        PROVE  G
    BY <1>1, <1>3
  <1>4. ASSUME NEW m \in Nodes, NEW pc, SlotGoes(m, pc), pc \notin {"run", "complete"}
        PROVE  G
    BY <1>1, <1>4 DEF SlotGoes
  <1>5. ASSUME NEW m \in Nodes, work' = [work EXCEPT ![m] = Idle]
        PROVE  G
    BY <1>1, <1>2, <1>5, IdleValue
  <1>6. ASSUME NEW m \in Nodes, WorkerStep(m)
        PROVE  G
    <2>1. CASE WorkerLoad(m)
      <3>1. SlotGoes(m, "ack") \/ SlotGoes(m, "fail") \/ SlotGoes(m, "release") \/ SlotGoes(m, "claim")
        BY <1>2, <2>1, FinishValue, ErrorValue, GotoValue DEF WorkerLoad, WorkPC
      <3> QED
        BY <1>4, <3>1
    <2>2. CASE WorkerClaim(m)
      <3>1. SlotGoes(m, "ack") \/ SlotGoes(m, "quarantine")
            \/ (SlotGoes(m, "run") /\ idem[work[m].intent] \in {"none", "pending", "failed"})
        BY <1>2, <2>2, FinishValue, QuarantineValue, GotoValue DEF WorkerClaim, WorkPC
      <3>2. CASE SlotGoes(m, "run") /\ idem[work[m].intent] \in {"none", "pending", "failed"}
        BY <1>1, <2>2, <3>2 DEF SlotGoes, WorkerClaim
      <3> QED
        BY <1>4, <3>1, <3>2
    <2>3. CASE HandlerReturns(m)
      <3>1. SlotGoes(m, "complete") /\ work[m].pc = "run"
        BY <1>2, <2>3, GotoValue DEF HandlerReturns, WorkPC
      <3> QED
        BY <1>1, <3>1 DEF SlotGoes
    <2>4. CASE HandlerThrows(m)
      <3>1. SlotGoes(m, "fail") \/ SlotGoes(m, "release")
        BY <1>2, <2>4, ErrorValue DEF HandlerThrows
      <3> QED
        BY <1>4, <3>1
    <2>5. CASE HandlerTimesOut(m)
      BY <1>2, <1>4, <2>5, QuarantineValue DEF HandlerTimesOut
    <2>6. CASE WorkerComplete(m) \/ WorkerRecordRetry(m)
      BY <1>2, <1>4, <2>6, FinishValue DEF WorkerComplete, WorkerRecordRetry
    <2>7. CASE WorkerRelease(m)
      BY <1>2, <1>4, <2>7, GotoValue DEF WorkerRelease, WorkPC
    <2>8. CASE WorkerFail(m) \/ WorkerQuarantine(m)
      BY <1>2, <1>4, <2>8, GotoValue DEF WorkerFail, WorkerQuarantine, WorkPC
    <2>9. CASE WorkerDeadLetter(m)
      BY <1>2, <1>4, <2>9, GotoValue DEF WorkerDeadLetter, WorkPC
    <2>10. CASE WorkerAck(m)
      BY <1>5, <2>10 DEF WorkerAck
    <2> QED
      BY <1>6, <2>1, <2>2, <2>3, <2>4, <2>5, <2>6, <2>7, <2>8, <2>9, <2>10
         DEF WorkerStep, RunEnds
  <1>7. ASSUME NEW m \in Nodes, DispatchStep(m)
        PROVE  G
    BY <1>3, <1>7 DEF DispatchStep, DispatchClaim, DispatchRelease, DispatchReject,
                      DispatchPublish, DispatchDeadLetter, DispatchMark
  <1>8. ASSUME NEW m \in Nodes, Restart(m) \/ NodeFault(m)
        PROVE  G
    <2>1. CASE WorkerDbError(m)
      <3>1. SlotGoes(m, "ack") \/ SlotGoes(m, "fail") \/ SlotGoes(m, "release")
        BY <1>2, <2>1, FinishValue, ErrorValue DEF WorkerDbError
      <3> QED
        BY <1>4, <3>1
    <2> QED
      BY <1>3, <1>5, <1>8, <2>1 DEF NodeFault, Restart, Crash, Vanish, BeginShutdown, DispatchAbort
  <1>9. ASSUME NEW m \in Nodes, NEW k \in Intents, WorkerTake(m, k) \/ WorkerRefuse(m, k)
        PROVE  G
    <2>1. CASE WorkerTake(m, k)
      BY <1>1, <2>1, TakeValue
    <2> QED
      BY <1>3, <1>9, <2>1 DEF WorkerRefuse
  <1>10. ASSUME NEW k \in Intents,
                \/ Enqueue(k) \/ Elapse(k) \/ RetryPrepare(k) \/ RetryForward(k)
                \/ Cleanup(k) \/ BullStep(k) \/ IntentFault(k)
         PROVE  G
    BY <1>3, <1>10 DEF Enqueue, Elapse, RetryPrepare, RetryForward, Cleanup, CancelUnconsumed,
         DeleteTerminalOutbox, DeleteExpiredKey, BullStep, JobStalls, JobRemoved,
         IntentFault, LockLost, RetryForwardFails
  <1>11. CASE RedisLoss \/ UNCHANGED vars
    BY <1>3, <1>11 DEF RedisLoss, vars
  <1> QED
    BY <1>6, <1>7, <1>8, <1>9, <1>10, <1>11 DEF Next

----------------------------------------------------------------------------
(* What is under way is known to the database: jobs, slots and batches are  *)
(* about rows that were inserted, and only consumed ones.                   *)

Consumed == Valid \ Unconsumed

JobsKnown ==
    \A i \in Intents : job[i].state # "none" => i \in Consumed /\ outbox[i] # "none"

SlotsKnown ==
    \A n \in Nodes : work[n].pc # "idle" =>
        work[n].intent \in Consumed /\ outbox[work[n].intent] # "none"

BatchesKnown ==
    \A n \in Nodes, i \in Intents :
        i \in disp[n].batch => i \notin Unconsumed /\ outbox[i] # "none"

RowsKnown ==
    \A i \in Intents :
        /\ idem[i] # "none" => outbox[i] # "none"
        /\ idem[i] = "processing" => i \in Consumed
        /\ outbox[i] = "completed" => i \in Consumed
        /\ outbox[i] = "cancelled" => i \in Unconsumed

Known == JobsKnown /\ SlotsKnown /\ BatchesKnown /\ RowsKnown

\* An intent somebody consumes is an intent.
LEMMA ConsumedIntents == Consumed \subseteq Intents
  BY ConstantsAssumption DEF Consumed

\* A step that leaves the rows, the slots and the batches alone, and brings no job
\* into being, keeps what is known.
LEMMA KnownJobs ==
  ASSUME Known, UNCHANGED <<outbox, idem, work>>,
         \A m \in Nodes : disp'[m].batch \subseteq disp[m].batch,
         \A k \in Intents : job'[k].state # "none" => job[k].state # "none"
  PROVE  Known'
  BY DEF Known, JobsKnown, SlotsKnown, BatchesKnown, RowsKnown

\* So does one that only moves a busy slot.
LEMMA KnownSlots ==
  ASSUME Known, UNCHANGED <<outbox, idem, job, disp>>, NEW n \in Nodes,
         work[n].pc # "idle", NEW pc, SlotGoes(n, pc)
  PROVE  Known'
  BY DEF Known, JobsKnown, SlotsKnown, BatchesKnown, RowsKnown, SlotGoes

\* So does a write to the tables by a worker for its row.
LEMMA KnownWrite ==
  ASSUME Known, UNCHANGED <<job, disp>>, NEW n \in Nodes, work[n].pc # "idle",
         NEW pc, SlotGoes(n, pc), work[n].intent \in Intents,
         \A k \in Intents :
            /\ outbox'[k] \in {outbox[k], "failed"} \cup
                  (IF k = work[n].intent THEN {"dispatched", "completed"} ELSE {})
            /\ idem'[k] = idem[k] \/ k = work[n].intent
  PROVE  Known'
  <1>1. \A k \in Intents : outbox[k] # "none" => outbox'[k] # "none"
    OBVIOUS
  <1>2. JobsKnown' /\ BatchesKnown'
    BY <1>1 DEF Known, JobsKnown, BatchesKnown
  <1>3. SlotsKnown'
    BY <1>1, ConsumedIntents DEF Known, SlotsKnown, SlotGoes
  <1>4. RowsKnown'
    BY <1>1 DEF Known, RowsKnown, SlotsKnown
  <1> QED
    BY <1>2, <1>3, <1>4 DEF Known

\* A dispatcher's step keeps what is known.
LEMMA DispatchKnown ==
  ASSUME TypeOK, Known, NEW n \in Nodes, DispatchStep(n)
  PROVE  Known'
  <1>0. RowsOK /\ DispOK
    BY DEF TypeOK
  <1>1. CASE DispatchClaim(n)
    <2>1. \A k \in Intents : outbox'[k] = outbox[k] \/ (outbox[k] \in Open /\ outbox'[k] = "dispatching")
      BY <1>1 DEF DispatchClaim, ClaimableRows, Claimable
    <2>2. \A m \in Nodes, k \in Intents :
             k \in disp'[m].batch => k \in disp[m].batch \/ (outbox[k] \in Open /\ k \notin Unconsumed)
      BY <1>0, <1>1 DEF DispatchClaim, ClaimableRows, Claimable, DispOK
    <2>3. UNCHANGED <<idem, job, work>>
      BY <1>1 DEF DispatchClaim
    <2> QED
      BY <2>1, <2>2, <2>3, ConsumedIntents DEF Known, JobsKnown, SlotsKnown, BatchesKnown, RowsKnown, Open
  <1>2. ASSUME NEW i \in Intents, AfterRow(n, i), UNCHANGED <<idem, job, work>>,
               \A k \in Intents : \/ outbox'[k] = outbox[k]
                                  \/ outbox[k] \in Open /\ outbox'[k] \in Open
        PROVE  Known'
    <2>1. \A m \in Nodes : disp'[m].batch \subseteq disp[m].batch
      BY <1>0, <1>2, AfterRowValue
    <2> QED
      BY <1>2, <2>1, ConsumedIntents DEF Known, JobsKnown, SlotsKnown, BatchesKnown, RowsKnown, Open
  <1>3. ASSUME NEW i \in Intents, DispatchRelease(n, i)
        PROVE  Known'
    BY <1>0, <1>2, <1>3, SetOutboxIfValue DEF DispatchRelease, releaseUnhandled, Open
  <1>4. ASSUME NEW i \in Intents, DispatchReject(n, i)
        PROVE  Known'
    <2>1. \A m \in Nodes : disp'[m].batch = disp[m].batch
      BY <1>0, <1>4, AtRowValue DEF DispatchReject
    <2>2. i \in disp[n].batch
      BY <1>4 DEF DispatchReject, AtRow
    <2>3. \A k \in Intents : /\ outbox'[k] \in {outbox[k], "failed"}
                             /\ idem'[k] = idem[k] \/ (k = i /\ idem'[k] = "failed")
      BY <1>4, MarkFailedExact DEF DispatchReject
    <2>4. UNCHANGED <<job, work>>
      BY <1>4 DEF DispatchReject
    <2> QED
      BY <2>1, <2>2, <2>3, <2>4, ConsumedIntents DEF Known, JobsKnown, SlotsKnown, BatchesKnown, RowsKnown
  <1>5. ASSUME NEW i \in Intents, DispatchPublish(n, i)
        PROVE  Known'
    <2>1. \A m \in Nodes : disp'[m].batch = disp[m].batch
      BY <1>0, <1>5, AtRowValue DEF DispatchPublish
    <2>2. i \in disp[n].batch /\ i \in Valid /\ UNCHANGED <<outbox, idem, work>>
      BY <1>5 DEF DispatchPublish, AtRow, database
    <2>3. \A k \in Intents : job'[k] = job[k] \/ k = i
      BY <1>5 DEF DispatchPublish, TypeOK
    <2> QED
      BY <2>1, <2>2, <2>3
         DEF Known, JobsKnown, SlotsKnown, BatchesKnown, RowsKnown, Consumed
  <1>6. CASE DispatchDeadLetter(n)
    BY <1>0, <1>2, <1>6, BusyRow DEF DispatchDeadLetter, database
  <1>7. CASE DispatchMark(n)
    <2>1. disp[n].cur \in Intents
      BY <1>7, BusyRow DEF DispatchMark
    <2> QED
      BY <1>0, <1>2, <1>7, <2>1, SetOutboxIfValue DEF DispatchMark, markDispatched, Open
  <1> QED
    BY <1>1, <1>3, <1>4, <1>5, <1>6, <1>7 DEF DispatchStep

\* A worker's step keeps what is known.
LEMMA WorkerKnown ==
  ASSUME TypeOK, Known, NEW n \in Nodes, WorkerStep(n)
  PROVE  Known'
  <1> DEFINE i == work[n].intent
  <1>0. RowsOK /\ WorkOK /\ idem \in [Intents -> IdemStatus]
    BY DEF TypeOK
  <1>i. work[n].pc # "idle" => i \in Intents
    BY BusyRow
  <1>1. ASSUME UNCHANGED <<outbox, idem, job, disp>>, work[n].pc # "idle",
               NEW pc, SlotGoes(n, pc)
        PROVE  Known'
    BY <1>1, KnownSlots
  <1>2. CASE WorkerLoad(n)
    <2>1. SlotGoes(n, "ack") \/ SlotGoes(n, "fail") \/ SlotGoes(n, "release") \/ SlotGoes(n, "claim")
      BY <1>0, <1>2, FinishValue, ErrorValue, GotoValue DEF WorkerLoad, WorkPC
    <2> QED
      BY <1>1, <1>2, <2>1 DEF WorkerLoad, database
  <1>3. CASE WorkerClaim(n)
    <2>1. SlotGoes(n, "ack") \/ SlotGoes(n, "quarantine") \/ SlotGoes(n, "run")
      BY <1>0, <1>3, FinishValue, QuarantineValue, GotoValue DEF WorkerClaim, WorkPC
    <2>2. work[n].pc # "idle" /\ i \in Intents /\ UNCHANGED <<job, disp>>
      BY <1>3, <1>i DEF WorkerClaim
    <2>3. \A k \in Intents : outbox'[k] \in {outbox[k]} \cup (IF k = i THEN {"completed"} ELSE {})
      BY <1>0, <1>3, <2>2, SetOutboxIfValue DEF WorkerClaim
    <2>4. \A k \in Intents : idem'[k] = idem[k] \/ k = i
      BY <1>0, <1>3, <2>2, SetIdemIfValue DEF WorkerClaim
    <2> HIDE DEF i
    <2> QED
      BY <2>1, <2>2, <2>3, <2>4, KnownWrite DEF i
  <1>4. CASE HandlerReturns(n)
    <2>1. SlotGoes(n, "complete")
      BY <1>0, <1>4, GotoValue DEF HandlerReturns, WorkPC
    <2> QED
      BY <1>1, <1>4, <2>1 DEF HandlerReturns, database
  <1>5. CASE HandlerThrows(n)
    <2>1. SlotGoes(n, "fail") \/ SlotGoes(n, "release")
      BY <1>0, <1>5, ErrorValue DEF HandlerThrows
    <2> QED
      BY <1>1, <1>5, <2>1 DEF HandlerThrows, database
  <1>6. CASE HandlerTimesOut(n)
    BY <1>0, <1>1, <1>6, QuarantineValue DEF HandlerTimesOut, database
  <1>7. CASE WorkerComplete(n)
    <2>1. SlotGoes(n, "ack")
      BY <1>0, <1>7, FinishValue DEF WorkerComplete
    <2>2. work[n].pc # "idle" /\ i \in Intents /\ UNCHANGED <<job, disp>>
      BY <1>7, <1>i DEF WorkerComplete
    <2>3. \A k \in Intents :
             /\ outbox'[k] \in {outbox[k]} \cup (IF k = i THEN {"completed"} ELSE {})
             /\ idem'[k] = idem[k] \/ k = i
      BY <1>0, <1>7, <2>2, SetOutboxIfValue, SetIdemIfValue
         DEF WorkerComplete, completeExecution
    <2> HIDE DEF i
    <2> QED
      BY <2>1, <2>2, <2>3, KnownWrite DEF i
  <1>8. CASE WorkerRelease(n)
    <2>1. SlotGoes(n, "record")
      BY <1>0, <1>8, GotoValue DEF WorkerRelease, WorkPC
    <2>2. work[n].pc # "idle" /\ i \in Intents /\ UNCHANGED <<outbox, job, disp>>
      BY <1>8, <1>i DEF WorkerRelease
    <2>3. \A k \in Intents : idem'[k] = idem[k] \/ k = i
      BY <1>0, <1>8, <2>2, SetIdemIfValue DEF WorkerRelease, releaseExecution
    <2> HIDE DEF i
    <2> QED
      BY <2>1, <2>2, <2>3, KnownWrite DEF i
  <1>9. CASE WorkerRecordRetry(n)
    <2>1. SlotGoes(n, "ack")
      BY <1>0, <1>9, FinishValue DEF WorkerRecordRetry
    <2>2. work[n].pc # "idle" /\ i \in Intents /\ UNCHANGED <<idem, job, disp>>
      BY <1>9, <1>i DEF WorkerRecordRetry
    <2>3. \A k \in Intents : outbox'[k] = outbox[k]
      BY <1>0, <1>9, <2>2, SetOutboxIfValue DEF WorkerRecordRetry, recordRetry
    <2> HIDE DEF i
    <2> QED
      BY <2>1, <2>2, <2>3, KnownWrite DEF i
  <1>10. CASE WorkerFail(n) \/ WorkerQuarantine(n)
    <2>1. SlotGoes(n, "deadLetter")
      BY <1>0, <1>10, GotoValue DEF WorkerFail, WorkerQuarantine, WorkPC
    <2>2. work[n].pc # "idle" /\ i \in Intents /\ UNCHANGED <<job, disp>>
      BY <1>10, <1>i DEF WorkerFail, WorkerQuarantine
    <2>3. \A k \in Intents : /\ outbox'[k] \in {outbox[k], "failed"}
                             /\ idem'[k] = idem[k] \/ k = i
      BY <1>10, <2>2, MarkFailedExact, RequireReconciliationExact
         DEF WorkerFail, WorkerQuarantine
    <2> HIDE DEF i
    <2> QED
      BY <2>1, <2>2, <2>3, KnownWrite DEF i
  <1>11. CASE WorkerDeadLetter(n)
    <2>1. SlotGoes(n, "ack")
      BY <1>0, <1>11, GotoValue DEF WorkerDeadLetter, WorkPC
    <2> QED
      BY <1>1, <1>11, <2>1 DEF WorkerDeadLetter, database
  <1>12. CASE WorkerAck(n)
    <2>1. \A m \in Nodes : work'[m].pc # "idle" => work'[m] = work[m]
      BY <1>0, <1>12, IdleValue DEF WorkerAck
    <2>2. \A k \in Intents : job'[k].state # "none" => job[k].state # "none"
      BY <1>12 DEF WorkerAck, TypeOK
    <2>3. UNCHANGED <<outbox, idem, disp>>
      BY <1>12 DEF WorkerAck, database
    <2> QED
      BY <2>1, <2>2, <2>3, ConsumedIntents DEF Known, JobsKnown, SlotsKnown, BatchesKnown, RowsKnown
  <1> QED
    BY <1>2, <1>3, <1>4, <1>5, <1>6, <1>7, <1>8, <1>9, <1>10, <1>11, <1>12
       DEF WorkerStep, RunEnds

\* Every step keeps what is known.
LEMMA NextKnown ==
  ASSUME TypeOK, Known, [Next]_vars
  PROVE  Known'
  <1>0. RowsOK /\ WorkOK /\ DispOK /\ idem \in [Intents -> IdemStatus]
    BY DEF TypeOK
  <1>1. ASSUME NEW i \in Intents, Enqueue(i) \/ Elapse(i)
        PROVE  Known'
    <2>1. /\ \A k \in Intents : outbox'[k] = outbox[k] \/ (outbox[k] = "none" /\ outbox'[k] = "pending")
          /\ UNCHANGED <<idem, job, work, disp>>
      BY <1>0, <1>1 DEF Enqueue, Elapse, RowsOK
    <2> QED
      BY <2>1, ConsumedIntents DEF Known, JobsKnown, SlotsKnown, BatchesKnown, RowsKnown
  <1>2. ASSUME NEW i \in Intents, RetryPrepare(i)
        PROVE  Known'
    <2>1. \A k \in Intents :
             /\ outbox'[k] = outbox[k] \/ (outbox[k] # "none" /\ outbox'[k] = "dispatched")
             /\ idem'[k] = idem[k] \/ (outbox[k] # "none" /\ idem'[k] = "pending")
      BY <1>0, <1>2, SetIdemIfValue DEF RetryPrepare, SetOutbox, RowsOK
    <2>2. UNCHANGED <<job, work, disp>>
      BY <1>2 DEF RetryPrepare
    <2> QED
      BY <2>1, <2>2, ConsumedIntents DEF Known, JobsKnown, SlotsKnown, BatchesKnown, RowsKnown
  <1>3. ASSUME NEW i \in Intents, Cleanup(i)
        PROVE  Known'
    <2>1. \A k \in Intents :
             /\ \/ outbox'[k] = outbox[k]
                \/ outbox[k] # "none" /\ outbox'[k] = "deleted"
                \/ outbox[k] # "none" /\ outbox'[k] = "cancelled" /\ k \in Unconsumed
             /\ idem'[k] = idem[k] \/ idem'[k] = "none"
      BY <1>0, <1>3 DEF Cleanup, CancelUnconsumed, DeleteTerminalOutbox, DeleteExpiredKey,
                        SetOutbox, RowsOK, Open
    <2>2. UNCHANGED <<job, work, disp>>
      BY <1>3 DEF Cleanup, CancelUnconsumed, DeleteTerminalOutbox, DeleteExpiredKey
    <2> QED
      BY <2>1, <2>2, ConsumedIntents DEF Known, JobsKnown, SlotsKnown, BatchesKnown, RowsKnown
  <1>4. ASSUME NEW i \in Intents, RetryForward(i) \/ BullStep(i) \/ IntentFault(i)
        PROVE  Known'
    <2>1. \A k \in Intents : job'[k].state # "none" => job[k].state # "none"
      BY <1>4 DEF TypeOK, RetryForward, BullStep, JobStalls, JobRemoved, IntentFault,
                  LockLost, RetryForwardFails, Orphaned, NotQueued, BullJob
    <2>2. UNCHANGED <<outbox, idem, work, disp>>
      BY <1>4 DEF RetryForward, BullStep, JobStalls, JobRemoved, IntentFault, LockLost,
                  RetryForwardFails, database
    <2> QED
      BY <2>1, <2>2, KnownJobs
  <1>5. ASSUME NEW n \in Nodes, Restart(n) \/ NodeFault(n)
        PROVE  Known'
    <2>1. CASE WorkerDbError(n)
      <3>1. /\ SlotGoes(n, "ack") \/ SlotGoes(n, "fail") \/ SlotGoes(n, "release")
            /\ work[n].pc # "idle"
        BY <1>0, <2>1, FinishValue, ErrorValue DEF WorkerDbError
      <3> QED
        BY <2>1, <3>1, KnownSlots DEF WorkerDbError, database
    <2>2. ASSUME Vanish(n) PROVE Known'
      <3>1. \A m \in Nodes : /\ work'[m].pc # "idle" => work'[m] = work[m]
                             /\ disp'[m].batch \subseteq disp[m].batch
        BY <1>0, <2>2, IdleValue DEF Vanish, DispOK, NotDispatching
      <3>2. UNCHANGED <<outbox, idem, job>>
        BY <2>2 DEF Vanish, database
      <3> QED
        BY <3>1, <3>2 DEF Known, JobsKnown, SlotsKnown, BatchesKnown, RowsKnown
    <2>3. CASE DispatchAbort(n) \/ BeginShutdown(n)
      <3>1. \A m \in Nodes : disp'[m].batch \subseteq disp[m].batch
        BY <1>0, <2>3 DEF DispatchAbort, BeginShutdown, DispOK, NotDispatching
      <3> QED
        BY <2>3, <3>1, KnownJobs DEF DispatchAbort, BeginShutdown, database
    <2> QED
      BY <1>5, <2>1, <2>2, <2>3 DEF NodeFault, Restart, Crash
  <1>6. ASSUME NEW n \in Nodes, NEW i \in Intents, WorkerTake(n, i) \/ WorkerRefuse(n, i)
        PROVE  Known'
    <2>1. CASE WorkerTake(n, i)
      <3>1. job[i].state = "waiting" /\ UNCHANGED <<outbox, idem, disp>>
        BY <2>1 DEF WorkerTake, database
      <3> QED
        BY <2>1, <3>1, TakeValue DEF Known, JobsKnown, SlotsKnown, BatchesKnown, RowsKnown
    <2>2. CASE WorkerRefuse(n, i)
      <3>1. \A k \in Intents : job'[k].state # "none" => job[k].state # "none"
        BY <2>2 DEF TypeOK, WorkerRefuse
      <3> QED
        BY <2>2, <3>1, KnownJobs DEF WorkerRefuse, database
    <2> QED
      BY <1>6, <2>1, <2>2
  <1>7. CASE RedisLoss
    BY <1>7, KnownJobs DEF RedisLoss, NotQueued, database
  <1>8. CASE UNCHANGED vars
    BY <1>8, KnownJobs DEF vars
  <1> QED
    BY <1>1, <1>2, <1>3, <1>4, <1>5, <1>6, <1>7, <1>8, DispatchKnown, WorkerKnown DEF Next

\* Jobs, worker slots, dispatcher batches and replay keys are only ever about rows
\* that a producer committed, and none is about an intent nobody consumes.
THEOREM KnownAlways == Spec => []Known
  <1>1. Init => Known
    BY DEF Init, Known, JobsKnown, SlotsKnown, BatchesKnown, RowsKnown, NotQueued, Idle,
           NotDispatching
  <1> QED
    BY <1>1, NextKnown, TypeCorrect, PTL DEF Spec

----------------------------------------------------------------------------
(* What everybody but the workers does to a row and its replay key.         *)

Busy(k) == \E m \in Nodes : work[m].pc # "idle" /\ work[m].intent = k

\* The row stays as it is, or open.
EnvCalm(k) ==
    /\ idem'[k] = idem[k]
    /\ \/ outbox'[k] = outbox[k]
       \/ /\ outbox[k] \in Open /\ outbox'[k] \in Open
          /\ outbox'[k] = "pending" => outbox[k] = "pending" \/ \E n \in Nodes : ~Handles(n)

EnvRow(k) ==
    \/ EnvCalm(k)
    \/ /\ outbox[k] = "none" /\ outbox'[k] = "pending"
       /\ idem'[k] = idem[k]
    \/ /\ k \notin Valid /\ k \notin Unconsumed /\ outbox[k] # "none"
       /\ outbox'[k] = IF outbox[k] \in Exists \ {"completed"} THEN "failed" ELSE outbox[k]
       /\ idem'[k] \in {idem[k], "failed"}
    \/ /\ job[k].state = "failed" /\ retries[k] < MaxRetries /\ k \notin ambiguous'
       /\ \/ outbox[k] = "failed" /\ idem[k] \in {"failed", "reconciliation_required"}
          \/ outbox[k] = "dispatched" /\ idem[k] = "pending"
       /\ outbox'[k] = "dispatched" /\ idem'[k] = "pending"
    \/ /\ ~Busy(k)
       /\ \/ /\ outbox[k] \in Open /\ outbox'[k] = "cancelled" /\ k \in Unconsumed
             /\ idem'[k] = idem[k]
          \/ /\ outbox[k] \in {"completed", "cancelled"} /\ outbox'[k] = "deleted"
             /\ idem'[k] = idem[k]
          \/ PrunableKey(k) /\ outbox'[k] = outbox[k] /\ idem'[k] = "none"

Environment ==
    /\ work' = work
    /\ ambiguous' \subseteq ambiguous
    /\ \A k \in Intents : EnvRow(k)
    /\ \A j, k \in Intents : j = k \/ EnvCalm(j) \/ EnvCalm(k)

\* A dispatcher's step is the environment's.
LEMMA DispatchEnvironment ==
  ASSUME TypeOK, Known, NEW n \in Nodes, DispatchStep(n)
  PROVE  Environment
  <1>0. RowsOK /\ DispOK
    BY DEF TypeOK
  <1>1. CASE DispatchClaim(n)
    <2>1. \A k \in Intents : \/ outbox'[k] = outbox[k]
                             \/ outbox[k] \in Open /\ outbox'[k] = "dispatching"
      BY <1>1 DEF DispatchClaim, ClaimableRows, Claimable
    <2> QED
      BY <1>1, <2>1 DEF DispatchClaim, Environment, EnvRow, EnvCalm, Open, history
  <1>2. ASSUME NEW i \in Intents, DispatchRelease(n, i)
        PROVE  Environment
    <2>1. \A k \in Intents : \/ outbox'[k] = outbox[k]
                             \/ outbox[k] = "dispatching" /\ outbox'[k] = "pending"
      BY <1>0, <1>2, SetOutboxIfValue DEF DispatchRelease, releaseUnhandled
    <2>2. ~Handles(n)
      BY <1>2 DEF DispatchRelease
    <2> QED
      BY <1>2, <2>1, <2>2 DEF DispatchRelease, Environment, EnvRow, EnvCalm, Open, history
  <1>3. ASSUME NEW i \in Intents, DispatchReject(n, i)
        PROVE  Environment
    <2>1. i \notin Valid /\ i \notin Unconsumed /\ outbox[i] # "none"
      BY <1>3 DEF DispatchReject, AtRow, Known, BatchesKnown
    <2>2. \A k \in Intents :
             /\ outbox'[k] = IF k = i /\ outbox[i] \in Exists \ {"completed"}
                             THEN "failed" ELSE outbox[k]
             /\ idem'[k] = idem[k] \/ (k = i /\ idem'[k] = "failed")
      BY <1>3, MarkFailedExact DEF DispatchReject
    <2>3. \A k \in Intents : EnvRow(k)
      BY <2>1, <2>2 DEF EnvRow, EnvCalm
    <2> QED
      BY <1>3, <2>2, <2>3 DEF DispatchReject, Environment, EnvCalm, history
  <1>4. CASE DispatchMark(n)
    <2>1. \A k \in Intents : \/ outbox'[k] = outbox[k]
                             \/ outbox[k] = "dispatching" /\ outbox'[k] = "dispatched"
      BY <1>0, <1>4, BusyRow, SetOutboxIfValue DEF DispatchMark, markDispatched
    <2> QED
      BY <1>4, <2>1 DEF DispatchMark, Environment, EnvRow, EnvCalm, Open, history
  <1>5. ASSUME DispatchDeadLetter(n) \/ \E i \in Intents : DispatchPublish(n, i)
        PROVE  Environment
    BY <1>5 DEF DispatchDeadLetter, DispatchPublish, Environment, EnvRow, EnvCalm, database, history
  <1> QED
    BY <1>1, <1>2, <1>3, <1>4, <1>5 DEF DispatchStep

\* So is a step of a producer, of an operator, of maintenance or of BullMQ.
LEMMA IntentEnvironment ==
  ASSUME TypeOK, Known, NEW i \in Intents,
         \/ Enqueue(i) \/ Elapse(i) \/ RetryPrepare(i) \/ RetryForward(i)
         \/ Cleanup(i) \/ BullStep(i) \/ IntentFault(i)
  PROVE  Environment
  <1>0. RowsOK /\ WorkOK /\ idem \in [Intents -> IdemStatus]
    BY DEF TypeOK
  <1>1. CASE Enqueue(i) \/ Elapse(i)
    BY <1>0, <1>1 DEF Enqueue, Elapse, RowsOK, Environment, EnvRow, EnvCalm, history
  <1>2. CASE RetryPrepare(i)
    <2>1. \A k \in Intents : k # i => outbox'[k] = outbox[k] /\ idem'[k] = idem[k]
      BY <1>0, <1>2, SetIdemIfValue DEF RetryPrepare, SetOutbox, RowsOK
    <2>2. outbox'[i] = "dispatched" /\ idem'[i] = "pending"
      BY <1>0, <1>2, SetIdemIfValue DEF RetryPrepare, SetOutbox, RowsOK
    <2>3. EnvRow(i)
      BY <1>2, <2>2 DEF RetryPrepare, EnvRow
    <2>4. \A k \in Intents : EnvRow(k)
      BY <2>1, <2>3 DEF EnvRow, EnvCalm
    <2> QED
      BY <1>2, <2>1, <2>4 DEF RetryPrepare, Environment, EnvCalm
  <1>3. CASE Cleanup(i)
    <2>1. ~Busy(i)
      BY <1>3 DEF Cleanup, CancelUnconsumed, DeleteTerminalOutbox, DeleteExpiredKey, Quiet, Busy
    <2>2. \A k \in Intents : k # i => outbox'[k] = outbox[k] /\ idem'[k] = idem[k]
      BY <1>0, <1>3 DEF Cleanup, CancelUnconsumed, DeleteTerminalOutbox, DeleteExpiredKey,
                        SetOutbox, RowsOK
    <2>3. EnvRow(i)
      BY <1>0, <1>3, <2>1 DEF Cleanup, CancelUnconsumed, DeleteTerminalOutbox,
                              DeleteExpiredKey, SetOutbox, RowsOK, EnvRow
    <2>4. \A k \in Intents : EnvRow(k)
      BY <2>2, <2>3 DEF EnvRow, EnvCalm
    <2> QED
      BY <1>3, <2>2, <2>4 DEF Cleanup, CancelUnconsumed, DeleteTerminalOutbox,
                              DeleteExpiredKey, Environment, EnvCalm, history
  <1>4. CASE RetryForward(i) \/ BullStep(i) \/ IntentFault(i)
    BY <1>4 DEF RetryForward, BullStep, JobStalls, JobRemoved, IntentFault, LockLost,
                RetryForwardFails, Environment, EnvRow, EnvCalm, database, history
  <1> QED
    BY <1>1, <1>2, <1>3, <1>4

\* So is what stops a dispatcher, a shutdown that begins, a refused job, the loss of
\* Redis and a step in which nothing happens.
LEMMA OtherEnvironment ==
  ASSUME \/ \E n \in Nodes : DispatchAbort(n) \/ BeginShutdown(n)
         \/ \E n \in Nodes, i \in Intents : WorkerRefuse(n, i)
         \/ RedisLoss
         \/ UNCHANGED vars
  PROVE  Environment
  BY DEF DispatchAbort, BeginShutdown, WorkerRefuse, RedisLoss, vars, Environment, EnvRow, EnvCalm,
         database, history

\* A slot takes a job, falls idle or moves on, and the tables are left alone.
SlotOnly(n) ==
    /\ UNCHANGED <<outbox, idem>>
    /\ \/ /\ work[n].pc = "load" /\ outbox[work[n].intent] \notin Open
          /\ SlotGoes(n, "ack") /\ UNCHANGED ambiguous
       \/ /\ work[n].pc = "load"
          /\ outbox[work[n].intent] \in {"pending", "failed", "cancelled"}
          /\ SlotGoes(n, "fail") /\ UNCHANGED ambiguous
       \/ /\ work[n].pc = "load" /\ outbox[work[n].intent] \in Open
          /\ IF n \in Equipped THEN SlotGoes(n, "claim")
             ELSE SlotGoes(n, "fail") \/ SlotGoes(n, "release")
          /\ UNCHANGED ambiguous
       \/ work[n].pc = "run" /\ SlotGoes(n, "complete") /\ UNCHANGED ambiguous
       \/ /\ work[n].pc = "run" /\ UNCHANGED ambiguous
          /\ SlotGoes(n, "fail") \/ SlotGoes(n, "release")
       \/ /\ work[n].pc = "run" /\ SlotGoes(n, "quarantine")
          /\ ambiguous' = ambiguous \cup {work[n].intent}
       \/ /\ work[n].pc \in {"record", "deadLetter"} /\ SlotGoes(n, "ack")
          /\ UNCHANGED ambiguous
       \/ /\ Fault("db") /\ work[n].pc # "idle" /\ SlotGoes(n, "ack")
          /\ work[n].pc \notin {"run", "complete"}
          /\ UNCHANGED ambiguous
       \/ /\ Fault("db") /\ work[n].pc \in {"claim", "complete"}
          /\ SlotGoes(n, "fail") \/ SlotGoes(n, "release")
          /\ UNCHANGED ambiguous
       \/ /\ work' = [work EXCEPT ![n] = Idle]
          /\ \/ work[n].pc = "ack" /\ UNCHANGED ambiguous
             \/ ambiguous' = IF work[n].pc \in {"run", "complete"}
                             THEN ambiguous \cup {work[n].intent} ELSE ambiguous
       \/ \E i \in Intents : WorkerTake(n, i) /\ UNCHANGED ambiguous

\* The statements by which a worker writes to its row and key.
SlotWrites(n) ==
    \/ WorkerClaim(n) \/ WorkerComplete(n) \/ WorkerRelease(n) \/ WorkerFail(n)
    \/ WorkerQuarantine(n)

\* Every step of a worker either moves its slot or is one of those statements.
LEMMA WorkerShape ==
  ASSUME TypeOK, NEW n \in Nodes, WorkerStep(n)
  PROVE  SlotOnly(n) \/ SlotWrites(n)
  <1>0. RowsOK /\ WorkOK
    BY DEF TypeOK
  <1>i. work[n].pc # "idle" => work[n].intent \in Intents
    BY BusyRow
  <1>1. CASE WorkerLoad(n)
    <2> DEFINE i == work[n].intent
    <2>1. i \in Intents /\ work[n].pc = "load" /\ UNCHANGED <<outbox, idem, ambiguous>>
      BY <1>1, <1>i DEF WorkerLoad, database, history
    <2>2. \/ outbox[i] \notin Open /\ SlotGoes(n, "ack")
          \/ outbox[i] \in {"pending", "failed", "cancelled"} /\ SlotGoes(n, "fail")
          \/ /\ outbox[i] \in Open
             /\ IF n \in Equipped THEN SlotGoes(n, "claim")
                ELSE SlotGoes(n, "fail") \/ SlotGoes(n, "release")
      <3>1. CASE outbox[i] \notin Exists \/ outbox[i] = "completed"
        BY <1>0, <1>1, <3>1, FinishValue DEF WorkerLoad, Exists, OutboxStatus, Open
      <3>2. CASE outbox[i] \in {"pending", "failed", "cancelled"}
        BY <1>0, <1>1, <3>2, ErrorValue DEF WorkerLoad, Exists, OutboxStatus, Open
      <3>3. CASE outbox[i] \in {"dispatching", "dispatched"}
        BY <1>0, <1>1, <3>3, ErrorValue, GotoValue
           DEF WorkerLoad, Exists, OutboxStatus, Open, WorkPC
      <3> QED
        BY <1>1, <3>1, <3>2, <3>3 DEF WorkerLoad
    <2> HIDE DEF i
    <2> QED
      BY <2>1, <2>2 DEF SlotOnly, i
  <1>2. CASE HandlerReturns(n)
    BY <1>0, <1>2, GotoValue DEF HandlerReturns, SlotOnly, WorkPC, database
  <1>3. CASE HandlerThrows(n)
    <2>1. SlotGoes(n, "fail") \/ SlotGoes(n, "release")
      BY <1>0, <1>3, ErrorValue DEF HandlerThrows
    <2> QED
      BY <1>3, <2>1 DEF HandlerThrows, SlotOnly, database, history
  <1>4. CASE HandlerTimesOut(n)
    BY <1>0, <1>4, QuarantineValue DEF HandlerTimesOut, SlotOnly, database
  <1>5. CASE WorkerRecordRetry(n)
    <2>1. \A k \in Intents : outbox'[k] = outbox[k]
      BY <1>0, <1>5, <1>i, SetOutboxIfValue DEF WorkerRecordRetry, recordRetry
    <2>2. outbox' = outbox
      <3>1. RowsOK'
        BY <1>0, <1>5, <1>i, SetOutboxIfType DEF WorkerRecordRetry, recordRetry, OutboxStatus
      <3> QED
        BY <1>0, <2>1, <3>1 DEF RowsOK
    <2> QED
      BY <1>0, <1>5, <2>2, FinishValue DEF WorkerRecordRetry, SlotOnly, history
  <1>6. CASE WorkerDeadLetter(n)
    BY <1>0, <1>6, GotoValue DEF WorkerDeadLetter, SlotOnly, WorkPC, database, history
  <1>7. CASE WorkerAck(n)
    BY <1>7 DEF WorkerAck, SlotOnly, database, history
  <1> QED
    BY <1>1, <1>2, <1>3, <1>4, <1>5, <1>6, <1>7 DEF WorkerStep, RunEnds, SlotWrites

\* Every step is the environment's, moves one slot or is a statement of a worker.
LEMMA NextShape ==
  ASSUME TypeOK, Known, [Next]_vars
  PROVE  Environment \/ \E n \in Nodes : SlotOnly(n) \/ SlotWrites(n)
  <1>1. ASSUME NEW n \in Nodes, Restart(n) \/ NodeFault(n)
        PROVE  Environment \/ SlotOnly(n)
    <2>1. CASE WorkerDbError(n)
      <3>0. WorkOK
        BY DEF TypeOK
      <3>1. /\ UNCHANGED <<outbox, idem, ambiguous>> /\ Fault("db")
            /\ \/ /\ work[n].pc \in {"claim", "complete"}
                  /\ SlotGoes(n, "fail") \/ SlotGoes(n, "release")
               \/ work[n].pc \notin {"idle", "run", "complete"} /\ SlotGoes(n, "ack")
        BY <2>1, <3>0, FinishValue, ErrorValue DEF WorkerDbError, database, history
      <3> QED
        BY <3>1 DEF SlotOnly
    <2>2. ASSUME Vanish(n) PROVE SlotOnly(n)
      BY <2>2 DEF Vanish, SlotOnly, database
    <2> QED
      BY <1>1, <2>1, <2>2, OtherEnvironment DEF NodeFault, Restart, Crash
  <1>2. ASSUME NEW n \in Nodes, NEW i \in Intents, WorkerTake(n, i)
        PROVE  SlotOnly(n)
    BY <1>2 DEF WorkerTake, SlotOnly, database, history
  <1> QED
    BY <1>1, <1>2, DispatchEnvironment, IntentEnvironment, OtherEnvironment, WorkerShape
       DEF Next

----------------------------------------------------------------------------
(* Where no lock is lost and Redis keeps its jobs, a job has one worker.    *)

ExclusiveDelivery == {"lock", "redis"} \cap FaultKinds = {}

\* A busy slot holds the lock of the job it works on, so no two slots work on one job.
Delivered ==
    \A n \in Nodes : work[n].pc # "idle" =>
        /\ job[work[n].intent].state = "active"
        /\ job[work[n].intent].owner = n

\* A step that leaves the jobs of busy slots alone and fills no slot keeps every busy
\* slot the holder of its lock.
LEMMA DeliveredFrame ==
  ASSUME Known, Delivered,
         \A m \in Nodes : work'[m].pc # "idle" =>
            work[m].pc # "idle" /\ work'[m].intent = work[m].intent,
         \A k \in Intents : job[k].state = "active" =>
            job'[k] = job[k] \/ work'[job[k].owner].pc = "idle"
  PROVE  Delivered'
  BY ConsumedIntents DEF Delivered, Known, SlotsKnown

\* Every step keeps it so.
LEMMA NextDelivered ==
  ASSUME ExclusiveDelivery, TypeOK, Known, Delivered, [Next]_vars
  PROVE  Delivered'
  <1>0. WorkOK /\ job \in [Intents -> BullJob]
    BY DEF TypeOK
  <1>1. ASSUME work' = work,
               \A k \in Intents : job[k].state = "active" => job'[k] = job[k]
        PROVE  Delivered'
    BY <1>1, DeliveredFrame
  <1>2. ASSUME NEW n \in Nodes, NEW pc, work[n].pc # "idle", SlotGoes(n, pc), job' = job
        PROVE  Delivered'
    BY <1>2, DeliveredFrame DEF SlotGoes
  <1>3. ASSUME NEW n \in Nodes, WorkerStep(n)
        PROVE  Delivered'
    <2>1. CASE WorkerAck(n)
      <3> DEFINE i == work[n].intent
      <3>0. i \in Intents
        BY <2>1, BusyRow DEF WorkerAck
      <3>1. \A k \in Intents : k # i => job'[k] = job[k]
        BY <2>1 DEF WorkerAck, TypeOK
      <3>2. \A m \in Nodes : IF m = n THEN work'[m].pc = "idle" ELSE work'[m] = work[m]
        BY <1>0, <2>1, IdleValue DEF WorkerAck
      <3>3. job[i].owner = n
        BY <2>1, <3>0 DEF WorkerAck, Delivered
      <3> HIDE DEF i
      <3> QED
        BY <3>1, <3>2, <3>3, DeliveredFrame
    <2>2. CASE ~WorkerAck(n)
      <3>1. UNCHANGED job /\ work[n].pc # "idle"
        BY <1>3, <2>2 DEF WorkerStep, RunEnds, WorkerLoad, WorkerClaim, HandlerReturns,
           HandlerThrows, HandlerTimesOut, WorkerComplete, WorkerRelease, WorkerRecordRetry,
           WorkerFail, WorkerQuarantine, WorkerDeadLetter
      <3>2. \A m \in Nodes : work'[m].intent = work[m].intent /\ (m # n => work'[m] = work[m])
        BY <1>0, <1>3, <2>2
           DEF WorkerStep, RunEnds, WorkerLoad, WorkerClaim, HandlerReturns,
               HandlerThrows, HandlerTimesOut, WorkerComplete, WorkerRelease,
               WorkerRecordRetry, WorkerFail, WorkerQuarantine, WorkerDeadLetter,
               Goto, Finish, HandleError, Quarantine, WorkOK, Work
      <3> QED
        BY <3>1, <3>2, DeliveredFrame
    <2> QED
      BY <2>1, <2>2
  <1>4. ASSUME NEW n \in Nodes, DispatchStep(n)
        PROVE  Delivered'
    BY <1>0, <1>1, <1>4
       DEF DispatchStep, DispatchClaim, DispatchRelease, DispatchReject, DispatchPublish,
           DispatchDeadLetter, DispatchMark
  <1>5. ASSUME NEW i \in Intents,
               \/ Enqueue(i) \/ Elapse(i) \/ RetryPrepare(i) \/ RetryForward(i)
               \/ Cleanup(i) \/ RetryForwardFails(i) \/ JobRemoved(i)
        PROVE  Delivered'
    BY <1>0, <1>1, <1>5
       DEF Enqueue, Elapse, RetryPrepare, RetryForward, Cleanup, CancelUnconsumed,
           DeleteTerminalOutbox, DeleteExpiredKey, RetryForwardFails, JobRemoved, BullJob
  <1>6. ASSUME NEW i \in Intents, JobStalls(i)
        PROVE  Delivered'
    <2>1. job' = [job EXCEPT ![i] = Stalled(@)] /\ work' = work
      BY <1>6 DEF JobStalls
    <2>2. \A m \in Nodes : work[m].pc # "idle" => work[m].intent # i
      BY <1>6 DEF JobStalls, Orphaned, Delivered
    <2> QED
      BY <1>0, <2>1, <2>2, ConsumedIntents DEF Delivered, Known, SlotsKnown
  <1>7. ASSUME NEW n \in Nodes, Restart(n) \/ NodeFault(n)
        PROVE  Delivered'
    <2>1. CASE WorkerDbError(n)
      <3>1. SlotGoes(n, "ack") \/ SlotGoes(n, "fail") \/ SlotGoes(n, "release")
        BY <1>0, <2>1, FinishValue, ErrorValue DEF WorkerDbError
      <3> QED
        BY <1>2, <2>1, <3>1 DEF WorkerDbError
    <2>2. ASSUME Vanish(n) PROVE Delivered'
      BY <1>0, <2>2, IdleValue, DeliveredFrame DEF Vanish
    <2> QED
      BY <1>1, <1>7, <2>1, <2>2 DEF NodeFault, Restart, Crash, BeginShutdown, DispatchAbort
  <1>8. ASSUME NEW n \in Nodes, NEW i \in Intents, WorkerTake(n, i)
        PROVE  Delivered'
    <2>1. job[i].state = "waiting"
      BY <1>8 DEF WorkerTake
    <2> QED
      BY <1>8, <2>1, TakeValue, ConsumedIntents DEF Delivered, Known, SlotsKnown
  <1>9. ASSUME NEW n \in Nodes, NEW i \in Intents, WorkerRefuse(n, i)
        PROVE  Delivered'
    BY <1>0, <1>1, <1>9 DEF WorkerRefuse
  <1>10. ~RedisLoss /\ \A i \in Intents : ~LockLost(i)
    BY DEF ExclusiveDelivery, RedisLoss, LockLost, Fault
  <1>11. CASE UNCHANGED vars
    BY <1>1, <1>11 DEF vars
  <1> QED
    BY <1>3, <1>4, <1>5, <1>6, <1>7, <1>8, <1>9, <1>10, <1>11
       DEF Next, BullStep, IntentFault

\* Without expired locks and without a loss of Redis, whatever crashes, shuts down,
\* fails or is retried by hand, no two slots ever work on the same job.
THEOREM OneWorkerPerJob ==
  ASSUME ExclusiveDelivery
  PROVE  Spec => []Delivered
  <1>1. Init => Delivered
    BY DEF Init, Delivered, Idle
  <1>2. TypeOK /\ Known /\ Delivered /\ [Next]_vars => Delivered'
    BY NextDelivered
  <1> QED
    BY <1>1, <1>2, TypeCorrect, KnownAlways, PTL DEF Spec

----------------------------------------------------------------------------
(* What a worker that is alone with its job can rely on.                    *)

\* From the claim to the record of completion the intent of a slot is open, during the
\* run its replay key is in processing, and a slot about to fail an intent does not
\* hold a completed one.
SlotsHold ==
    \A n \in Nodes :
        /\ work[n].pc \in {"claim", "run", "complete"} => outbox[work[n].intent] \in Open
        /\ work[n].pc \in {"run", "complete"} => idem[work[n].intent] = "processing"
        /\ work[n].pc = "fail" => outbox[work[n].intent] # "completed"

\* No two busy slots are about the same row.
LEMMA SlotsApart ==
  ASSUME TypeOK, Delivered, NEW n \in Nodes, work[n].pc # "idle",
         NEW m \in Nodes, m # n, work[m].pc # "idle"
  PROVE  work[m].intent # work[n].intent
  BY DEF Delivered

\* The environment leaves a held row held, and poisons no key.
LEMMA EnvironmentHeld ==
  ASSUME TypeOK, Known, Delivered, SlotsHold, NoPoisonedKey, Environment
  PROVE  SlotsHold' /\ NoPoisonedKey'
  <1>1. ASSUME NEW n \in Nodes, work[n].pc # "idle"
        PROVE  \/ /\ outbox'[work[n].intent] = outbox[work[n].intent]
                  /\ idem'[work[n].intent] = idem[work[n].intent]
               \/ /\ outbox[work[n].intent] \in Open /\ outbox'[work[n].intent] \in Open
                  /\ idem'[work[n].intent] = idem[work[n].intent]
    <2> DEFINE i == work[n].intent
    <2>1. /\ i \in Intents /\ i \in Valid /\ outbox[i] # "none" /\ Busy(i)
          /\ job[i].state = "active"
      BY <1>1, ConsumedIntents DEF Known, SlotsKnown, Delivered, Consumed, Busy
    <2>2. EnvRow(i)
      BY <2>1 DEF Environment
    <2> QED
      BY <2>1, <2>2 DEF EnvRow, EnvCalm
  <1>2. SlotsHold'
    BY <1>1 DEF SlotsHold, Environment, Open
  <1>3. ASSUME NEW k \in Intents
        PROVE  /\ outbox'[k] = "completed" => idem'[k] \in {"completed", "none"}
               /\ idem'[k] = "completed" => outbox'[k] \in {"completed", "deleted"}
    <2>1. EnvRow(k)
      BY DEF Environment
    <2>2. outbox[k] = "completed" => k \in Valid
      BY DEF Known, RowsKnown, Consumed
    <2> QED
      BY <2>1, <2>2 DEF EnvRow, EnvCalm, NoPoisonedKey, Open, Exists
  <1> QED
    BY <1>2, <1>3 DEF NoPoisonedKey

\* A slot that only moves leaves it so.
LEMMA SlotOnlyHeld ==
  ASSUME TypeOK, SlotsHold, NoPoisonedKey, NEW n \in Nodes, SlotOnly(n)
  PROVE  SlotsHold' /\ NoPoisonedKey'
  <1>0. WorkOK /\ UNCHANGED <<outbox, idem>>
    BY DEF TypeOK, SlotOnly
  <1>1. ASSUME NEW pc, SlotGoes(n, pc), pc \notin {"claim", "run", "complete", "fail"}
        PROVE  SlotsHold'
    BY <1>0, <1>1 DEF SlotsHold, SlotGoes
  <1>2. ASSUME SlotGoes(n, "fail"), outbox[work[n].intent] # "completed"
        PROVE  SlotsHold'
    BY <1>0, <1>2 DEF SlotsHold, SlotGoes
  <1>3. ASSUME SlotGoes(n, "claim"), outbox[work[n].intent] \in Open
        PROVE  SlotsHold'
    BY <1>0, <1>3 DEF SlotsHold, SlotGoes
  <1>4. ASSUME SlotGoes(n, "complete"), work[n].pc = "run"
        PROVE  SlotsHold'
    BY <1>0, <1>4 DEF SlotsHold, SlotGoes
  <1>5. ASSUME work' = [work EXCEPT ![n] = Idle]
        PROVE  SlotsHold'
    <2>1. \A m \in Nodes : work'[m].pc = "idle" \/ work'[m] = work[m]
      BY <1>0, <1>5, IdleValue
    <2> QED
      BY <1>0, <2>1 DEF SlotsHold
  <1>6. ASSUME NEW i \in Intents, WorkerTake(n, i)
        PROVE  SlotsHold'
    BY <1>0, <1>6, TakeValue DEF SlotsHold
  <1>7. work[n].pc \in {"claim", "run", "complete"} => outbox[work[n].intent] # "completed"
    BY DEF SlotsHold, Open
  <1>8. SlotsHold'
    BY <1>1, <1>2, <1>3, <1>4, <1>5, <1>6, <1>7 DEF SlotOnly, Open
  <1> QED
    BY <1>0, <1>8 DEF NoPoisonedKey

\* So does a statement of a worker.
LEMMA SlotWritesHeld ==
  ASSUME TypeOK, Known, Delivered, SlotsHold, NoPoisonedKey, NEW n \in Nodes, SlotWrites(n)
  PROVE  SlotsHold' /\ NoPoisonedKey'
  <1> DEFINE i == work[n].intent
  <1>0. RowsOK /\ WorkOK /\ idem \in [Intents -> IdemStatus]
    BY DEF TypeOK
  <1>i. /\ work[n].pc # "idle" /\ i \in Intents
        /\ \A m \in Nodes : m # n => work[m].pc = "idle" \/ work[m].intent # i
    BY BusyRow, SlotsApart
       DEF SlotWrites, WorkerClaim, WorkerComplete, WorkerRelease, WorkerFail, WorkerQuarantine
  <1>1. CASE WorkerClaim(n)
    <2>1. outbox[i] \in Open /\ idem[i] # "completed"
      BY <1>1, <1>i DEF WorkerClaim, SlotsHold, NoPoisonedKey, Open
    <2>2. \A k \in Intents : outbox'[k] = outbox[k] /\ (k # i => idem'[k] = idem[k])
      BY <1>0, <1>1, <1>i, <2>1, SetIdemIfValue DEF WorkerClaim
    <2>3. \/ SlotGoes(n, "quarantine") /\ idem'[i] = "reconciliation_required"
          \/ SlotGoes(n, "run") /\ idem'[i] = "processing"
      BY <1>0, <1>1, <1>i, <2>1, SetIdemIfValue, QuarantineValue, GotoValue
         DEF WorkerClaim, WorkPC
    <2> HIDE DEF i
    <2>4. SlotsHold'
      BY <1>0, <1>i, <2>1, <2>2, <2>3, BusyRow DEF SlotsHold, SlotGoes, i
    <2>5. NoPoisonedKey'
      BY <2>1, <2>2, <2>3 DEF NoPoisonedKey, Open
    <2> QED
      BY <2>4, <2>5
  <1>2. CASE WorkerComplete(n)
    <2>1. outbox[i] \in Open /\ idem[i] = "processing"
      BY <1>2 DEF WorkerComplete, SlotsHold
    <2>2. \A k \in Intents : k # i => outbox'[k] = outbox[k] /\ idem'[k] = idem[k]
      BY <1>0, <1>2, <1>i, SetIdemIfValue, SetOutboxIfValue
         DEF WorkerComplete, completeExecution
    <2>3. outbox'[i] = "completed" /\ idem'[i] = "completed"
      BY <1>0, <1>2, <1>i, <2>1, SetIdemIfValue, SetOutboxIfValue
         DEF WorkerComplete, completeExecution, Open, Exists, OutboxStatus
    <2>4. SlotGoes(n, "ack")
      BY <1>0, <1>2, FinishValue DEF WorkerComplete
    <2> HIDE DEF i
    <2>5. SlotsHold'
      BY <1>i, <2>2, <2>4, BusyRow DEF SlotsHold, SlotGoes, i
    <2>6. NoPoisonedKey'
      BY <2>2, <2>3 DEF NoPoisonedKey
    <2> QED
      BY <2>5, <2>6
  <1>3. CASE WorkerRelease(n)
    <2>1. \A k \in Intents : /\ outbox'[k] = outbox[k]
                             /\ idem'[k] = IF k = i /\ idem[k] = "processing"
                                           THEN "pending" ELSE idem[k]
      BY <1>0, <1>3, <1>i, SetIdemIfValue DEF WorkerRelease, releaseExecution
    <2>2. SlotGoes(n, "record")
      BY <1>0, <1>3, GotoValue DEF WorkerRelease, WorkPC
    <2> HIDE DEF i
    <2>3. SlotsHold'
      BY <1>i, <2>1, <2>2, BusyRow DEF SlotsHold, SlotGoes, i
    <2>4. NoPoisonedKey'
      BY <2>1 DEF NoPoisonedKey
    <2> QED
      BY <2>3, <2>4
  <1>4. CASE WorkerFail(n)
    <2>1. outbox[i] # "completed" /\ idem[i] = "completed" => outbox[i] = "deleted"
      BY <1>i DEF NoPoisonedKey
    <2>2. outbox[i] # "completed"
      BY <1>4 DEF WorkerFail, SlotsHold
    <2>3. \A k \in Intents :
             /\ outbox'[k] = IF k = i /\ outbox[i] \in Exists \ {"completed"}
                             THEN "failed" ELSE outbox[k]
             /\ idem'[k] = IF k = i /\ idem[i] \notin {"completed", "reconciliation_required"}
                           THEN "failed" ELSE idem[k]
      BY <1>4, <1>i, MarkFailedExact DEF WorkerFail
    <2>4. SlotGoes(n, "deadLetter")
      BY <1>0, <1>4, GotoValue DEF WorkerFail, WorkPC
    <2> HIDE DEF i
    <2>5. SlotsHold'
      BY <1>i, <2>3, <2>4, BusyRow DEF SlotsHold, SlotGoes, i
    <2>6. NoPoisonedKey'
      BY <2>1, <2>2, <2>3 DEF NoPoisonedKey, Exists
    <2> QED
      BY <2>5, <2>6
  <1>5. CASE WorkerQuarantine(n)
    <2>1. \A k \in Intents :
             /\ outbox'[k] = IF k = i /\ outbox[i] \in Exists \ {"completed"}
                             THEN "failed" ELSE outbox[k]
             /\ idem'[k] = IF k = i /\ idem[i] \notin {"none", "completed"}
                           THEN "reconciliation_required" ELSE idem[k]
      BY <1>5, <1>i, RequireReconciliationExact DEF WorkerQuarantine
    <2>2. SlotGoes(n, "deadLetter")
      BY <1>0, <1>5, GotoValue DEF WorkerQuarantine, WorkPC
    <2> HIDE DEF i
    <2>3. SlotsHold'
      BY <1>i, <2>1, <2>2, BusyRow DEF SlotsHold, SlotGoes, i
    <2>4. NoPoisonedKey'
      BY <1>i, <2>1 DEF NoPoisonedKey, Exists
    <2> QED
      BY <2>3, <2>4
  <1> QED
    BY <1>1, <1>2, <1>3, <1>4, <1>5 DEF SlotWrites

\* The inductive invariant of exclusive delivery.
Exclusive == Delivered /\ SlotsHold /\ NoPoisonedKey

\* It holds throughout.
LEMMA ExclusiveAlways ==
  ASSUME ExclusiveDelivery
  PROVE  Spec => []Exclusive
  <1>1. Init => Exclusive
    BY DEF Init, Exclusive, Delivered, SlotsHold, NoPoisonedKey, Idle
  <1>2. TypeOK /\ Known /\ Exclusive /\ [Next]_vars => Exclusive'
    BY NextDelivered, NextShape, EnvironmentHeld, SlotOnlyHeld, SlotWritesHeld DEF Exclusive
  <1> QED
    BY <1>1, <1>2, TypeCorrect, KnownAlways, PTL DEF Spec

\* Without expired locks and without a loss of Redis the two tables never disagree
\* about a completion, whatever crashes, fails or is reopened by an operator.
THEOREM KeysAreNotPoisoned ==
  ASSUME ExclusiveDelivery
  PROVE  Spec => []NoPoisonedKey
  BY ExclusiveAlways, PTL DEF Exclusive

\* Nor does the handler ever run for an intent that is settled.
THEOREM SettledIsNotRun ==
  ASSUME ExclusiveDelivery
  PROVE  Spec => NoRunAfterSettlement
  <1>1. TypeOK /\ Exclusive /\ [Next]_vars =>
          [\A n \in Nodes, i \in Intents : Starts(n, i) => outbox[i] \in Open]_vars
    BY StartsByClaim DEF Exclusive, SlotsHold
  <1> QED
    BY <1>1, ExclusiveAlways, TypeCorrect, PTL DEF Spec, NoRunAfterSettlement

----------------------------------------------------------------------------
(* Runs, where delivery is exclusive, no statement of a worker fails and    *)
(* every process holds the handler.                                         *)

\* An execution with an unknown outcome has no slot any more that could give its key
\* back, and its key stays taken as long as the intent is open.
AmbiguousHeld ==
    \A i \in ambiguous :
        /\ outbox[i] # "none"
        /\ \A n \in Nodes : work[n].intent = i => work[n].pc \notin {"run", "complete", "release"}
        /\ outbox[i] \in Open => idem[i] \in {"processing", "reconciliation_required"}

\* The environment leaves it so.
LEMMA EnvironmentAmbiguous ==
  ASSUME TypeOK, Known, AmbiguousHeld, Environment
  PROVE  AmbiguousHeld'
  <1> SUFFICES ASSUME NEW i \in ambiguous'
               PROVE  /\ outbox'[i] # "none"
                      /\ outbox'[i] \in Open => idem'[i] \in {"processing", "reconciliation_required"}
    BY DEF AmbiguousHeld, Environment
  <1>1. i \in Intents /\ i \in ambiguous /\ EnvRow(i)
    BY DEF Environment, TypeOK, SetsOK
  <1> QED
    BY <1>1 DEF AmbiguousHeld, EnvRow, EnvCalm, PrunableKey, Open, Exists, OutboxStatus

\* So does a slot that only moves.
LEMMA SlotOnlyAmbiguous ==
  ASSUME "db" \notin FaultKinds, Nodes \subseteq Equipped,
         TypeOK, Known, Delivered, SlotsHold, AmbiguousHeld, NEW n \in Nodes, SlotOnly(n)
  PROVE  AmbiguousHeld'
  <1> DEFINE i == work[n].intent
  <1>0. WorkOK /\ UNCHANGED <<outbox, idem>> /\ ambiguous \subseteq Intents
    BY DEF TypeOK, SetsOK, SlotOnly
  <1>1. ASSUME NEW pc, SlotGoes(n, pc), UNCHANGED ambiguous,
               pc \notin {"run", "complete", "release"} \/ work[n].pc = "run"
        PROVE  AmbiguousHeld'
    BY <1>0, <1>1 DEF AmbiguousHeld, SlotGoes
  <1>2. work[n].pc \in {"run", "complete"} =>
           /\ outbox[i] # "none" /\ idem[i] = "processing"
           /\ \A m \in Nodes : m # n => work[m].pc = "idle" \/ work[m].intent # i
    BY SlotsApart DEF SlotsHold, Known, SlotsKnown
  <1> HIDE DEF i
  <1>3. ASSUME work[n].pc = "run", SlotGoes(n, "quarantine"), ambiguous' = ambiguous \cup {i}
        PROVE  AmbiguousHeld'
    BY <1>0, <1>2, <1>3 DEF AmbiguousHeld, SlotGoes
  <1>4. ASSUME work' = [work EXCEPT ![n] = Idle],
               ambiguous' \subseteq ambiguous
                  \cup (IF work[n].pc \in {"run", "complete"} THEN {i} ELSE {})
        PROVE  AmbiguousHeld'
    <2>1. \A m \in Nodes : IF m = n THEN work'[m].pc = "idle" ELSE work'[m] = work[m]
      BY <1>0, <1>4, IdleValue
    <2> QED
      BY <1>0, <1>2, <1>4, <2>1 DEF AmbiguousHeld
  <1>5. ASSUME NEW k \in Intents, WorkerTake(n, k), UNCHANGED ambiguous
        PROVE  AmbiguousHeld'
    BY <1>0, <1>5, TakeValue DEF AmbiguousHeld
  <1>6. ~Fault("db") /\ n \in Equipped
    BY DEF Fault
  <1> QED
    BY <1>1, <1>3, <1>4, <1>5, <1>6 DEF SlotOnly, i

\* So does a statement of a worker: a key that is taken for an unknown outcome is
\* quarantined, not claimed.
LEMMA SlotWritesAmbiguous ==
  ASSUME TypeOK, Known, Delivered, SlotsHold, NoPoisonedKey, AmbiguousHeld, NEW n \in Nodes, SlotWrites(n)
  PROVE  AmbiguousHeld'
  <1> DEFINE i == work[n].intent
  <1>0. RowsOK /\ WorkOK /\ idem \in [Intents -> IdemStatus] /\ ambiguous \subseteq Intents
    BY DEF TypeOK, SetsOK
  <1>i. /\ work[n].pc # "idle" /\ i \in Intents /\ outbox[i] # "none" /\ UNCHANGED ambiguous
    BY BusyRow
       DEF SlotWrites, WorkerClaim, WorkerComplete, WorkerRelease, WorkerFail, WorkerQuarantine,
           history, Known, SlotsKnown
  <1>1. CASE WorkerClaim(n)
    <2>1. outbox[i] \in Open /\ idem[i] # "completed"
      BY <1>1, <1>i DEF WorkerClaim, SlotsHold, NoPoisonedKey, Open
    <2>2. \A k \in Intents : outbox'[k] = outbox[k] /\ (k # i => idem'[k] = idem[k])
      BY <1>0, <1>1, <1>i, <2>1, SetIdemIfValue DEF WorkerClaim
    <2>3. \/ SlotGoes(n, "quarantine") /\ idem'[i] = "reconciliation_required"
          \/ SlotGoes(n, "run") /\ idem[i] \in {"none", "pending", "failed"}
      BY <1>0, <1>1, <1>i, <2>1, SetIdemIfValue, QuarantineValue, GotoValue
         DEF WorkerClaim, WorkPC
    <2> HIDE DEF i
    <2> QED
      BY <1>0, <1>i, <2>1, <2>2, <2>3 DEF AmbiguousHeld, SlotGoes, i
  <1>2. CASE WorkerComplete(n) \/ WorkerRelease(n)
    <2>1. i \notin ambiguous
      BY <1>2 DEF WorkerComplete, WorkerRelease, AmbiguousHeld
    <2>2. \A k \in Intents : k # i => outbox'[k] = outbox[k] /\ idem'[k] = idem[k]
      BY <1>0, <1>2, <1>i, SetIdemIfValue, SetOutboxIfValue
         DEF WorkerComplete, completeExecution, WorkerRelease, releaseExecution
    <2>3. SlotGoes(n, "ack") \/ SlotGoes(n, "record")
      BY <1>0, <1>2, FinishValue, GotoValue DEF WorkerComplete, WorkerRelease, WorkPC
    <2> HIDE DEF i
    <2> QED
      BY <1>0, <1>i, <2>1, <2>2, <2>3 DEF AmbiguousHeld, SlotGoes
  <1>3. CASE WorkerFail(n) \/ WorkerQuarantine(n)
    <2>1. \A k \in Intents :
             /\ outbox'[k] = IF k = i /\ outbox[i] \in Exists \ {"completed"}
                             THEN "failed" ELSE outbox[k]
             /\ k # i => idem'[k] = idem[k]
      BY <1>3, <1>i, MarkFailedExact, RequireReconciliationExact
         DEF WorkerFail, WorkerQuarantine
    <2>2. SlotGoes(n, "deadLetter")
      BY <1>0, <1>3, GotoValue DEF WorkerFail, WorkerQuarantine, WorkPC
    <2> HIDE DEF i
    <2> QED
      BY <1>0, <1>i, <2>1, <2>2
         DEF AmbiguousHeld, SlotGoes, Open, Exists, OutboxStatus
  <1> QED
    BY <1>1, <1>2, <1>3 DEF SlotWrites

\* While delivery is exclusive and no statement of a worker fails, a run is neither
\* overlapped nor, when its outcome is unknown, resent -- however many times an
\* operator reopens the intent.
THEOREM RunsAreNotResent ==
  ASSUME ExclusiveDelivery, "db" \notin FaultKinds, Nodes \subseteq Equipped
  PROVE  Spec => NeverOverlappedOrResent
  <1>1. Init => AmbiguousHeld
    BY DEF Init, AmbiguousHeld
  <1>2. TypeOK /\ Known /\ Exclusive /\ AmbiguousHeld /\ [Next]_vars => AmbiguousHeld'
    BY NextShape, EnvironmentAmbiguous, SlotOnlyAmbiguous, SlotWritesAmbiguous DEF Exclusive
  <1>3. TypeOK /\ Exclusive /\ AmbiguousHeld /\ [Next]_vars =>
          [\A i \in Intents : outbox[i] \in Open =>
              \A n \in Nodes : Starts(n, i) =>
                 /\ i \notin ambiguous
                 /\ \A m \in Nodes : Running(m, i) => retries[i] > 0]_vars
    <2> SUFFICES ASSUME TypeOK, Exclusive, AmbiguousHeld, [Next]_vars,
                        NEW n \in Nodes, NEW i \in Intents, Starts(n, i), outbox[i] \in Open
                 PROVE  i \notin ambiguous /\ \A m \in Nodes : ~Running(m, i)
      OBVIOUS
    <2>1. work[n].pc = "claim" /\ work[n].intent = i /\ idem[i] \in {"none", "pending", "failed"}
      BY StartsByClaim
    <2>2. i \notin ambiguous
      BY <2>1 DEF AmbiguousHeld
    <2>3. ASSUME NEW m \in Nodes, Running(m, i) PROVE FALSE
      BY <2>1, <2>3, SlotsApart DEF Running, Exclusive
    <2> QED
      BY <2>2, <2>3
  <1> QED
    BY <1>1, <1>2, <1>3, ExclusiveAlways, TypeCorrect, KnownAlways, PTL
       DEF Spec, NeverOverlappedOrResent

----------------------------------------------------------------------------
(* Runs, where locks expire under live workers and Redis forgets its jobs,  *)
(* while no process shuts down, no statement of a worker fails, every       *)
(* process holds the handler and no operator steps in.                      *)

RoughDelivery ==
    FaultKinds \cap {"db", "shutdown"} = {} /\ Nodes \subseteq Equipped /\ MaxRetries = 0

\* No process is stopping, and a pending row has not reached BullMQ yet.
Published ==
    /\ stopping = {}
    /\ \A k \in Intents : outbox[k] = "pending" =>
          job[k].state = "none" /\ ~Busy(k) /\ \A n \in Nodes : k \notin disp[n].batch

\* What nobody has claimed stays unknown to BullMQ and to the workers, and is claimed
\* only by a dispatcher.
LEMMA Untouched ==
  ASSUME TypeOK, Known, [Next]_vars, NEW k \in Intents,
         job[k].state = "none", ~Busy(k), \A n \in Nodes : k \notin disp[n].batch
  PROVE  /\ job'[k].state = "none"
         /\ ~Busy(k)'
         /\ outbox'[k] = "dispatching" \/ \A n \in Nodes : k \notin disp'[n].batch
  <1>0. WorkOK /\ DispOK /\ job \in [Intents -> BullJob]
    BY DEF TypeOK
  <1>1. job'[k].state = "none"
    <2>1. ASSUME NEW n \in Nodes, DispatchStep(n) PROVE job'[k].state = "none"
      BY <2>1 DEF DispatchStep, DispatchClaim, DispatchRelease, DispatchReject, DispatchPublish,
                  DispatchDeadLetter, DispatchMark, AtRow, TypeOK
    <2>2. ASSUME NEW n \in Nodes, WorkerStep(n) PROVE job'[k].state = "none"
      BY <2>2 DEF WorkerStep, RunEnds, WorkerLoad, WorkerClaim, HandlerReturns,
           HandlerThrows, HandlerTimesOut, WorkerComplete, WorkerRelease, WorkerRecordRetry,
           WorkerFail, WorkerQuarantine, WorkerDeadLetter, WorkerAck, TypeOK
    <2>3. ASSUME NEW i \in Intents,
                 \/ Enqueue(i) \/ Elapse(i) \/ RetryPrepare(i) \/ RetryForward(i)
                 \/ Cleanup(i) \/ BullStep(i) \/ IntentFault(i)
          PROVE  job'[k].state = "none"
      <3>1. CASE BullStep(i) \/ IntentFault(i)
        BY <1>0, <3>1 DEF BullStep, JobStalls, JobRemoved, IntentFault, LockLost,
                          RetryForwardFails, Orphaned, NotQueued
      <3>2. CASE RetryForward(i)
        BY <1>0, <3>2 DEF RetryForward, BullJob
      <3> QED
        BY <2>3, <3>1, <3>2 DEF Enqueue, Elapse, RetryPrepare, Cleanup, CancelUnconsumed,
             DeleteTerminalOutbox, DeleteExpiredKey
    <2>4. ASSUME NEW n \in Nodes, Restart(n) \/ NodeFault(n)
          PROVE  job'[k].state = "none"
      BY <2>4 DEF NodeFault, Restart, Crash, Vanish, BeginShutdown, DispatchAbort, WorkerDbError
    <2>5. ASSUME NEW n \in Nodes, NEW i \in Intents, WorkerTake(n, i) \/ WorkerRefuse(n, i)
          PROVE  job'[k].state = "none"
      BY <1>0, <2>5 DEF WorkerTake, WorkerRefuse
    <2>6. CASE RedisLoss \/ UNCHANGED vars
      BY <2>6 DEF RedisLoss, NotQueued, vars
    <2> QED
      BY <2>1, <2>2, <2>3, <2>4, <2>5, <2>6 DEF Next
  <1>2. ~Busy(k)'
    <2>1. ASSUME NEW n \in Nodes, NEW pc, SlotGoes(n, pc), work[n].pc # "idle"
          PROVE  ~Busy(k)'
      BY <2>1 DEF SlotGoes, Busy
    <2>2. ASSUME NEW n \in Nodes, SlotOnly(n) PROVE ~Busy(k)'
      <3>1. CASE work' = [work EXCEPT ![n] = Idle]
        BY <1>0, <3>1, IdleValue DEF Busy
      <3>2. ASSUME NEW i \in Intents, WorkerTake(n, i) PROVE ~Busy(k)'
        <4>1. job[i].state = "waiting"
          BY <3>2 DEF WorkerTake
        <4> QED
          BY <3>2, <4>1, TakeValue DEF Busy
      <3> QED
        BY <2>1, <2>2, <3>1, <3>2 DEF SlotOnly
    <2>3. ASSUME NEW n \in Nodes, SlotWrites(n) PROVE ~Busy(k)'
      <3>1. /\ work[n].pc # "idle"
            /\ \E pc \in WorkPC : SlotGoes(n, pc)
        BY <1>0, <2>3, FinishValue, GotoValue, QuarantineValue
           DEF SlotWrites, WorkerClaim, WorkerComplete, WorkerRelease, WorkerFail,
               WorkerQuarantine, WorkPC
      <3> QED
        BY <2>1, <3>1
    <2> QED
      BY <2>2, <2>3, NextShape DEF Environment, Busy
  <1>3. outbox'[k] = "dispatching" \/ \A n \in Nodes : k \notin disp'[n].batch
    <2>1. ASSUME \A m \in Nodes : disp'[m].batch \subseteq disp[m].batch
          PROVE  \A n \in Nodes : k \notin disp'[n].batch
      BY <2>1
    <2>2. ASSUME NEW n \in Nodes, DispatchStep(n)
          PROVE  outbox'[k] = "dispatching" \/ \A m \in Nodes : k \notin disp'[m].batch
      <3>1. CASE DispatchClaim(n)
        BY <1>0, <3>1 DEF DispatchClaim, DispOK
      <3>2. ASSUME NEW i, AfterRow(n, i) PROVE \A m \in Nodes : k \notin disp'[m].batch
        BY <1>0, <2>1, <3>2, AfterRowValue
      <3>3. ASSUME NEW i \in Intents, DispatchReject(n, i) \/ DispatchPublish(n, i)
            PROVE  \A m \in Nodes : k \notin disp'[m].batch
        <4>1. PICK pc : disp' = [disp EXCEPT ![n].pc = pc, ![n].cur = i]
          BY <3>3 DEF DispatchReject, DispatchPublish
        <4>2. \A m \in Nodes : disp'[m].batch = disp[m].batch
          BY <1>0, <4>1, AtRowValue
        <4> QED
          BY <2>1, <4>2
      <3> QED
        BY <2>2, <3>1, <3>2, <3>3
           DEF DispatchStep, DispatchRelease, DispatchDeadLetter, DispatchMark
    <2>3. ASSUME NEW n \in Nodes, WorkerStep(n) PROVE disp' = disp
      BY <2>3 DEF WorkerStep, RunEnds, WorkerLoad, WorkerClaim, HandlerReturns,
           HandlerThrows, HandlerTimesOut, WorkerComplete, WorkerRelease, WorkerRecordRetry,
           WorkerFail, WorkerQuarantine, WorkerDeadLetter, WorkerAck
    <2>4. ASSUME NEW i \in Intents,
                 \/ Enqueue(i) \/ Elapse(i) \/ RetryPrepare(i) \/ RetryForward(i)
                 \/ Cleanup(i) \/ BullStep(i) \/ IntentFault(i)
          PROVE  disp' = disp
      BY <2>4 DEF Enqueue, Elapse, RetryPrepare, RetryForward, Cleanup, CancelUnconsumed,
           DeleteTerminalOutbox, DeleteExpiredKey, BullStep, JobStalls, JobRemoved,
           IntentFault, LockLost, RetryForwardFails
    <2>5. ASSUME NEW n \in Nodes, Restart(n) \/ NodeFault(n)
          PROVE  \A m \in Nodes : disp'[m].batch \subseteq disp[m].batch
      BY <1>0, <2>5 DEF NodeFault, Restart, Crash, Vanish, BeginShutdown, DispatchAbort,
           WorkerDbError, DispOK, NotDispatching
    <2>6. ASSUME NEW n \in Nodes, NEW i \in Intents, WorkerTake(n, i) \/ WorkerRefuse(n, i)
          PROVE  disp' = disp
      BY <2>6 DEF WorkerTake, WorkerRefuse
    <2>7. CASE RedisLoss \/ UNCHANGED vars
      BY <2>1, <2>7 DEF RedisLoss, vars
    <2> QED
      BY <2>1, <2>2, <2>3, <2>4, <2>5, <2>6, <2>7 DEF Next
  <1> QED
    BY <1>1, <1>2, <1>3

\* No statement of a worker leaves a row pending that was not.
LEMMA WritesLeavePending ==
  ASSUME TypeOK, NEW n \in Nodes, SlotWrites(n), NEW k \in Intents, outbox'[k] = "pending"
  PROVE  outbox[k] = "pending"
  <1>0. RowsOK /\ work[n].intent \in Intents
    BY BusyRow DEF TypeOK, SlotWrites, WorkerClaim, WorkerComplete, WorkerRelease, WorkerFail,
                   WorkerQuarantine
  <1>1. CASE WorkerClaim(n)
    BY <1>0, <1>1, SetOutboxIfValue DEF WorkerClaim
  <1>2. CASE WorkerComplete(n)
    BY <1>0, <1>2, SetOutboxIfValue DEF WorkerComplete, completeExecution
  <1>3. CASE WorkerRelease(n)
    BY <1>3 DEF WorkerRelease
  <1>4. CASE WorkerFail(n)
    BY <1>0, <1>4, MarkFailedExact DEF WorkerFail
  <1>5. CASE WorkerQuarantine(n)
    BY <1>0, <1>5, RequireReconciliationExact DEF WorkerQuarantine
  <1> QED
    BY <1>1, <1>2, <1>3, <1>4, <1>5 DEF SlotWrites

\* Without a shutdown no process begins to stop.
LEMMA NobodyStops ==
  ASSUME stopping = {}, "shutdown" \notin FaultKinds, [Next]_vars
  PROVE  stopping' = {}
  <1>1. ASSUME NEW i \in Intents,
               \/ Enqueue(i) \/ Elapse(i) \/ RetryPrepare(i) \/ RetryForward(i) \/ Cleanup(i)
               \/ BullStep(i) \/ IntentFault(i)
        PROVE  UNCHANGED stopping
    BY <1>1 DEF Enqueue, Elapse, RetryPrepare, RetryForward, Cleanup, CancelUnconsumed,
                DeleteTerminalOutbox, DeleteExpiredKey, BullStep, JobStalls, JobRemoved,
                IntentFault, LockLost, RetryForwardFails
  <1>2. ASSUME NEW n \in Nodes, DispatchStep(n)
        PROVE  UNCHANGED stopping
    BY <1>2 DEF DispatchStep, DispatchClaim, DispatchRelease, DispatchReject, DispatchPublish,
                DispatchDeadLetter, DispatchMark
  <1>3. ASSUME NEW n \in Nodes, WorkerStep(n)
        PROVE  UNCHANGED stopping
    BY <1>3 DEF WorkerStep, RunEnds, WorkerLoad, WorkerClaim, HandlerReturns, HandlerThrows,
                HandlerTimesOut, WorkerComplete, WorkerRelease, WorkerRecordRetry, WorkerFail,
                WorkerQuarantine, WorkerDeadLetter, WorkerAck
  <1>4. ASSUME NEW n \in Nodes, Restart(n) \/ NodeFault(n)
        PROVE  stopping' = {}
    BY <1>4 DEF Restart, NodeFault, Crash, Vanish, BeginShutdown, DispatchAbort, WorkerDbError,
                Fault
  <1>5. ASSUME NEW n \in Nodes, NEW i \in Intents, WorkerTake(n, i) \/ WorkerRefuse(n, i)
        PROVE  UNCHANGED stopping
    BY <1>5 DEF WorkerTake, WorkerRefuse
  <1>6. CASE RedisLoss \/ UNCHANGED vars
    BY <1>6 DEF RedisLoss, vars
  <1> QED
    BY <1>1, <1>2, <1>3, <1>4, <1>5, <1>6 DEF Next

\* Every step keeps pending rows unpublished.
LEMMA NextPublished ==
  ASSUME RoughDelivery, TypeOK, Known, Published, [Next]_vars
  PROVE  Published'
  <1>1. stopping' = {}
    BY NobodyStops DEF Published, RoughDelivery
  <1>2. ASSUME NEW k \in Intents, outbox'[k] = "pending"
        PROVE  outbox[k] \in {"none", "pending"}
    <2>1. \A n \in Nodes : Handles(n)
      BY DEF RoughDelivery, Published, Handles
    <2>2. CASE Environment
      BY <1>2, <2>1, <2>2 DEF Environment, EnvRow, EnvCalm, Exists
    <2>3. CASE \E n \in Nodes : SlotOnly(n)
      BY <1>2, <2>3 DEF SlotOnly
    <2> QED
      BY <1>2, <2>2, <2>3, NextShape, WritesLeavePending
  <1>3. ASSUME NEW k \in Intents, outbox'[k] = "pending"
        PROVE  /\ job'[k].state = "none" /\ ~Busy(k)'
               /\ \A n \in Nodes : k \notin disp'[n].batch
    <2>1. job[k].state = "none" /\ ~Busy(k) /\ \A n \in Nodes : k \notin disp[n].batch
      BY <1>2, <1>3 DEF Published, Known, JobsKnown, SlotsKnown, BatchesKnown, Busy
    <2> QED
      BY <1>3, <2>1, Untouched
  <1> QED
    BY <1>1, <1>3 DEF Published

\* Slot n took the replay key of row i and has not settled it yet.
Holds(n, i) == work[n].intent = i /\ work[n].pc \in {"run", "complete", "release", "fail"}

\* As long as an intent is open its key is in processing or quarantined when a slot
\* holds it or an execution of it ended in an unknown way; a key in processing has at
\* most one holder, and none after such an end; and the key is not failed.
KeyHeld(i) ==
    outbox[i] \in Open =>
       /\ idem[i] # "failed"
       /\ \A n \in Nodes : Holds(n, i) => idem[i] \in {"processing", "reconciliation_required"}
       /\ i \in ambiguous => idem[i] \in {"processing", "reconciliation_required"}
       /\ idem[i] = "processing" =>
             \A n \in Nodes : Holds(n, i) =>
                 i \notin ambiguous /\ \A m \in Nodes : Holds(m, i) => m = n

KeysHeld ==
    /\ \A i \in ambiguous : outbox[i] # "none"
    /\ \A i \in Intents : KeyHeld(i)

\* The environment leaves the keys held.
LEMMA EnvironmentKeys ==
  ASSUME RoughDelivery, TypeOK, Known, KeysHeld, Environment
  PROVE  KeysHeld'
  <1>1. ambiguous \subseteq Intents /\ ambiguous' \subseteq ambiguous /\ work' = work
    BY DEF TypeOK, SetsOK, Environment
  <1>2. ASSUME NEW k \in Intents PROVE ~(retries[k] < MaxRetries)
    BY ConstantsAssumption DEF RoughDelivery, TypeOK, SetsOK
  <1>3. ASSUME NEW k \in Intents PROVE KeyHeld(k)'
    <2>1. EnvRow(k)
      BY DEF Environment
    <2>2. outbox[k] = "none" => /\ idem[k] = "none" /\ k \notin ambiguous
                                /\ \A n \in Nodes : ~Holds(n, k)
      BY DEF Known, RowsKnown, SlotsKnown, KeysHeld, Holds
    <2>3. outbox'[k] \in Open =>
             idem'[k] = idem[k] /\ (outbox[k] \in Open \/ outbox[k] = "none")
      BY <1>2, <2>1 DEF EnvRow, EnvCalm, Open, Exists, PrunableKey, OutboxStatus
    <2>4. \A n \in Nodes : Holds(n, k)' <=> Holds(n, k)
      BY <1>1 DEF Holds
    <2> QED
      BY <1>1, <2>2, <2>3, <2>4 DEF KeysHeld, KeyHeld
  <1>4. ASSUME NEW k \in ambiguous' PROVE outbox'[k] # "none"
    <2>1. k \in Intents /\ outbox[k] # "none" /\ EnvRow(k)
      BY <1>1 DEF Environment, KeysHeld
    <2> QED
      BY <2>1 DEF EnvRow, EnvCalm, Open
  <1> QED
    BY <1>3, <1>4 DEF KeysHeld

\* So does a slot that only moves.
LEMMA SlotOnlyKeys ==
  ASSUME RoughDelivery, TypeOK, Known, Published, KeysHeld, NEW n \in Nodes, SlotOnly(n)
  PROVE  KeysHeld'
  <1> DEFINE i == work[n].intent
  <1>0. WorkOK /\ UNCHANGED <<outbox, idem>> /\ ambiguous \subseteq Intents
    BY DEF TypeOK, SetsOK, SlotOnly
  <1>i. work[n].pc # "idle" => i \in Intents /\ outbox[i] \notin {"none", "pending"}
    BY BusyRow DEF Known, SlotsKnown, Published, Busy
  <1>f. ~Fault("db") /\ n \in Equipped
    BY DEF Fault, RoughDelivery
  <1> HIDE DEF i
  <1>1. ASSUME UNCHANGED ambiguous,
               \A m \in Nodes, k \in Intents :
                  Holds(m, k)' => Holds(m, k) \/ outbox[k] \notin Open
        PROVE  KeysHeld'
    BY <1>0, <1>1 DEF KeysHeld, KeyHeld
  <1>2. ASSUME NEW pc, SlotGoes(n, pc), UNCHANGED ambiguous,
               \/ pc \notin {"run", "complete", "release", "fail"}
               \/ work[n].pc = "run"
               \/ outbox[i] \notin Open
        PROVE  KeysHeld'
    <2>1. \A m \in Nodes, k \in Intents : Holds(m, k)' => Holds(m, k) \/ outbox[k] \notin Open
      BY <1>2 DEF SlotGoes, Holds, i
    <2> QED
      BY <1>1, <1>2, <2>1
  <1>3. ASSUME work[n].pc \in {"run", "complete"}, ambiguous' = ambiguous \cup {i},
               \A m \in Nodes, k \in Intents : Holds(m, k)' => Holds(m, k) /\ m # n
        PROVE  KeysHeld'
    <2>1. Holds(n, i)
      BY <1>3 DEF Holds, i
    <2> QED
      BY <1>0, <1>3, <1>i, <2>1 DEF KeysHeld, KeyHeld
  <1>4. ASSUME work[n].pc = "run", SlotGoes(n, "quarantine"), ambiguous' = ambiguous \cup {i}
        PROVE  KeysHeld'
    BY <1>3, <1>4 DEF SlotGoes, Holds
  <1>5. ASSUME work' = [work EXCEPT ![n] = Idle],
               \/ UNCHANGED ambiguous
               \/ ambiguous' = IF work[n].pc \in {"run", "complete"}
                               THEN ambiguous \cup {i} ELSE ambiguous
        PROVE  KeysHeld'
    <2>1. \A m \in Nodes, k \in Intents : Holds(m, k)' => Holds(m, k) /\ m # n
      BY <1>0, <1>5, IdleValue DEF Holds
    <2> QED
      BY <1>1, <1>3, <1>5, <2>1
  <1>6. ASSUME NEW k \in Intents, WorkerTake(n, k), UNCHANGED ambiguous
        PROVE  KeysHeld'
    <2>1. \A m \in Nodes, j \in Intents : Holds(m, j)' => Holds(m, j)
      BY <1>6, TakeValue DEF Holds
    <2> QED
      BY <1>1, <1>6, <2>1
  <1>7. work[n].pc = "load" /\ outbox[i] \in {"pending", "failed", "cancelled"} => outbox[i] \notin Open
    BY <1>i DEF Open
  <1> QED
    BY <1>2, <1>4, <1>5, <1>6, <1>7, <1>f DEF SlotOnly, i

\* So does a statement of a worker.
LEMMA SlotWritesKeys ==
  ASSUME TypeOK, Known, KeysHeld, NEW n \in Nodes, SlotWrites(n)
  PROVE  KeysHeld'
  <1>0. RowsOK /\ WorkOK /\ idem \in [Intents -> IdemStatus] /\ ambiguous \subseteq Intents
    BY DEF TypeOK, SetsOK
  <1>w. work[n].pc # "idle" /\ work[n].intent \in Intents
    BY BusyRow
       DEF SlotWrites, WorkerClaim, WorkerComplete, WorkerRelease, WorkerFail, WorkerQuarantine
  <1> PICK i \in Intents : i = work[n].intent
    BY <1>w
  <1>i. /\ work[n].pc # "idle" /\ i = work[n].intent
        /\ outbox[i] # "none" /\ UNCHANGED ambiguous
    BY <1>w
       DEF SlotWrites, WorkerClaim, WorkerComplete, WorkerRelease, WorkerFail, WorkerQuarantine,
           history, Known, SlotsKnown
  <1>1. ASSUME NEW pc, SlotGoes(n, pc), KeyHeld(i)',
               \A k \in Intents \ {i} : outbox'[k] = outbox[k] /\ idem'[k] = idem[k],
               outbox'[i] # "none"
        PROVE  KeysHeld'
    <2>1. \A m \in Nodes, k \in Intents \ {i} : Holds(m, k)' <=> Holds(m, k)
      BY <1>1 DEF SlotGoes, Holds
    <2> QED
      BY <1>0, <1>1, <1>i, <2>1 DEF KeysHeld, KeyHeld
  <1>2. CASE WorkerClaim(n)
    <2>1. \/ SlotGoes(n, "ack") /\ idem'[i] = idem[i] /\ idem[i] = "completed"
             /\ outbox'[i] \in {outbox[i], "completed"}
          \/ SlotGoes(n, "quarantine") /\ outbox'[i] = outbox[i]
             /\ idem'[i] = "reconciliation_required"
          \/ SlotGoes(n, "run") /\ outbox'[i] = outbox[i] /\ idem'[i] = "processing"
             /\ idem[i] \in {"none", "pending", "failed"}
      BY <1>0, <1>2, <1>i, SetIdemIfValue, SetOutboxIfValue, FinishValue, QuarantineValue,
         GotoValue DEF WorkerClaim, WorkPC
    <2>2. \A k \in Intents \ {i} : outbox'[k] = outbox[k] /\ idem'[k] = idem[k]
      BY <1>0, <1>2, <1>i, SetIdemIfValue, SetOutboxIfValue DEF WorkerClaim
    <2>3. work[n].pc = "claim"
      BY <1>2 DEF WorkerClaim
    <2>4. KeyHeld(i)'
      <3>1. KeyHeld(i)
        BY <1>i DEF KeysHeld
      <3>2. CASE SlotGoes(n, "run")
        <4>1. \A m \in Nodes : Holds(m, i)' <=> Holds(m, i) \/ m = n
          BY <3>2 DEF SlotGoes, Holds
        <4>2. /\ outbox'[i] = outbox[i] /\ idem'[i] = "processing"
              /\ idem[i] \in {"none", "pending", "failed"}
          BY <2>1, <3>2 DEF SlotGoes
        <4> QED
          BY <1>i, <3>1, <4>1, <4>2 DEF KeyHeld
      <3>3. CASE ~SlotGoes(n, "run")
        <4>1. \A m \in Nodes : Holds(m, i)' => Holds(m, i)
          BY <2>1, <3>3 DEF SlotGoes, Holds
        <4>2. \/ outbox'[i] = outbox[i] /\ idem'[i] = "reconciliation_required"
              \/ idem'[i] = idem[i] /\ outbox'[i] \in {outbox[i], "completed"}
          BY <2>1, <3>3
        <4> QED
          BY <1>i, <3>1, <4>1, <4>2 DEF KeyHeld, Open
      <3> QED
        BY <3>2, <3>3
    <2>5. outbox'[i] # "none"
      BY <1>i, <2>1
    <2> QED
      BY <1>1, <2>1, <2>2, <2>4, <2>5
  <1>3. CASE WorkerComplete(n)
    <2>1. outbox'[i] \notin Open /\ outbox'[i] # "none" /\ SlotGoes(n, "ack")
      BY <1>0, <1>3, <1>i, SetOutboxIfValue, FinishValue
         DEF WorkerComplete, completeExecution, Open, Exists, RowsOK, OutboxStatus
    <2>2. \A k \in Intents \ {i} : outbox'[k] = outbox[k] /\ idem'[k] = idem[k]
      BY <1>0, <1>3, <1>i, SetIdemIfValue, SetOutboxIfValue
         DEF WorkerComplete, completeExecution
    <2> QED
      BY <1>1, <2>1, <2>2 DEF KeyHeld
  <1>4. CASE WorkerRelease(n)
    <2>1. \A k \in Intents : /\ outbox'[k] = outbox[k]
                             /\ idem'[k] = IF k = i /\ idem[k] = "processing"
                                           THEN "pending" ELSE idem[k]
      BY <1>0, <1>4, <1>i, SetIdemIfValue DEF WorkerRelease, releaseExecution
    <2>2. SlotGoes(n, "record")
      BY <1>0, <1>4, GotoValue DEF WorkerRelease, WorkPC
    <2>3. Holds(n, i) /\ KeyHeld(i)
      BY <1>4, <1>i DEF WorkerRelease, Holds, KeysHeld
    <2>4. \A m \in Nodes : Holds(m, i)' => Holds(m, i) /\ m # n
      BY <2>2 DEF SlotGoes, Holds
    <2>5. KeyHeld(i)'
      BY <1>i, <2>1, <2>3, <2>4 DEF KeyHeld
    <2> QED
      BY <1>1, <1>i, <2>1, <2>2, <2>5
  <1>5. CASE WorkerFail(n) \/ WorkerQuarantine(n)
    <2>1. \A k \in Intents :
             /\ outbox'[k] = IF k = i /\ outbox[i] \in Exists \ {"completed"}
                             THEN "failed" ELSE outbox[k]
             /\ k # i => idem'[k] = idem[k]
      BY <1>5, <1>i, MarkFailedExact, RequireReconciliationExact
         DEF WorkerFail, WorkerQuarantine
    <2>2. SlotGoes(n, "deadLetter")
      BY <1>0, <1>5, GotoValue DEF WorkerFail, WorkerQuarantine, WorkPC
    <2>3. outbox'[i] \notin Open /\ outbox'[i] # "none"
      BY <1>i, <2>1 DEF Open, Exists, OutboxStatus
    <2> QED
      BY <1>1, <2>1, <2>2, <2>3 DEF KeyHeld
  <1> QED
    BY <1>2, <1>3, <1>4, <1>5 DEF SlotWrites

\* Expired locks, redeliveries, a forgetful Redis and crashes neither overlap a run of
\* an open intent nor resend one with an unknown outcome: the replay key alone keeps
\* the other workers out.
THEOREM RunsAreNotOverlapped ==
  ASSUME RoughDelivery
  PROVE  Spec => NeverOverlappedOrResent
  <1>1. Init => Published /\ KeysHeld
    BY DEF Init, Published, KeysHeld, KeyHeld, Holds, Open
  <1>2. TypeOK /\ Known /\ Published /\ KeysHeld /\ [Next]_vars => Published' /\ KeysHeld'
    BY NextShape, NextPublished, EnvironmentKeys, SlotOnlyKeys, SlotWritesKeys
  <1>3. TypeOK /\ KeysHeld /\ [Next]_vars =>
          [\A i \in Intents : outbox[i] \in Open =>
              \A n \in Nodes : Starts(n, i) =>
                 /\ i \notin ambiguous
                 /\ \A m \in Nodes : Running(m, i) => retries[i] > 0]_vars
    <2> SUFFICES ASSUME TypeOK, KeysHeld, [Next]_vars,
                        NEW n \in Nodes, NEW i \in Intents, Starts(n, i), outbox[i] \in Open
                 PROVE  i \notin ambiguous /\ \A m \in Nodes : ~Running(m, i)
      OBVIOUS
    <2> QED
      BY StartsByClaim DEF KeysHeld, KeyHeld, Holds, Running
  <1> QED
    BY <1>1, <1>2, <1>3, TypeCorrect, KnownAlways, PTL DEF Spec, NeverOverlappedOrResent

----------------------------------------------------------------------------
(* The pipeline implements JobPromise where delivery is exclusive.           *)

\* The phase of an intent, read off its row and its key.
PhaseTable(k) ==
    /\ outbox[k] = "none" => Phase(k) = "absent"
    /\ outbox[k] = "failed" => Phase(k) = "dead"
    /\ outbox[k] = "cancelled" => Phase(k) = "withdrawn"
    /\ outbox[k] = "completed" => Phase(k) = "done"
    /\ outbox[k] = "deleted" => Phase(k) = IF k \in Unconsumed THEN "withdrawn" ELSE "done"
    /\ outbox[k] \in Open => Phase(k) = IF idem[k] = "processing" THEN "executing"
                                       ELSE "accepted"

\* Before and after any step.
LEMMA PhaseReads ==
  ASSUME NEW k \in Intents
  PROVE  PhaseTable(k) /\ PhaseTable(k)'
  BY DEF PhaseTable, Phase, ClosedPhase, Open

\* The moves JobPromise allows an intent.
PhaseMoves(i) ==
    \/ Phase(i) = "absent" /\ Phase(i)' = "accepted"
    \/ Phase(i) = "accepted" /\ Phase(i)' \in {"executing", "dead", "withdrawn"}
    \/ Phase(i) = "executing" /\ Phase(i)' \in {"accepted", "done", "dead"}
    \/ Phase(i) = "dead" /\ Phase(i)' = "accepted"

\* At most one intent moves.
PhasesStep ==
    \/ \A k \in Intents : Phase(k)' = Phase(k)
    \/ \E i \in Intents : /\ PhaseMoves(i)
                           /\ \A k \in Intents \ {i} : Phase(k)' = Phase(k)

\* An intent whose row and key stay keeps its phase.
LEMMA PhaseStays ==
  ASSUME NEW k \in Intents, outbox'[k] = outbox[k], idem'[k] = idem[k]
  PROVE  Phase(k)' = Phase(k)
  BY DEF Phase

\* The environment accepts, buries, revives or withdraws one intent at a time.
LEMMA EnvironmentMoves ==
  ASSUME TypeOK, Known, Environment
  PROVE  PhasesStep
  <1>1. ASSUME NEW k \in Intents, EnvCalm(k)
        PROVE  Phase(k)' = Phase(k)
    <2>1. CASE outbox'[k] = outbox[k] /\ idem'[k] = idem[k]
      BY <2>1, PhaseStays
    <2>2. CASE outbox[k] \in Open /\ outbox'[k] \in Open /\ idem'[k] = idem[k]
      BY <2>2, PhaseReads DEF PhaseTable, Open
    <2> QED
      BY <1>1, <2>1, <2>2 DEF EnvCalm
  <1>2. ASSUME NEW k \in Intents
        PROVE  PhaseMoves(k) \/ Phase(k)' = Phase(k)
    <2>1. EnvRow(k) /\ outbox[k] \in OutboxStatus
      BY DEF Environment, TypeOK, RowsOK
    <2>2. /\ idem[k] = "processing" => k \in Valid /\ k \notin Unconsumed /\ outbox[k] # "none"
          /\ outbox[k] = "completed" => k \notin Unconsumed
          /\ outbox[k] = "cancelled" => k \in Unconsumed
      BY DEF Known, RowsKnown, Consumed
    <2>3. CASE outbox[k] = "none" /\ outbox'[k] = "pending" /\ idem'[k] = idem[k]
      BY <2>2, <2>3, PhaseReads DEF PhaseMoves, PhaseTable, Open
    <2>4. CASE /\ k \notin Valid /\ k \notin Unconsumed /\ outbox[k] # "none"
               /\ outbox'[k] = IF outbox[k] \in Exists \ {"completed"} THEN "failed"
                               ELSE outbox[k]
      BY <2>1, <2>2, <2>4, PhaseReads
         DEF PhaseMoves, PhaseTable, Open, Exists, OutboxStatus
    <2>5. CASE /\ \/ outbox[k] = "failed"
                  \/ outbox[k] = "dispatched" /\ idem[k] = "pending"
               /\ outbox'[k] = "dispatched" /\ idem'[k] = "pending"
      BY <2>5, PhaseReads DEF PhaseMoves, PhaseTable, Open
    <2>6. CASE /\ outbox[k] \in Open /\ outbox'[k] = "cancelled" /\ k \in Unconsumed
               /\ idem'[k] = idem[k]
      BY <2>2, <2>6, PhaseReads DEF PhaseMoves, PhaseTable, Open
    <2>7. CASE /\ outbox[k] \in {"completed", "cancelled"} /\ outbox'[k] = "deleted"
               /\ idem'[k] = idem[k]
      BY <2>2, <2>7, PhaseReads DEF PhaseTable, Open
    <2>8. CASE PrunableKey(k) /\ outbox'[k] = outbox[k] /\ idem'[k] = "none"
      <3>1. outbox[k] \in {"none", "deleted", "cancelled", "completed"}
        BY <2>1, <2>8 DEF PrunableKey, Exists
      <3> QED
        BY <2>8, <3>1, PhaseReads DEF PhaseTable, Open
    <2> QED
      BY <1>1, <2>1, <2>3, <2>4, <2>5, <2>6, <2>7, <2>8 DEF EnvRow
  <1>3. \A j, k \in Intents : j = k \/ EnvCalm(j) \/ EnvCalm(k)
    BY DEF Environment
  <1> QED
    BY <1>1, <1>2, <1>3 DEF PhasesStep

\* A worker's statement starts, gives back, finishes or buries the intent of its slot.
LEMMA SlotWritesMoves ==
  ASSUME TypeOK, Known, SlotsHold, NoPoisonedKey, NEW n \in Nodes, SlotWrites(n)
  PROVE  PhasesStep
  <1>0. RowsOK /\ WorkOK /\ idem \in [Intents -> IdemStatus]
    BY DEF TypeOK
  <1>i. work[n].pc # "idle" /\ work[n].intent \in Consumed
    BY DEF SlotWrites, WorkerClaim, WorkerComplete, WorkerRelease, WorkerFail,
           WorkerQuarantine, Known, SlotsKnown
  <1> PICK i \in Intents : i = work[n].intent
    BY <1>i, ConsumedIntents
  <1>j. outbox[i] \in OutboxStatus \ {"cancelled"} /\ outbox[i] # "none"
    BY <1>0, <1>i DEF Known, SlotsKnown, RowsKnown, RowsOK, Consumed
  <1>k. SUFFICES /\ PhaseMoves(i) \/ Phase(i)' = Phase(i)
                 /\ \A k \in Intents \ {i} : outbox'[k] = outbox[k] /\ idem'[k] = idem[k]
    BY PhaseStays DEF PhasesStep
  <1>1. CASE WorkerClaim(n)
    <2>1. outbox[i] \in Open /\ idem[i] # "completed"
      BY <1>1 DEF WorkerClaim, SlotsHold, NoPoisonedKey, Open
    <2>2. \A k \in Intents : outbox'[k] = outbox[k] /\ (k # i => idem'[k] = idem[k])
      BY <1>0, <1>1, <2>1, SetIdemIfValue DEF WorkerClaim
    <2>3. idem'[i] \in {"reconciliation_required", "processing"}
      BY <1>0, <1>1, <2>1, SetIdemIfValue DEF WorkerClaim
    <2>4. PhaseMoves(i) \/ Phase(i)' = Phase(i)
      BY <2>1, <2>2, <2>3, PhaseReads DEF PhaseMoves, PhaseTable, Open
    <2> QED
      BY <2>2, <2>4
  <1>2. CASE WorkerComplete(n)
    <2>1. outbox[i] \in Open /\ idem[i] = "processing"
      BY <1>2 DEF WorkerComplete, SlotsHold
    <2>2. \A k \in Intents \ {i} : outbox'[k] = outbox[k] /\ idem'[k] = idem[k]
      BY <1>0, <1>2, SetIdemIfValue, SetOutboxIfValue DEF WorkerComplete, completeExecution
    <2>3. outbox'[i] = "completed"
      BY <1>0, <1>2, <2>1, SetOutboxIfValue
         DEF WorkerComplete, completeExecution, Open, Exists, OutboxStatus
    <2>4. PhaseMoves(i)
      BY <2>1, <2>3, PhaseReads DEF PhaseMoves, PhaseTable, Open
    <2> QED
      BY <2>2, <2>4
  <1>3. CASE WorkerRelease(n)
    <2>1. \A k \in Intents : /\ outbox'[k] = outbox[k]
                             /\ idem'[k] = IF k = i /\ idem[k] = "processing"
                                           THEN "pending" ELSE idem[k]
      BY <1>0, <1>3, SetIdemIfValue DEF WorkerRelease, releaseExecution
    <2>2. PhaseMoves(i) \/ Phase(i)' = Phase(i)
      BY <1>j, <2>1, PhaseReads DEF PhaseMoves, PhaseTable, Open, OutboxStatus
    <2> QED
      BY <2>1, <2>2
  <1>4. CASE WorkerFail(n)
    <2>1. \A k \in Intents :
             /\ outbox'[k] = IF k = i /\ outbox[i] \in Exists \ {"completed"}
                             THEN "failed" ELSE outbox[k]
             /\ k # i => idem'[k] = idem[k]
      BY <1>4, MarkFailedExact DEF WorkerFail
    <2>2. PhaseMoves(i) \/ Phase(i)' = Phase(i)
      BY <1>j, <2>1, PhaseReads DEF PhaseMoves, PhaseTable, Open, OutboxStatus, Exists
    <2> QED
      BY <2>1, <2>2
  <1>5. CASE WorkerQuarantine(n)
    <2>1. \A k \in Intents :
             /\ outbox'[k] = IF k = i /\ outbox[i] \in Exists \ {"completed"}
                             THEN "failed" ELSE outbox[k]
             /\ k # i => idem'[k] = idem[k]
      BY <1>5, RequireReconciliationExact DEF WorkerQuarantine
    <2>2. PhaseMoves(i) \/ Phase(i)' = Phase(i)
      BY <1>j, <2>1, PhaseReads DEF PhaseMoves, PhaseTable, Open, OutboxStatus, Exists
    <2> QED
      BY <2>1, <2>2
  <1> QED
    BY <1>1, <1>2, <1>3, <1>4, <1>5 DEF SlotWrites

\* A step of phases is a step of JobPromise, or none.
LEMMA PhasesStepIsPromised ==
  ASSUME PhasesStep
  PROVE  [Promise!Next]_[i \in Intents |-> Phase(i)]
  <1> DEFINE phases == [i \in Intents |-> Phase(i)]
  <1>1. CASE \A k \in Intents : Phase(k)' = Phase(k)
    BY <1>1
  <1>2. ASSUME NEW i \in Intents, PhaseMoves(i),
               \A k \in Intents \ {i} : Phase(k)' = Phase(k)
        PROVE  Promise!Next
    <2>1. phases' = [phases EXCEPT ![i] = Phase(i)']
      BY <1>2
    <2>2. phases[i] = Phase(i)
      OBVIOUS
    <2> HIDE DEF phases
    <2>3. \A from, to : Phase(i) = from /\ Phase(i)' = to => Promise!Move(i, from, to)
      BY <2>1, <2>2 DEF Promise!Move, phases
    <2> QED
      BY <1>2, <2>3
         DEF PhaseMoves, Promise!Next, Promise!Accept, Promise!Start, Promise!GiveBack,
             Promise!Finish, Promise!Bury, Promise!Revive, Promise!Withdraw
  <1> QED
    BY <1>1, <1>2 DEF PhasesStep

\* Without expired locks and without a loss of Redis, whatever crashes, shuts down,
\* throws or fails and whatever an operator reopens, every behaviour of the pipeline is
\* one of JobPromise: one run at a time, what is done stays done, and only an operator
\* revives what is dead.
THEOREM PipelineKeepsPromise ==
  ASSUME ExclusiveDelivery
  PROVE  Spec => KeepsPromise
  <1>1. Init => Promise!Init
    BY DEF Init, Promise!Init, Phase, ClosedPhase, Open
  <1>2. TypeOK /\ Known /\ Exclusive /\ [Next]_vars =>
          [Promise!Next]_[i \in Intents |-> Phase(i)]
    <2>1. ASSUME NEW n \in Nodes, SlotOnly(n)
          PROVE  PhasesStep
      BY <2>1, PhaseStays DEF SlotOnly, PhasesStep
    <2> QED
      BY <2>1, NextShape, EnvironmentMoves, SlotWritesMoves, PhasesStepIsPromised DEF Exclusive
  <1> QED
    BY <1>1, <1>2, ExclusiveAlways, TypeCorrect, KnownAlways, PTL
       DEF Spec, KeepsPromise, Promise!Spec
=============================================================================
