----------------------------- MODULE JobOutbox -----------------------------
(***************************************************************************)
(* The durable job pipeline of the API: a producer commits a job_outbox    *)
(* row, dispatchers publish it to BullMQ, workers execute it under the     *)
(* job_idempotency replay key, an operator may reopen a failed intent and  *)
(* a maintenance sweep retires what is finished.                           *)
(*                                                                         *)
(* PostgreSQL statements and transactions are single steps.  Everything    *)
(* between two awaits of the TypeScript code is a separate step, so nodes  *)
(* interleave, crash and time out wherever the code awaits.                *)
(***************************************************************************)
EXTENDS Naturals, FiniteSets

CONSTANTS
    Intents,        \* job_outbox rows (each has its own idempotency key)
    Nodes,          \* API processes; each has a dispatcher loop and a worker slot
    NoNode,         \* owner of a Bull job nobody holds
    NoIntent,       \* the intent of an idle worker or dispatcher
    Valid,          \* intents whose payload parses and matches payload_hash
    Unconsumed,     \* intents whose job type is declared consumer: "none"
    Equipped,       \* nodes whose registry holds a handler for the job type
    MaxAttempts,    \* attempts stamped on the Bull job
    MaxStalled,     \* BullMQ maxStalledCount
    BatchSize,      \* rows one dispatch cycle claims at most
    FaultKinds,     \* environment faults this instance admits
    MaxFaults,      \* bound: how many faults one behaviour contains
    MaxRetries      \* bound: operator retries per intent

AllFaultKinds == {"crash", "shutdown", "abort", "db", "redis", "lock"}

ASSUME ConstantsAssumption ==
    /\ Valid \subseteq Intents
    /\ Unconsumed \subseteq Intents
    /\ Equipped \subseteq Nodes
    /\ NoNode \notin Nodes
    /\ NoIntent \notin Intents
    /\ MaxAttempts \in Nat \ {0}
    /\ MaxStalled \in Nat
    /\ BatchSize \in Nat \ {0}
    /\ FaultKinds \subseteq AllFaultKinds
    /\ MaxFaults \in Nat
    /\ MaxRetries \in Nat

VARIABLES
    outbox,       \* job_outbox.status; "none" before the insert, "deleted" after it
    due,          \* whether the window the row's next transition waits for elapsed
    idem,         \* job_idempotency.status; "none" when there is no row
    job,          \* the BullMQ job whose id is the outbox row id
    deadLetters,  \* intents with a dlq-<id> record on the dead-letter queue
    stopping,     \* nodes that began their graceful shutdown
    disp,         \* what each node's dispatcher loop is doing
    work,         \* what each node's worker slot is doing
    forwarding,   \* intents whose operator retry is committed, not yet forwarded
    faults,       \* faults injected so far
    retries,      \* operator retries committed per intent
    returned,     \* history: intents whose handler returned normally
    ambiguous     \* history: executions that ended with an unknown outcome and
                  \* that no operator has looked at since

vars == <<outbox, due, idem, job, deadLetters, stopping, disp, work,
          forwarding, faults, retries, returned, ambiguous>>

history == <<returned, ambiguous>>
database == <<outbox, due, idem>>

OutboxStatus == {"none", "pending", "dispatching", "dispatched",
                 "completed", "failed", "cancelled", "deleted"}
IdemStatus == {"none", "pending", "processing", "completed", "failed",
               "reconciliation_required"}
JobState == {"none", "waiting", "active", "completed", "failed"}

BullJob == [state : JobState, made : 0..MaxAttempts, stalls : 0..MaxStalled,
            owner : Nodes \cup {NoNode}]
NotQueued == [state |-> "none", made |-> 0, stalls |-> 0, owner |-> NoNode]

WorkPC == {"idle", "load", "claim", "run", "complete", "release", "record",
           "fail", "quarantine", "deadLetter", "ack"}
Outcomes == {"done", "error", "unrecoverable"}  \* how process() ends for BullMQ
Work == [pc : WorkPC, intent : Intents \cup {NoIntent}, attempt : 0..MaxAttempts + 1,
         outcome : Outcomes]
Idle == [pc |-> "idle", intent |-> NoIntent, attempt |-> 0, outcome |-> "done"]

DispPC == {"idle", "row", "mark", "deadLetter"}
Disp == [pc : DispPC, batch : SUBSET Intents, cur : Intents \cup {NoIntent}]
NotDispatching == [pc |-> "idle", batch |-> {}, cur |-> NoIntent]

Init ==
    /\ outbox = [i \in Intents |-> "none"]
    /\ due = [i \in Intents |-> FALSE]
    /\ idem = [i \in Intents |-> "none"]
    /\ job = [i \in Intents |-> NotQueued]
    /\ deadLetters = {}
    /\ stopping = {}
    /\ disp = [n \in Nodes |-> NotDispatching]
    /\ work = [n \in Nodes |-> Idle]
    /\ forwarding = {}
    /\ faults = 0
    /\ retries = [i \in Intents |-> 0]
    /\ returned = {}
    /\ ambiguous = {}

----------------------------------------------------------------------------
(* Statements of queue-outbox.repository.ts, as state updates of one row.   *)

SetOutbox(i, status) ==
    /\ outbox' = [outbox EXCEPT ![i] = status]
    /\ due' = [due EXCEPT ![i] = FALSE]

\* An UPDATE whose WHERE clause admits the row only in one of these states.
SetOutboxIf(i, states, status) ==
    IF outbox[i] \in states
    THEN SetOutbox(i, status)
    ELSE UNCHANGED <<outbox, due>>

SetIdemIf(i, states, status) ==
    idem' = [idem EXCEPT ![i] = IF @ \in states THEN status ELSE @]

\* Rows whose intent is not settled yet.
Open == {"pending", "dispatching", "dispatched"}

\* Mutant: no stale-claim arms, a claimed row is never reclaimed.
ClaimableOnce(i) ==
    /\ i \notin Unconsumed
    /\ outbox[i] = "pending"
    /\ due[i]

Claimable(i) ==
    /\ i \notin Unconsumed
    /\ outbox[i] \in Open
    /\ due[i]

ClaimableRows == {i \in Intents : Claimable(i)}

\* Rows that still exist: every guard below that updates by id needs one.
Exists == OutboxStatus \ {"none", "deleted"}

releaseUnhandled(i) == SetOutboxIf(i, {"dispatching"}, "pending")
markDispatched(i)   == SetOutboxIf(i, {"dispatching"}, "dispatched")

\* Only updated_at moves, which is the clock of a dispatched row; the clock of a
\* dispatching one is locked_at.
recordRetry(i) == SetOutboxIf(i, {"dispatched"}, "dispatched")

markFailed(i) ==
    /\ idem' = [idem EXCEPT ![i] =
                   IF @ \in {"completed", "reconciliation_required"}
                   THEN @ ELSE "failed"]
    /\ SetOutboxIf(i, Exists \ {"completed"}, "failed")

requireReconciliation(i) ==
    /\ SetIdemIf(i, IdemStatus \ {"none", "completed"}, "reconciliation_required")
    /\ SetOutboxIf(i, Exists \ {"completed"}, "failed")

releaseExecution(i) == SetIdemIf(i, {"processing"}, "pending")

\* Mutant: only job_outbox learns of the completion.
completeOutboxOnly(i) ==
    /\ SetOutboxIf(i, Exists, "completed")
    /\ UNCHANGED idem

completeExecution(i) ==
    /\ SetIdemIf(i, {"processing"}, "completed")
    /\ SetOutboxIf(i, Exists, "completed")

----------------------------------------------------------------------------
(* Producers and the passage of time.                                       *)

Enqueue(i) ==
    /\ outbox[i] = "none"
    /\ outbox' = [outbox EXCEPT ![i] = "pending"]
    /\ due' = [due EXCEPT ![i] = i \notin Unconsumed]
    /\ UNCHANGED <<idem, job, deadLetters, stopping, disp, work, forwarding,
                   faults, retries, history>>

\* available_at, the stale windows of claimBatch and the retention of terminal
\* rows are one clock per row: a write restarts it, Elapse lets it run out.
Elapse(i) ==
    /\ outbox[i] \in Open \cup {"completed", "cancelled"}
    /\ ~due[i]
    /\ due' = [due EXCEPT ![i] = TRUE]
    /\ UNCHANGED <<outbox, idem, job, deadLetters, stopping, disp, work,
                   forwarding, faults, retries, history>>

----------------------------------------------------------------------------
(* The dispatcher loop: one cycle at a time per node (dispatchRunning).     *)

DispatchClaim(n) ==
    /\ disp[n] = NotDispatching
    /\ n \notin stopping
    /\ \E batch \in SUBSET ClaimableRows :
          /\ batch # {}
          /\ Cardinality(batch) <= BatchSize
          /\ batch = ClaimableRows \/ Cardinality(batch) = BatchSize
          /\ outbox' = [i \in Intents |->
                           IF i \in batch THEN "dispatching" ELSE outbox[i]]
          /\ due' = [i \in Intents |-> due[i] /\ i \notin batch]
          /\ disp' = [disp EXCEPT ![n] = [pc |-> "row", batch |-> batch,
                                          cur |-> NoIntent]]
    /\ UNCHANGED <<idem, job, deadLetters, stopping, work, forwarding, faults,
                   retries, history>>

\* The loop moves on to the rows of the batch after i.
AfterRow(n, i) ==
    disp' = [disp EXCEPT ![n] =
               IF disp[n].batch = {i} THEN NotDispatching
               ELSE [pc |-> "row", batch |-> disp[n].batch \ {i},
                     cur |-> NoIntent]]

AtRow(n, i) == disp[n].pc = "row" /\ i \in disp[n].batch
Handles(n) == n \notin stopping /\ n \in Equipped

DispatchRelease(n, i) ==
    /\ AtRow(n, i)
    /\ ~Handles(n)
    /\ releaseUnhandled(i)
    /\ AfterRow(n, i)
    /\ UNCHANGED <<idem, job, deadLetters, stopping, work, forwarding, faults,
                   retries, history>>

\* Mutant: a row that does not validate is skipped but not failed.
DispatchSkip(n, i) ==
    /\ AtRow(n, i)
    /\ Handles(n)
    /\ i \notin Valid
    /\ disp' = [disp EXCEPT ![n].pc = "deadLetter", ![n].cur = i]
    /\ UNCHANGED <<database, job, deadLetters, stopping, work, forwarding, faults,
                   retries, history>>

DispatchReject(n, i) ==
    /\ AtRow(n, i)
    /\ Handles(n)
    /\ i \notin Valid
    /\ markFailed(i)
    /\ disp' = [disp EXCEPT ![n].pc = "deadLetter", ![n].cur = i]
    /\ UNCHANGED <<job, deadLetters, stopping, work, forwarding, faults,
                   retries, history>>

DispatchDeadLetter(n) ==
    /\ disp[n].pc = "deadLetter"
    /\ deadLetters' = deadLetters \cup {disp[n].cur}
    /\ AfterRow(n, disp[n].cur)
    /\ UNCHANGED <<database, job, stopping, work, forwarding, faults, retries,
                   history>>

\* queue.add with jobId = row id does nothing when BullMQ still knows that id,
\* whatever state the known job is in.
DispatchPublish(n, i) ==
    /\ AtRow(n, i)
    /\ Handles(n)
    /\ i \in Valid
    /\ job' = [job EXCEPT ![i] =
                 IF @.state = "none" THEN [NotQueued EXCEPT !.state = "waiting"] ELSE @]
    /\ disp' = [disp EXCEPT ![n].pc = "mark", ![n].cur = i]
    /\ UNCHANGED <<database, deadLetters, stopping, work, forwarding, faults,
                   retries, history>>

DispatchMark(n) ==
    /\ disp[n].pc = "mark"
    /\ markDispatched(disp[n].cur)
    /\ AfterRow(n, disp[n].cur)
    /\ UNCHANGED <<idem, job, deadLetters, stopping, work, forwarding, faults,
                   retries, history>>

----------------------------------------------------------------------------
(* The worker: QueueWorkerProcessorService.process, one step per await.     *)

\* Every failure is counted; a counter past the limit changes nothing any more.
Failed(b) == [b EXCEPT !.made = IF @ < MaxAttempts THEN @ + 1 ELSE @,
                       !.state = "failed", !.owner = NoNode]

\* BullMQ records how an attempt ended, unless this node lost the job's lock.
BullOutcome(b, outcome) ==
    CASE outcome = "done"          -> [b EXCEPT !.state = "completed", !.owner = NoNode]
      [] outcome = "unrecoverable" -> Failed(b)
      [] outcome = "error"         ->
            [Failed(b) EXCEPT !.state = IF b.made + 1 < MaxAttempts
                                        THEN "waiting" ELSE "failed"]

Goto(n, pc) == work' = [work EXCEPT ![n].pc = pc]

\* process() is over; BullMQ is told in a step of its own.
Finish(n, outcome) ==
    work' = [work EXCEPT ![n].pc = "ack", ![n].outcome = outcome]

\* The catch block: a permanent error or the last attempt fails the intent, any
\* other error gives the replay key back for the next attempt.
HandleError(n, outcome) ==
    work' = [work EXCEPT
               ![n].pc = IF \/ outcome = "unrecoverable"
                            \/ work[n].attempt >= MaxAttempts
                         THEN "fail" ELSE "release",
               ![n].outcome = outcome]

Quarantine(n) ==
    work' = [work EXCEPT ![n].pc = "quarantine", ![n].outcome = "unrecoverable"]

WorkerTake(n, i) ==
    /\ work[n].pc = "idle"
    /\ n \notin stopping
    /\ job[i].state = "waiting"
    /\ job' = [job EXCEPT ![i].state = "active", ![i].owner = n]
    /\ work' = [work EXCEPT ![n] = [pc |-> "load", intent |-> i,
                                    attempt |-> job[i].made + 1,
                                    outcome |-> "done"]]
    /\ UNCHANGED <<database, deadLetters, stopping, disp, forwarding, faults,
                   retries, history>>

\* A job fetched while the process shuts down is failed without being looked at.
WorkerRefuse(n, i) ==
    /\ work[n].pc = "idle"
    /\ n \in stopping
    /\ job[i].state = "waiting"
    /\ job' = [job EXCEPT ![i] = Failed(@)]
    /\ UNCHANGED <<database, deadLetters, stopping, disp, work, forwarding,
                   faults, retries, history>>

\* Mutant: process() does not look at the status of the row it reads.
WorkerLoadAnyStatus(n) ==
    /\ work[n].pc = "load"
    /\ IF n \in Equipped THEN Goto(n, "claim") ELSE HandleError(n, "error")
    /\ UNCHANGED <<database, job, deadLetters, stopping, disp, forwarding, faults,
                   retries, history>>

WorkerLoad(n) ==
    LET i == work[n].intent IN
    /\ work[n].pc = "load"
    /\ \/ outbox[i] \notin Exists /\ Finish(n, "unrecoverable")
       \/ outbox[i] = "completed" /\ Finish(n, "done")
       \/ outbox[i] \in {"pending", "failed", "cancelled"}
             /\ HandleError(n, "unrecoverable")
       \/ /\ outbox[i] \in {"dispatching", "dispatched"}
          /\ IF n \in Equipped THEN Goto(n, "claim") ELSE HandleError(n, "error")
    /\ UNCHANGED <<database, job, deadLetters, stopping, disp, forwarding, faults,
                   retries, history>>

\* Mutant: the claim does not look at the status of the replay key.
WorkerClaimBlind(n) ==
    /\ work[n].pc = "claim"
    /\ SetIdemIf(work[n].intent, IdemStatus, "processing")
    /\ Goto(n, "run")
    /\ UNCHANGED <<outbox, due, job, deadLetters, stopping, disp, forwarding,
                   faults, retries, history>>

\* claimExecution, which commits before the handler starts.
WorkerClaim(n) ==
    LET i == work[n].intent IN
    /\ work[n].pc = "claim"
    /\ \/ /\ idem[i] = "completed"
          /\ SetOutboxIf(i, Exists, "completed")
          /\ Finish(n, "done")
          /\ UNCHANGED idem
       \/ /\ idem[i] \in {"processing", "reconciliation_required"}
          /\ SetIdemIf(i, IdemStatus, "reconciliation_required")
          /\ Quarantine(n)
          /\ UNCHANGED <<outbox, due>>
       \/ /\ idem[i] \in {"none", "pending", "failed"}
          /\ SetIdemIf(i, IdemStatus, "processing")
          /\ Goto(n, "run")
          /\ UNCHANGED <<outbox, due>>
    /\ UNCHANGED <<job, deadLetters, stopping, disp, forwarding, faults, retries,
                   history>>

HandlerReturns(n) ==
    /\ work[n].pc = "run"
    /\ Goto(n, "complete")
    /\ returned' = returned \cup {work[n].intent}
    /\ UNCHANGED <<database, job, deadLetters, stopping, disp, forwarding,
                   faults, retries, ambiguous>>

\* "unrecoverable": the handler threw a PermanentQueueJobError.
HandlerThrows(n) ==
    /\ work[n].pc = "run"
    /\ \E outcome \in {"error", "unrecoverable"} : HandleError(n, outcome)
    /\ UNCHANGED <<database, job, deadLetters, stopping, disp, forwarding,
                   faults, retries, history>>

\* Mutant: a timeout is taken for a normal return.
HandlerTimeoutSwallowed(n) ==
    /\ work[n].pc = "run"
    /\ Goto(n, "complete")
    /\ ambiguous' = ambiguous \cup {work[n].intent}
    /\ UNCHANGED <<database, job, deadLetters, stopping, disp, forwarding,
                   faults, retries, returned>>

\* withTimeout stops waiting; the handler's work may still be going on.
HandlerTimesOut(n) ==
    /\ work[n].pc = "run"
    /\ Quarantine(n)
    /\ ambiguous' = ambiguous \cup {work[n].intent}
    /\ UNCHANGED <<database, job, deadLetters, stopping, disp, forwarding,
                   faults, retries, returned>>

WorkerComplete(n) ==
    /\ work[n].pc = "complete"
    /\ completeExecution(work[n].intent)
    /\ Finish(n, "done")
    /\ UNCHANGED <<job, deadLetters, stopping, disp, forwarding, faults, retries,
                   history>>

WorkerRelease(n) ==
    /\ work[n].pc = "release"
    /\ releaseExecution(work[n].intent)
    /\ Goto(n, "record")
    /\ UNCHANGED <<outbox, due, job, deadLetters, stopping, disp, forwarding,
                   faults, retries, history>>

WorkerRecordRetry(n) ==
    /\ work[n].pc = "record"
    /\ recordRetry(work[n].intent)
    /\ Finish(n, "error")
    /\ UNCHANGED <<idem, job, deadLetters, stopping, disp, forwarding, faults,
                   retries, history>>

WorkerFail(n) ==
    /\ work[n].pc = "fail"
    /\ markFailed(work[n].intent)
    /\ Goto(n, "deadLetter")
    /\ UNCHANGED <<job, deadLetters, stopping, disp, forwarding, faults,
                   retries, history>>

\* Mutant: a quarantined intent is not reported to the dead-letter queue.
WorkerQuarantineSilently(n) ==
    /\ work[n].pc = "quarantine"
    /\ requireReconciliation(work[n].intent)
    /\ Goto(n, "ack")
    /\ UNCHANGED <<job, deadLetters, stopping, disp, forwarding, faults,
                   retries, history>>

WorkerQuarantine(n) ==
    /\ work[n].pc = "quarantine"
    /\ requireReconciliation(work[n].intent)
    /\ Goto(n, "deadLetter")
    /\ UNCHANGED <<job, deadLetters, stopping, disp, forwarding, faults,
                   retries, history>>

WorkerDeadLetter(n) ==
    /\ work[n].pc = "deadLetter"
    /\ deadLetters' = deadLetters \cup {work[n].intent}
    /\ Goto(n, "ack")
    /\ UNCHANGED <<database, job, stopping, disp, forwarding, faults, retries,
                   history>>

WorkerAck(n) ==
    LET i == work[n].intent IN
    /\ work[n].pc = "ack"
    /\ work' = [work EXCEPT ![n] = Idle]
    /\ job' = [job EXCEPT ![i] =
                 IF @.state = "active" /\ @.owner = n
                 THEN BullOutcome(@, work[n].outcome) ELSE @]
    /\ UNCHANGED <<database, deadLetters, stopping, disp, forwarding, faults,
                   retries, history>>

----------------------------------------------------------------------------
(* Operator remediation: the transaction of prepareRetry, then job.retry.   *)

\* Mutant: the operator may reopen whatever row a failed Bull job belongs to.
RetryPrepareAnyRow(i) ==
    /\ job[i].state = "failed"
    /\ outbox[i] \in Exists
    /\ retries[i] < MaxRetries
    /\ i \notin forwarding
    /\ SetIdemIf(i, {"failed", "reconciliation_required"}, "pending")
    /\ SetOutbox(i, "dispatched")
    /\ forwarding' = forwarding \cup {i}
    /\ retries' = [retries EXCEPT ![i] = @ + 1]
    /\ ambiguous' = ambiguous \ {i}
    /\ UNCHANGED <<job, deadLetters, stopping, disp, work, faults, returned>>

RetryPrepare(i) ==
    /\ job[i].state = "failed"
    /\ \/ outbox[i] = "failed" /\ idem[i] \in {"failed", "reconciliation_required"}
       \/ outbox[i] = "dispatched" /\ idem[i] = "pending"
    /\ retries[i] < MaxRetries
    /\ i \notin forwarding
    /\ SetIdemIf(i, {"failed", "reconciliation_required"}, "pending")
    /\ SetOutbox(i, "dispatched")
    /\ forwarding' = forwarding \cup {i}
    /\ retries' = [retries EXCEPT ![i] = @ + 1]
    /\ ambiguous' = ambiguous \ {i}
    /\ UNCHANGED <<job, deadLetters, stopping, disp, work, faults, returned>>

\* administrativeRetry looks at the job again and is denied unless it failed.
RetryForward(i) ==
    /\ i \in forwarding
    /\ forwarding' = forwarding \ {i}
    /\ job' = [job EXCEPT ![i].state = IF @ = "failed" THEN "waiting" ELSE @]
    /\ UNCHANGED <<database, deadLetters, stopping, disp, work, faults, retries,
                   history>>

----------------------------------------------------------------------------
(* Maintenance: job-idempotency-cleanup.service.ts.                         *)

\* The retention windows are days long and every attempt is bounded by minutes,
\* so no attempt or dispatch cycle is still under way when one has elapsed.
Quiet(i) ==
    /\ \A n \in Nodes : work[n].intent # i /\ i \notin disp[n].batch
    /\ i \notin forwarding

CancelUnconsumed(i) ==
    /\ i \in Unconsumed
    /\ outbox[i] \in Open
    /\ due[i]
    /\ Quiet(i)
    /\ SetOutbox(i, "cancelled")
    /\ UNCHANGED <<idem, job, deadLetters, stopping, disp, work, forwarding,
                   faults, retries, history>>

DeleteTerminalOutbox(i) ==
    /\ outbox[i] \in {"completed", "cancelled"}
    /\ due[i]
    /\ Quiet(i)
    /\ SetOutbox(i, "deleted")
    /\ UNCHANGED <<idem, job, deadLetters, stopping, disp, work, forwarding,
                   faults, retries, history>>

\* expires_at is set once, at the insert: a key may be expired at any later time.
PrunableKey(i) ==
    /\ idem[i] # "none"
    /\ \/ outbox[i] \notin Exists
       \/ outbox[i] = "cancelled"
       \/ outbox[i] = "completed" /\ idem[i] = "completed"

DeleteExpiredKey(i) ==
    /\ PrunableKey(i)
    /\ Quiet(i)
    /\ idem' = [idem EXCEPT ![i] = "none"]
    /\ UNCHANGED <<outbox, due, job, deadLetters, stopping, disp, work,
                   forwarding, faults, retries, history>>

----------------------------------------------------------------------------
(* What BullMQ and Redis do on their own.                                   *)

\* BullMQ hands a job whose lock expired to the next worker, or fails it when it
\* has stalled too often.
Stalled(b) ==
    [b EXCEPT !.state = IF b.stalls < MaxStalled THEN "waiting" ELSE "failed",
              !.stalls = IF @ < MaxStalled THEN @ + 1 ELSE @,
              !.owner = NoNode]

Orphaned(i) ==
    job[i].state = "active" /\ work[job[i].owner].intent # i

JobStalls(i) ==
    /\ Orphaned(i)
    /\ job' = [job EXCEPT ![i] = Stalled(@)]
    /\ UNCHANGED <<database, deadLetters, stopping, disp, work, forwarding,
                   faults, retries, history>>

\* removeOnComplete and removeOnFail.
JobRemoved(i) ==
    /\ job[i].state \in {"completed", "failed"}
    /\ job' = [job EXCEPT ![i] = NotQueued]
    /\ UNCHANGED <<database, deadLetters, stopping, disp, work, forwarding,
                   faults, retries, history>>

----------------------------------------------------------------------------
(* Shutdown and faults.                                                     *)

Fault(kind) ==
    /\ kind \in FaultKinds
    /\ faults < MaxFaults
    /\ faults' = faults + 1

\* stopClaiming and beginShutdown run in one synchronous stretch.
BeginShutdown(n) ==
    /\ Fault("shutdown")
    /\ n \notin stopping
    /\ stopping' = stopping \cup {n}
    /\ UNCHANGED <<database, job, deadLetters, disp, work, forwarding, retries,
                   history>>

\* The process is gone; what it was running ended in an unknown way.
Vanish(n) ==
    /\ stopping' = stopping \ {n}
    /\ disp' = [disp EXCEPT ![n] = NotDispatching]
    /\ work' = [work EXCEPT ![n] = Idle]
    /\ ambiguous' = IF work[n].pc \in {"run", "complete"}
                    THEN ambiguous \cup {work[n].intent} ELSE ambiguous
    /\ UNCHANGED <<database, job, deadLetters, forwarding, retries, returned>>

\* The shutdown grace elapses or everything settled, and a new process starts.
Restart(n) ==
    /\ n \in stopping
    /\ Vanish(n)
    /\ UNCHANGED faults

Crash(n) ==
    /\ Fault("crash")
    /\ Vanish(n)

\* A Redis or PostgreSQL call of the dispatch cycle throws: runDispatch swallows
\* the error and the rest of the batch stays "dispatching".
DispatchAbort(n) ==
    /\ Fault("abort")
    /\ disp[n].pc # "idle"
    /\ disp' = [disp EXCEPT ![n] = NotDispatching]
    /\ UNCHANGED <<database, job, deadLetters, stopping, work, forwarding,
                   retries, history>>

\* job.retry fails: the audit records it and the durable rows stay reopened.
RetryForwardFails(i) ==
    /\ Fault("abort")
    /\ i \in forwarding
    /\ forwarding' = forwarding \ {i}
    /\ UNCHANGED <<database, job, deadLetters, stopping, disp, work, retries,
                   history>>

\* A statement of the worker throws.  Inside validateAndHandle the error becomes
\* handler_failed; anywhere else it leaves process() and BullMQ sees it.
WorkerDbError(n) ==
    /\ Fault("db")
    /\ \/ work[n].pc \in {"claim", "complete"} /\ HandleError(n, "error")
       \/ /\ work[n].pc \in {"load", "release", "record", "fail", "quarantine",
                             "deadLetter"}
          /\ Finish(n, "error")
    /\ UNCHANGED <<database, job, deadLetters, stopping, disp, forwarding, retries,
                   history>>

RedisLoss ==
    /\ Fault("redis")
    /\ job' = [i \in Intents |-> NotQueued]
    /\ deadLetters' = {}
    /\ UNCHANGED <<database, stopping, disp, work, forwarding, retries, history>>

\* The lock of a job expires while its worker is still alive.
LockLost(i) ==
    /\ Fault("lock")
    /\ job[i].state = "active"
    /\ ~Orphaned(i)
    /\ job' = [job EXCEPT ![i] = Stalled(@)]
    /\ UNCHANGED <<database, deadLetters, stopping, disp, work, forwarding,
                   retries, history>>

----------------------------------------------------------------------------
DispatchStep(n) ==
    \/ DispatchClaim(n)
    \/ \E i \in Intents : \/ DispatchRelease(n, i)
                          \/ DispatchReject(n, i)
                          \/ DispatchPublish(n, i)
    \/ DispatchDeadLetter(n)
    \/ DispatchMark(n)

RunEnds(n) == HandlerReturns(n) \/ HandlerThrows(n) \/ HandlerTimesOut(n)

WorkerStep(n) ==
    \/ WorkerLoad(n)
    \/ WorkerClaim(n)
    \/ RunEnds(n)
    \/ WorkerComplete(n)
    \/ WorkerRelease(n)
    \/ WorkerRecordRetry(n)
    \/ WorkerFail(n)
    \/ WorkerQuarantine(n)
    \/ WorkerDeadLetter(n)
    \/ WorkerAck(n)

BullStep(i) == JobStalls(i) \/ JobRemoved(i)

Cleanup(i) == CancelUnconsumed(i) \/ DeleteTerminalOutbox(i) \/ DeleteExpiredKey(i)

NodeFault(n) == BeginShutdown(n) \/ Crash(n) \/ DispatchAbort(n) \/ WorkerDbError(n)

IntentFault(i) == LockLost(i) \/ RetryForwardFails(i)

Next ==
    \/ \E i \in Intents : \/ Enqueue(i)
                          \/ Elapse(i)
                          \/ RetryPrepare(i)
                          \/ RetryForward(i)
                          \/ Cleanup(i)
                          \/ BullStep(i)
                          \/ IntentFault(i)
    \/ \E n \in Nodes : \/ DispatchStep(n)
                        \/ WorkerStep(n)
                        \/ Restart(n)
                        \/ NodeFault(n)
    \/ \E n \in Nodes, i \in Intents : WorkerTake(n, i) \/ WorkerRefuse(n, i)
    \/ RedisLoss

Spec == Init /\ [][Next]_vars

(* The interval timer keeps starting cycles, BullMQ keeps serving waiting jobs *)
(* in order and looks for stalled ones, withTimeout bounds the handler, a      *)
(* request is answered or its process dies, and a stopping process exits       *)
(* within its grace period.  Retention is not fair: removeOnComplete and       *)
(* removeOnFail act only when another job of the queue ends.                   *)
Fairness ==
    /\ \A i \in Intents : /\ WF_vars(Elapse(i))
                          /\ WF_vars(JobStalls(i))
                          /\ WF_vars(RetryForward(i))
    /\ \A n \in Nodes : /\ WF_vars(DispatchStep(n))
                        /\ WF_vars(WorkerStep(n))
                        /\ WF_vars(Restart(n))
    /\ \A n \in Nodes, i \in Intents : SF_vars(WorkerTake(n, i))

FairSpec == Spec /\ Fairness

----------------------------------------------------------------------------
(* Properties.                                                              *)

RowsOK == outbox \in [Intents -> OutboxStatus] /\ due \in [Intents -> BOOLEAN]

DispOK ==
    /\ disp \in [Nodes -> Disp]
    /\ \A n \in Nodes :
          disp[n].pc \in {"mark", "deadLetter"} <=> disp[n].cur # NoIntent

WorkOK ==
    /\ work \in [Nodes -> Work]
    /\ \A n \in Nodes : work[n].pc = "idle" <=> work[n].intent = NoIntent

SetsOK ==
    /\ deadLetters \subseteq Intents
    /\ stopping \subseteq Nodes
    /\ forwarding \subseteq Intents
    /\ faults \in 0..MaxFaults
    /\ retries \in [Intents -> 0..MaxRetries]
    /\ returned \subseteq Intents
    /\ ambiguous \subseteq Intents

\* The variables keep their types, and a busy worker slot or dispatcher loop always
\* knows the row it works for, while an idle one has none.
TypeOK ==
    /\ RowsOK
    /\ idem \in [Intents -> IdemStatus]
    /\ job \in [Intents -> BullJob]
    /\ DispOK
    /\ WorkOK
    /\ SetsOK

\* "Completed" is never a guess: an intent is only ever recorded as completed, by
\* either of the two statements that write it, after its handler returned
\* normally in some attempt -- under every fault, replay and operator retry.
CompletedMeansReturned ==
    \A i \in Intents : outbox[i] = "completed" \/ idem[i] = "completed"
                           => i \in returned

\* completeExecution writes both tables in one transaction, so the replay key of
\* a completed intent is completed or already pruned -- and a completed key never
\* sits next to an intent that could still be dispatched or remediated.
NoPoisonedKey ==
    \A i \in Intents :
        /\ outbox[i] = "completed" => idem[i] \in {"completed", "none"}
        /\ idem[i] = "completed" => outbox[i] \in {"completed", "deleted"}

\* A node is inside the handler of an intent, or between its return and the
\* recording of that return.
Running(n, i) == work[n].intent = i /\ work[n].pc \in {"run", "complete"}

\* The step in which node n enters the handler of intent i.
Starts(n, i) == ~Running(n, i) /\ Running(n, i)'

\* While an intent is open, a run whose outcome is unknown -- the process died in it,
\* or its timeout gave up on it -- is never resent, and a run in progress is never
\* overlapped, unless an operator reopened the intent in between.
NeverOverlappedOrResent ==
    [][\A i \in Intents : outbox[i] \in Open =>
          \A n \in Nodes : Starts(n, i) =>
             /\ i \notin ambiguous
             /\ \A m \in Nodes : Running(m, i) => retries[i] > 0]_vars

\* The handler never runs for an intent that is settled -- completed, failed or
\* cancelled: not for a job BullMQ redelivers, not for a worker that read the row
\* before it was settled, not after cleanup pruned the replay key.
NoRunAfterSettlement ==
    [][\A n \in Nodes, i \in Intents : Starts(n, i) => outbox[i] \in Open]_vars

\* A completed intent stays completed until retention deletes it: no late
\* failure, quarantine, stale claim or operator retry reopens it.
CompletedIsFinal ==
    [][\A i \in Intents :
          outbox[i] = "completed" => outbox'[i] \in {"completed", "deleted"}]_vars

\* The kept job of an open row has failed behind its back -- refused by a worker that
\* shuts down, stalled too often, or ended by a statement that failed -- and queue.add
\* under its id does nothing, so only retention or an operator can move the row.
Settled(i) == outbox[i] \in {"completed", "failed", "deleted"}

Stranded(i) ==
    /\ outbox[i] \in Open
    /\ job[i].state = "failed"
    /\ i \notin forwarding
    /\ faults > 0

\* Every intent a consumer exists for is eventually settled, whatever node died, whatever
\* Redis forgot and wherever a cycle was cut short, unless a fault leaves it stranded
\* under a failed job that nothing ever removes.
EventuallySettled ==
    \A i \in Intents \ Unconsumed :
        outbox[i] # "none" ~> (Settled(i) \/ []Stranded(i))

\* An intent that a worker or the dispatcher gives up on reaches the dead-letter queue,
\* if no process or store fails: the row is failed first and the record published
\* afterwards, and nobody looks for rows without one. An unconsumed intent never fails.
Kept(i) == i \in deadLetters \/ outbox[i] # "failed" \/ faults > 0

FailuresReachDeadLetter ==
    \A i \in Intents \ Unconsumed : outbox[i] = "failed" ~> Kept(i)

\* The pipeline keeps the promise of JobPromise, where no lock is lost, Redis
\* keeps its jobs and the statements of the worker do not fail.
ClosedPhase == [none |-> "absent", failed |-> "dead", cancelled |-> "withdrawn",
                completed |-> "done"]

Phase(i) ==
    IF outbox[i] \in Open THEN IF idem[i] = "processing" THEN "executing" ELSE "accepted"
    ELSE IF outbox[i] = "deleted" THEN IF i \in Unconsumed THEN "withdrawn" ELSE "done"
    ELSE ClosedPhase[outbox[i]]

Promise == INSTANCE JobPromise WITH phase <- [i \in Intents |-> Phase(i)]

KeepsPromise == Promise!Spec
=============================================================================
