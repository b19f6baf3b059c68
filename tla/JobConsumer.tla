---------------------------- MODULE JobConsumer ----------------------------
(***************************************************************************)
(* The pipeline as the handler of one job type meets it: the intents, the  *)
(* invocations that handle them, and what the end of an invocation does to *)
(* its intent.  It is what JobPromise allows, seen from inside a handler:  *)
(* attempts of an intent start one at a time, an attempt that throws is    *)
(* retried or buried, and one that times out or whose process dies is      *)
(* buried -- in the first case while the handler goes on by itself.        *)
(***************************************************************************)
EXTENDS Naturals

CONSTANTS
    Jobs,           \* intents of the job type
    NoJob,          \* the intent of an idle invocation
    Workers,        \* handler invocations that can exist at the same time
    MaxAttempts,    \* attempts of the lane
    MaxRetries,     \* bound: operator retries per intent
    MaxFaults       \* bound: crashes, timeouts and failing statements

ASSUME JobAssumption ==
    /\ NoJob \notin Jobs
    /\ MaxAttempts \in Nat \ {0}

VARIABLES
    phase,        \* the intent, as JobPromise counts it
    attempts,     \* attempts made since the intent was accepted or revived
    retries,
    faults,
    handling,     \* the intent of each invocation
    abandoned     \* invocations the pipeline has given up on

jobVars == <<phase, attempts, retries, faults, handling, abandoned>>

JobInit ==
    /\ phase = [j \in Jobs |-> "absent"]
    /\ attempts = [j \in Jobs |-> 0]
    /\ retries = [j \in Jobs |-> 0]
    /\ faults = 0
    /\ handling = [w \in Workers |-> NoJob]
    /\ abandoned = {}

Fault ==
    /\ faults < MaxFaults
    /\ faults' = faults + 1

Struck == faults > 0

\* The intent is committed with the business change.
Accept(j) ==
    /\ phase[j] = "absent"
    /\ phase' = [phase EXCEPT ![j] = "accepted"]
    /\ UNCHANGED <<attempts, retries, faults, handling, abandoned>>

Begin(w, j) ==
    /\ handling[w] = NoJob
    /\ phase[j] = "accepted"
    /\ phase' = [phase EXCEPT ![j] = "executing"]
    /\ attempts' = [attempts EXCEPT ![j] = @ + 1]
    /\ handling' = [handling EXCEPT ![w] = j]
    /\ UNCHANGED <<retries, faults, abandoned>>

\* Mutant: the late end of an invocation settles an intent that was given up on.
EndLate(w, outcome) ==
    /\ handling[w] # NoJob
    /\ handling' = [handling EXCEPT ![w] = NoJob]
    /\ abandoned' = abandoned \ {w}
    /\ phase' = [phase EXCEPT ![handling[w]] = outcome]
    /\ UNCHANGED <<attempts, retries>>

\* The invocation ends; an intent that was given up on is not affected.
End(w, outcome) ==
    /\ handling[w] # NoJob
    /\ handling' = [handling EXCEPT ![w] = NoJob]
    /\ abandoned' = abandoned \ {w}
    /\ phase' = IF w \in abandoned THEN phase
                ELSE [phase EXCEPT ![handling[w]] = outcome]
    /\ UNCHANGED <<attempts, retries>>

Returns(w) == End(w, "done") /\ UNCHANGED faults

\* The last attempt of the lane buries the intent, an earlier one gives it back.
AfterThrow(w) == IF attempts[handling[w]] < MaxAttempts THEN "accepted" ELSE "dead"

Throws(w) == End(w, AfterThrow(w)) /\ UNCHANGED faults

\* The handler rules out another attempt.
Buries(w) == End(w, "dead") /\ UNCHANGED faults

\* A statement fails under the handler.
Fails(w) == Fault /\ End(w, AfterThrow(w))

\* The process dies; the intent is quarantined when its job comes back.
Dies(w) == Fault /\ End(w, "dead")

\* The lane's timeout gives up on the handler, which goes on by itself.
TimesOut(w) ==
    /\ Fault
    /\ handling[w] # NoJob
    /\ w \notin abandoned
    /\ abandoned' = abandoned \cup {w}
    /\ phase' = [phase EXCEPT ![handling[w]] = "dead"]
    /\ UNCHANGED <<attempts, retries, handling>>

\* An attempt that is refused before it reaches the handler buries the intent.
Refused(j) ==
    /\ Fault
    /\ phase[j] = "accepted"
    /\ phase' = [phase EXCEPT ![j] = "dead"]
    /\ UNCHANGED <<attempts, retries, handling, abandoned>>

OperatorRetry(j) ==
    /\ phase[j] = "dead"
    /\ retries[j] < MaxRetries
    /\ retries' = [retries EXCEPT ![j] = @ + 1]
    /\ phase' = [phase EXCEPT ![j] = "accepted"]
    /\ attempts' = [attempts EXCEPT ![j] = 0]
    /\ UNCHANGED <<faults, handling, abandoned>>

\* What happens around a handler, whatever it does.
Around ==
    \/ \E w \in Workers : TimesOut(w)
    \/ \E j \in Jobs : Refused(j) \/ OperatorRetry(j)

\* What the handlers of a job type do to their intents, and nothing else.
JobStep ==
    \/ \E j \in Jobs : Accept(j)
    \/ \E w \in Workers, j \in Jobs : Begin(w, j)
    \/ \E w \in Workers : \E outcome \in {"done", "dead", AfterThrow(w)} : End(w, outcome)
    \/ Around

JobSpec == JobInit /\ [][JobStep]_jobVars

----------------------------------------------------------------------------
\* Whatever a handler does, its intents behave as JobPromise says.
Promise == INSTANCE JobPromise WITH Intents <- Jobs
IntentsKeepPromise == Promise!Spec
=============================================================================
