----------------------------- MODULE ExportJob -----------------------------
(***************************************************************************)
(* An export: a row of exports, the export.generate intent that was        *)
(* committed with it, the worker attempts that render the artefact and put *)
(* it in the bucket, cancellation by the requester, and the sweeps that    *)
(* retire rows and reclaim bytes.                                          *)
(*                                                                         *)
(* The intent behaves as JobConsumer says.                                 *)
(***************************************************************************)
EXTENDS JobConsumer, FiniteSets

Exports == Jobs

VARIABLES
    status,       \* exports.status; "none" before the request
    hasKey,       \* rows whose object_key is set
    due,          \* ready rows past object_expires_at
    objects,      \* exports with an artefact in the bucket
    old,          \* artefacts past the orphan grace window
    doing,        \* what each handler invocation is doing
    sweep,        \* the pass of the sweeps over exports
    announced     \* announcements made, per export

vars == <<jobVars, status, hasKey, due, objects, old, doing, sweep, announced>>

rows == <<status, hasKey>>
clocks == <<due, old>>
intents == <<phase, attempts, retries, handling, abandoned>>

Open == {"queued", "processing"}   \* CANCELLABLE_STATUSES
Terminal == {"expired", "failed", "cancelled"}
Status == {"none", "ready"} \cup Open \cup Terminal

WorkerPC == {"idle", "claim", "authorize", "load", "render", "put", "fail",
             "markReady", "discard", "announce"}

SweepPC == {"idle", "release", "clear", "list", "owners", "remove"}
AtRest == [pc |-> "idle", todo |-> {}, cur |-> NoJob]

Init ==
    /\ JobInit
    /\ status = [e \in Exports |-> "none"]
    /\ hasKey = {}
    /\ due = {}
    /\ objects = {}
    /\ old = {}
    /\ doing = [w \in Workers |-> "idle"]
    /\ sweep = AtRest
    /\ announced = [e \in Exports |-> 0]

----------------------------------------------------------------------------
(* Requests: export.service.ts.                                            *)

\* The row and its intent commit together.
create(e) ==
    /\ status[e] = "none"
    /\ status' = [status EXCEPT ![e] = "queued"]
    /\ Accept(e)
    /\ UNCHANGED <<hasKey, clocks, objects, doing, sweep, announced>>

\* Mutant: the update does not look at the status.
cancelAny(e) ==
    /\ status[e] # "none"
    /\ status' = [status EXCEPT ![e] = "cancelled"]
    /\ UNCHANGED <<jobVars, hasKey, clocks, objects, doing, sweep, announced>>

cancel(e) ==
    /\ status[e] \in Open
    /\ status' = [status EXCEPT ![e] = "cancelled"]
    /\ UNCHANGED <<jobVars, hasKey, clocks, objects, doing, sweep, announced>>

----------------------------------------------------------------------------
(* The intent, as the job pipeline moves it.                               *)

At(w, pc) == doing[w] = pc
Goto(w, pc) == doing' = [doing EXCEPT ![w] = pc]

Deliver(w, e) ==
    /\ Begin(w, e)
    /\ Goto(w, "claim")
    /\ UNCHANGED <<rows, clocks, objects, sweep, announced>>

Leaves(w) == Returns(w) /\ Goto(w, "idle")

\* A statement or the authorization throws anything but a denial.
HandlerThrows(w) ==
    /\ doing[w] \in {"claim", "authorize", "load", "fail", "markReady"}
    /\ Fails(w)
    /\ Goto(w, "idle")
    /\ UNCHANGED <<rows, clocks, objects, sweep, announced>>

HandlerDies(w) ==
    /\ Dies(w)
    /\ Goto(w, "idle")
    /\ UNCHANGED <<rows, clocks, objects, sweep, announced>>

----------------------------------------------------------------------------
(* One invocation of the handler: export.worker.service.ts.                *)

\* A miss is taken for a replay and ends the attempt normally.
claim(w) ==
    LET e == handling[w] IN
    /\ At(w, "claim")
    /\ \/ /\ status[e] = "queued"
          /\ status' = [status EXCEPT ![e] = "processing"]
          /\ Goto(w, "authorize")
          /\ UNCHANGED jobVars
       \/ /\ status[e] # "queued"
          /\ Leaves(w)
          /\ UNCHANGED status
    /\ UNCHANGED <<hasKey, clocks, objects, sweep, announced>>

\* The requester may have lost access, the note may be gone, the renderer may
\* reject it: each of the three ends in markFailed.
Prepare(w) ==
    /\ \/ At(w, "authorize") /\ Goto(w, "load")
       \/ At(w, "load") /\ Goto(w, "render")
       \/ At(w, "render") /\ Goto(w, "put")
       \/ doing[w] \in {"authorize", "load", "render"} /\ Goto(w, "fail")
    /\ UNCHANGED <<jobVars, rows, clocks, objects, sweep, announced>>

\* Mutant: the update matches queued rows only.
markFailedQueued(w) ==
    LET e == handling[w] IN
    /\ At(w, "fail")
    /\ status' = [status EXCEPT ![e] = IF @ = "queued" THEN "failed" ELSE @]
    /\ Leaves(w)
    /\ UNCHANGED <<hasKey, clocks, objects, sweep, announced>>

markFailed(w) ==
    LET e == handling[w] IN
    /\ At(w, "fail")
    /\ status' = [status EXCEPT ![e] = IF @ \in Open THEN "failed" ELSE @]
    /\ Leaves(w)
    /\ UNCHANGED <<hasKey, clocks, objects, sweep, announced>>

putObject(w) ==
    /\ At(w, "put")
    /\ objects' = objects \cup {handling[w]}
    /\ Goto(w, "markReady")
    /\ UNCHANGED <<jobVars, rows, clocks, sweep, announced>>

\* The put fails for the worker, whether or not the bytes arrived.
putFails(w) ==
    /\ Fault
    /\ At(w, "put")
    /\ \/ UNCHANGED objects
       \/ objects' = objects \cup {handling[w]}
    /\ Goto(w, "fail")
    /\ UNCHANGED <<intents, rows, clocks, sweep, announced>>

\* Mutant: the update does not ask whether the row is still processing.
markReadyAlways(w) ==
    LET e == handling[w] IN
    /\ At(w, "markReady")
    /\ status' = [status EXCEPT ![e] = "ready"]
    /\ hasKey' = hasKey \cup {e}
    /\ Goto(w, "announce")
    /\ UNCHANGED <<jobVars, clocks, objects, sweep, announced>>

\* Mutant: losing the race is not told apart from winning it.
markReadyUnchecked(w) ==
    LET e == handling[w] IN
    /\ At(w, "markReady")
    /\ status' = [status EXCEPT ![e] = IF @ = "processing" THEN "ready" ELSE @]
    /\ hasKey' = IF status[e] = "processing" THEN hasKey \cup {e} ELSE hasKey
    /\ Goto(w, "announce")
    /\ UNCHANGED <<jobVars, clocks, objects, sweep, announced>>

\* The only writer of object_key.
markReady(w) ==
    LET e == handling[w] IN
    /\ At(w, "markReady")
    /\ \/ /\ status[e] = "processing"
          /\ status' = [status EXCEPT ![e] = "ready"]
          /\ hasKey' = hasKey \cup {e}
          /\ Goto(w, "announce")
       \/ /\ status[e] # "processing"
          /\ Goto(w, "discard")
          /\ UNCHANGED rows
    /\ UNCHANGED <<jobVars, clocks, objects, sweep, announced>>

\* The row was settled meanwhile: the worker removes its own bytes, best effort.
discard(w) ==
    LET e == handling[w] IN
    /\ At(w, "discard")
    /\ \/ objects' = objects \ {e} /\ old' = old \ {e} /\ UNCHANGED faults
       \/ Fault /\ UNCHANGED <<objects, old>>
    /\ End(w, "done") /\ Goto(w, "idle")
    /\ UNCHANGED <<rows, due, sweep, announced>>

\* Neither the notification nor the e-mail may fail the export.
announce(w) ==
    LET e == handling[w] IN
    /\ At(w, "announce")
    /\ \/ announced' = [announced EXCEPT ![e] = @ + 1] /\ UNCHANGED faults
       \/ Fault /\ UNCHANGED announced
    /\ End(w, "done") /\ Goto(w, "idle")
    /\ UNCHANGED <<rows, clocks, objects, sweep>>

----------------------------------------------------------------------------
(* Time.  The windows are days long: no invocation outlives one.           *)

Handled(e) == \E w \in Workers : handling[w] = e

RetentionElapses(e) ==
    /\ status[e] = "ready"
    /\ e \notin due
    /\ ~Handled(e)
    /\ due' = due \cup {e}
    /\ UNCHANGED <<jobVars, rows, old, objects, doing, sweep, announced>>

GrowOld(e) ==
    /\ e \in objects \ old
    /\ ~Handled(e)
    /\ old' = old \cup {e}
    /\ UNCHANGED <<jobVars, rows, due, objects, doing, sweep, announced>>

----------------------------------------------------------------------------
(* sweepExpiredExports and reconcileExportObjects.                         *)

SweepSet(pc, todo, cur) == sweep' = [pc |-> pc, todo |-> todo, cur |-> cur]

\* Mutant: the bytes of every row past its retention are released at once.
SweepReleaseDue ==
    LET expiring == {e \in due : status[e] = "ready"} IN
    /\ sweep.pc = "idle"
    /\ SweepSet("release", expiring \cup {e \in hasKey : status[e] \in Terminal},
                NoJob)
    /\ UNCHANGED <<jobVars, rows, clocks, objects, doing, announced>>

\* Phase 1: ready rows past retention expire and keep their key; then the rows of
\* phase 2 are read.
SweepExpire ==
    LET expiring == {e \in due : status[e] = "ready"} IN
    /\ sweep.pc = "idle"
    /\ status' = [e \in Exports |-> IF e \in expiring THEN "expired" ELSE status[e]]
    /\ due' = due \ expiring
    /\ SweepSet("release", {e \in hasKey : status'[e] \in Terminal}, NoJob)
    /\ UNCHANGED <<jobVars, hasKey, old, objects, doing, announced>>

\* Phase 2: remove the bytes, and null the key only when that succeeded.
SweepRelease ==
    /\ sweep.pc = "release"
    /\ \/ /\ sweep.todo = {}
          /\ SweepSet("list", {}, NoJob)
          /\ UNCHANGED <<objects, old, faults>>
       \/ \E e \in sweep.todo :
             \/ /\ objects' = objects \ {e}
                /\ old' = old \ {e}
                /\ SweepSet("clear", sweep.todo \ {e}, e)
                /\ UNCHANGED faults
             \/ /\ Fault
                /\ SweepSet("release", sweep.todo \ {e}, NoJob)
                /\ UNCHANGED <<objects, old>>
    /\ UNCHANGED <<intents, rows, due, doing, announced>>

SweepClear ==
    /\ sweep.pc = "clear"
    /\ hasKey' = hasKey \ {sweep.cur}
    /\ SweepSet("release", sweep.todo, NoJob)
    /\ UNCHANGED <<jobVars, status, clocks, objects, doing, announced>>

\* Phase 3: old artefacts that no row names.
SweepList ==
    /\ sweep.pc = "list"
    /\ SweepSet("owners", old, NoJob)
    /\ UNCHANGED <<jobVars, rows, clocks, objects, doing, announced>>

\* Mutant: an artefact whose row exists is never an orphan.
SweepOwnersByRow ==
    /\ sweep.pc = "owners"
    /\ SweepSet("remove", {}, NoJob)
    /\ UNCHANGED <<jobVars, rows, clocks, objects, doing, announced>>

SweepOwners ==
    /\ sweep.pc = "owners"
    /\ SweepSet("remove", sweep.todo \ hasKey, NoJob)
    /\ UNCHANGED <<jobVars, rows, clocks, objects, doing, announced>>

SweepRemove ==
    /\ sweep.pc = "remove"
    /\ \/ /\ objects' = objects \ sweep.todo
          /\ old' = old \ sweep.todo
          /\ UNCHANGED faults
       \/ Fault /\ UNCHANGED <<objects, old>>
    /\ sweep' = AtRest
    /\ UNCHANGED <<intents, rows, due, doing, announced>>

SweepDies ==
    /\ Fault
    /\ sweep # AtRest
    /\ sweep' = AtRest
    /\ UNCHANGED <<intents, rows, clocks, objects, doing, announced>>

----------------------------------------------------------------------------
HandlerStep(w) ==
    \/ claim(w)
    \/ Prepare(w)
    \/ markFailed(w)
    \/ putObject(w)
    \/ putFails(w)
    \/ markReady(w)
    \/ discard(w)
    \/ announce(w)

SweepStep ==
    \/ SweepExpire
    \/ SweepRelease
    \/ SweepClear
    \/ SweepList
    \/ SweepOwners
    \/ SweepRemove

Next ==
    \/ \E e \in Exports : create(e) \/ cancel(e) \/ RetentionElapses(e) \/ GrowOld(e)
    \/ \E w \in Workers, e \in Exports : Deliver(w, e)
    \/ \E w \in Workers : HandlerStep(w) \/ HandlerThrows(w) \/ HandlerDies(w)
    \/ Around /\ UNCHANGED <<rows, clocks, objects, doing, sweep, announced>>
    \/ SweepStep
    \/ SweepDies

Spec == Init /\ [][Next]_vars

(* The pipeline delivers what it accepted and handlers run to an end (the  *)
(* module JobOutbox shows both), time passes and passes are started.       *)
Fairness ==
    /\ \A e \in Exports : /\ WF_vars(\E w \in Workers : Deliver(w, e))
                          /\ WF_vars(RetentionElapses(e))
                          /\ WF_vars(GrowOld(e))
    /\ \A w \in Workers : WF_vars(HandlerStep(w))
    /\ WF_vars(SweepStep)

FairSpec == Spec /\ Fairness

----------------------------------------------------------------------------
(* Properties.                                                             *)

\* The variables keep their types; object_key is set exactly once the row has been
\* ready, and a busy worker knows its export.
TypeOK ==
    /\ status \in [Exports -> Status]
    /\ hasKey \subseteq {e \in Exports : status[e] \in {"ready", "expired"}}
    /\ due \subseteq {e \in Exports : status[e] = "ready"}
    /\ objects \subseteq Exports
    /\ old \subseteq objects
    /\ attempts \in [Exports -> 0..MaxAttempts]
    /\ doing \in [Workers -> WorkerPC]
    /\ \A w \in Workers : doing[w] = "idle" <=> handling[w] = NoJob
    /\ sweep \in [pc : SweepPC, todo : SUBSET Exports, cur : Exports \cup {NoJob}]

\* What a requester can download is there: the artefact of a ready row is in the
\* bucket under the key the row names, whatever late invocation or sweep runs.
ReadyExportHasBytes ==
    \A e \in Exports : status[e] = "ready" => e \in hasKey /\ e \in objects

\* "The row is terminal and is NOT ours to resurrect": a settled export changes no
\* more, except that a ready one expires.
SettledStaysSettled ==
    [][\A e \in Exports :
          /\ status[e] \in Terminal => status'[e] = status[e]
          /\ status[e] = "ready" => status'[e] \in {"ready", "expired"}]_vars

\* An export is announced once at most, however many attempts and operator retries
\* ran, and never when it was cancelled or failed.
AnnouncedOnceAndReady ==
    \A e \in Exports : /\ announced[e] <= 1
                       /\ announced[e] = 1 => status[e] \in {"ready", "expired"}

\* A requester is told of an export that is there, once.
ExportInv == TypeOK /\ ReadyExportHasBytes /\ AnnouncedOnceAndReady

\* The intent of an export behaves as JobPromise says, and so does its row: what is
\* settled stays settled.
ExportsKeepPromise == IntentsKeepPromise /\ SettledStaysSettled

\* An export no fault has touched is settled for its requester.
SettlesUnlessStruck ==
    \A e \in Exports : status[e] \in Open ~> status[e] \notin Open \/ Struck

\* No artefact is stranded: whatever was cancelled, lost its race, failed half way
\* or expired, its bytes leave the bucket.
ArtefactsReclaimed ==
    \A e \in Exports : e \in objects ~> e \notin objects
=============================================================================
