----------------------------- MODULE JobPromise -----------------------------
(***************************************************************************)
(* What the job pipeline promises about one business intent, with queues,  *)
(* replay keys, nodes and faults left out: an accepted intent is executed  *)
(* by one run at a time, a run either finishes it, gives it back or buries *)
(* it, what is done stays done, and only an operator revives what is dead. *)
(***************************************************************************)
CONSTANT Intents

VARIABLE phase

Phases == {"absent", "accepted", "executing", "done", "dead", "withdrawn"}

Init == phase = [i \in Intents |-> "absent"]

Move(i, from, to) == phase[i] = from /\ phase' = [phase EXCEPT ![i] = to]

Accept(i)   == Move(i, "absent", "accepted")
Start(i)    == Move(i, "accepted", "executing")
GiveBack(i) == Move(i, "executing", "accepted")
Finish(i)   == Move(i, "executing", "done")
Bury(i)     == Move(i, "accepted", "dead") \/ Move(i, "executing", "dead")
Revive(i)   == Move(i, "dead", "accepted")
Withdraw(i) == Move(i, "accepted", "withdrawn")

Next == \E i \in Intents :
           \/ Accept(i) \/ Start(i) \/ GiveBack(i) \/ Finish(i)
           \/ Bury(i) \/ Revive(i) \/ Withdraw(i)

Spec == Init /\ [][Next]_phase
=============================================================================
