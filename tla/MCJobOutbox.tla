---------------------------- MODULE MCJobOutbox ----------------------------
(***************************************************************************)
(* Instances of JobOutbox for TLC, of one intent at a time.  The operator  *)
(* run delivers a job to one live worker at a time, the delivery run lets  *)
(* locks expire under live workers and Redis forget.  Several intents that *)
(* share a node are a subject of MCHandlers.                               *)
(***************************************************************************)
EXTENDS JobOutbox, TLC

\* Nodes are interchangeable when all of them hold a handler.
NodeSymmetry == Permutations(Nodes)

\* Bound: one intent is inserted in a behaviour, of whichever kind.
OneIntent == Cardinality({i \in Intents : outbox[i] # "none"}) <= 1
=============================================================================
