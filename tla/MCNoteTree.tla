----------------------------- MODULE MCNoteTree -----------------------------
(***************************************************************************)
(* Concurrent moves within one container: the behaviours of NoteTree in    *)
(* which nobody does anything else.  p1 holds x1, the other notes are at   *)
(* the top.                                                                *)
(***************************************************************************)
EXTENDS NoteTree, TLC

CONSTANTS p1, x1, x2, y1, y2

MCTree == x1 :> p1 @@ [n \in {p1, x2, y1, y2} |-> Top]
SessionSymmetry == Permutations(Sessions)

MovesNext ==
    \E s \in Sessions :
        \/ \E n, p \in Notes \ {p1} : moveRead(s, n, Unfiled, p)
        \/ moveLock(s)
        \/ moveCommit(s)

MovesSpec == TreeInit /\ [][MovesNext]_treeVars
=============================================================================
