----------------------------- MODULE MCNoteRoom -----------------------------
(***************************************************************************)
(* Instances of NoteRoom for TLC: two API processes and one note.          *)
(***************************************************************************)
EXTENDS NoteRoom, TLC

\* Processes are interchangeable, and so are the edits when the contract refuses none.
InstanceSymmetry == Permutations(Instances)
EditSymmetry == Permutations(Instances) \cup Permutations(Edits)
=============================================================================
