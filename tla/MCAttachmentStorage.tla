------------------------ MODULE MCAttachmentStorage ------------------------
(***************************************************************************)
(* Instances of AttachmentStorage for TLC.  Behaviours start in one of two *)
(* quarters of a workspace, the notes of the other being gone:             *)
(*                                                                         *)
(*  - uploads: two attachments of one note compete for the quota;          *)
(*  - trash: a chain of two notes with an attachment on the lower one,     *)
(*    which reaches the trash both with its note and with the parent.      *)
(*                                                                         *)
(* What a quarter starts with of restores and faults is what it may not    *)
(* spend of their bounds.                                                  *)
(***************************************************************************)
EXTENDS AttachmentStorage

CONSTANTS parent, child, alone, image, file, below

MCSubtree == [n \in Notes |-> IF n = parent THEN {parent, child} ELSE {n}]
MCNoteOf == [a \in Attachments |-> IF a = below THEN child ELSE alone]

Initially(notes, spentRestores, spentFaults) ==
    /\ note = [n \in Notes |-> IF n \in notes THEN "live" ELSE "gone"]
    /\ batch = [n \in Notes |-> NoNote]
    /\ expired = {}
    /\ row = [a \in Attachments |-> "none"]
    /\ age = [a \in Attachments |-> 0]
    /\ objects = {}
    /\ up = [a \in Attachments |-> [pc |-> "idle", written |-> {}]]
    /\ removing = {}
    /\ sweep = [s \in Sweepers |-> AtRest]
    /\ restores = spentRestores
    /\ faults = spentFaults
    /\ announced = {}
    /\ lost = {}

UploadsInit == Initially({alone}, MaxRestores, 0)
TrashInit == Initially({parent, child}, 0, 1)

MCSpec == (UploadsInit \/ TrashInit) /\ [][Next]_vars
=============================================================================
