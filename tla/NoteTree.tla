------------------------------ MODULE NoteTree ------------------------------
(***************************************************************************)
(* The hierarchy of a workspace's notes (notes.service.ts): creation,      *)
(* moves, trash, restoration, permanent deletion, and the folders they are *)
(* filed in.                                                               *)
(*                                                                         *)
(* A move or a creation is a READ COMMITTED transaction: it reads, waits   *)
(* for the advisory locks of the sibling groups it named, reads again, and *)
(* commits.  The SERIALIZABLE operations on a subtree read one snapshot    *)
(* and fail if a row they write has changed since; among themselves they   *)
(* have the effect of a serial order, so one is open at a time here.       *)
(* A transaction aborted by a deadlock or a serialization failure has no   *)
(* effect and starts again, as database.service.ts runs it.                *)
(***************************************************************************)
EXTENDS Naturals, FiniteSets

CONSTANTS
    Notes,
    Top,          \* the parent of a note that has none
    Folders,
    Unfiled,      \* the folder of a note that is in none
    Sessions,     \* transactions open at the same time
    MaxAsked,     \* bound on the transactions begun
    Tree          \* the initial parent of each note; notes outside its domain are unused

VARIABLES
    note,         \* parent, folder, and the batch that trashed it
    folders,      \* folders that exist
    working,      \* the transaction of each session
    asked         \* transactions begun

treeVars == <<note, folders, working, asked>>

Live == 0
Rows == {n \in Notes : note[n].row = "kept"}
IsLive(n) == n \in Rows /\ note[n].batch = Live
Groups == (Folders \cup {Unfiled}) \X (Notes \cup {Top})

NoTx == [op |-> "none", id |-> Top, folder |-> Unfiled, parent |-> Top, ids |-> {},
         wants |-> {}, holds |-> {}, fresh |-> TRUE, pc |-> "idle"]

TreeInit ==
    /\ note = [n \in Notes |->
                  [row |-> IF n \in DOMAIN Tree THEN "kept" ELSE "unused",
                   parent |-> IF n \in DOMAIN Tree THEN Tree[n] ELSE Top,
                   folder |-> Unfiled, batch |-> Live]]
    /\ folders = Folders
    /\ working = [s \in Sessions |-> NoTx]
    /\ asked = 0

----------------------------------------------------------------------------
(* The helpers of the service.                                             *)

\* Everything above a note, and a note with everything below it; both end on a cycle.
Ancestors(n) ==
    LET above[ids \in SUBSET Notes] ==
            LET parents == {note[m].parent : m \in ids} \ {Top}
            IN  IF parents \subseteq ids THEN ids ELSE above[ids \cup parents]
    IN  above[{n} \ {Top}]

noteSubtree(n) ==
    LET below[ids \in SUBSET Notes] ==
            LET children == {m \in Rows : note[m].parent \in ids}
            IN  IF children \subseteq ids THEN ids ELSE below[ids \cup children]
    IN  below[{n}]

OnCycle(n) == n \in Ancestors(note[n].parent)

\* noteSubtreeRows and assertNoNoteCycle refuse a walk that meets a loop.
SubtreeLoops(n) == \E m \in noteSubtree(n) : OnCycle(m)
noteCycle(n, parent) == n \in Ancestors(parent) \/ \E m \in Ancestors(parent) : OnCycle(m)

FolderExists(f) == f \in folders \cup {Unfiled}

validateContainer(folder, parent) ==
    /\ FolderExists(folder)
    /\ parent # Top => IsLive(parent) /\ note[parent].folder = folder

\* The row changed: a version check or a serializable write on it will fail.
Bump(sessions, ids) ==
    [s \in Sessions |->
        IF sessions[s].id \in ids \/ (sessions[s].op \in {"trash", "restore", "purge"}
                                      /\ sessions[s].ids \cap ids # {})
        THEN [sessions[s] EXCEPT !.fresh = FALSE]
        ELSE sessions[s]]

Close(s) == [working EXCEPT ![s] = NoTx]
Refuse(s) == working' = Close(s) /\ UNCHANGED <<note, folders, asked>>

Begin(s, tx) ==
    /\ working[s] = NoTx
    /\ asked < MaxAsked
    /\ asked' = asked + 1
    /\ working' = [working EXCEPT ![s] = tx]
    /\ UNCHANGED <<note, folders>>

\* lockSiblingGroups: the keys are sorted, so the wait for them never closes a circle.
lockSiblingGroups(s) ==
    \A other \in Sessions \ {s} : working[other].holds \cap working[s].wants = {}

----------------------------------------------------------------------------
(* Moving and creating.                                                    *)

moveRead(s, n, folder, parent) ==
    /\ IsLive(n) /\ parent # n
    /\ validateContainer(folder, parent)
    /\ ~SubtreeLoops(n)
    /\ LET ids == noteSubtree(n)
       IN  Begin(s, [NoTx EXCEPT
                !.op = "move", !.id = n, !.folder = folder, !.parent = parent,
                !.ids = ids, !.pc = "read",
                !.wants = {<<note[n].folder, note[n].parent>>, <<folder, parent>>}
                              \cup {<<note[n].folder, m>> : m \in ids}])

\* Mutant: the cycle is not looked for again under the locks.
moveLockUnchecked(s) ==
    LET t == working[s]
    IN  /\ t.op = "move" /\ t.pc = "read"
        /\ lockSiblingGroups(s)
        /\ IF ~validateContainer(t.folder, t.parent) THEN Refuse(s)
           ELSE /\ working' = [working EXCEPT ![s].pc = "locked", ![s].holds = t.wants]
                /\ UNCHANGED <<note, folders, asked>>

moveLock(s) ==
    LET t == working[s]
    IN  /\ t.op = "move" /\ t.pc = "read"
        /\ lockSiblingGroups(s)
        /\ IF noteCycle(t.id, t.parent) \/ ~validateContainer(t.folder, t.parent)
           THEN Refuse(s)
           ELSE /\ working' = [working EXCEPT ![s].pc = "locked", ![s].holds = t.wants]
                /\ UNCHANGED <<note, folders, asked>>

\* The folder is inherited by the descendants that were read before the locks.
moveCommit(s) ==
    LET t == working[s]
        follows == IF note[t.id].folder = t.folder THEN {} ELSE t.ids \cap Rows
    IN  /\ t.op = "move" /\ t.pc = "locked"
        /\ IF ~t.fresh \/ ~FolderExists(t.folder) \/ (t.parent # Top /\ t.parent \notin Rows)
           THEN Refuse(s)
           ELSE /\ note' = [n \in Notes |->
                       CASE n = t.id -> [note[n] EXCEPT !.parent = t.parent, !.folder = t.folder]
                         [] n \in follows \ {t.id} -> [note[n] EXCEPT !.folder = t.folder]
                         [] OTHER -> note[n]]
                /\ working' = Bump(Close(s), follows \cup {t.id})
                /\ UNCHANGED <<folders, asked>>

\* create, and copy: the parent is validated before and after the lock.
createRead(s, folder, parent) ==
    /\ validateContainer(folder, parent)
    /\ Begin(s, [NoTx EXCEPT !.op = "create", !.folder = folder, !.parent = parent,
                             !.pc = "read", !.wants = {<<folder, parent>>}])

createLock(s) ==
    LET t == working[s]
    IN  /\ t.op = "create" /\ t.pc = "read"
        /\ lockSiblingGroups(s)
        /\ IF ~validateContainer(t.folder, t.parent)
           THEN Refuse(s)
           ELSE /\ working' = [working EXCEPT ![s].pc = "locked", ![s].holds = t.wants]
                /\ UNCHANGED <<note, folders, asked>>

createCommit(s) ==
    LET t == working[s]
    IN  /\ t.op = "create" /\ t.pc = "locked"
        /\ IF ~FolderExists(t.folder) \/ (t.parent # Top /\ t.parent \notin Rows)
           THEN Refuse(s)
           ELSE /\ \E n \in Notes :
                       /\ note[n].row = "unused"
                       /\ note' = [note EXCEPT ![n] = [row |-> "kept", parent |-> t.parent,
                                                       folder |-> t.folder, batch |-> Live]]
                /\ working' = Close(s)
                /\ UNCHANGED <<folders, asked>>

----------------------------------------------------------------------------
(* Trash, restoration and permanent deletion of a subtree.                 *)

NoneSerializable == \A s \in Sessions : working[s].op \notin {"trash", "restore", "purge"}

softDeleteRead(s, n) ==
    /\ NoneSerializable
    /\ IsLive(n) /\ ~SubtreeLoops(n)
    /\ Begin(s, [NoTx EXCEPT !.op = "trash", !.id = n, !.pc = "read",
                     !.ids = noteSubtree(n),
                     !.wants = {<<note[n].folder, m>> : m \in {k \in noteSubtree(n) : IsLive(k)}}])

\* Mutant: everything below comes back, whichever deletion took it.
restoreAll(s, n) ==
    /\ NoneSerializable
    /\ n \in Rows /\ ~IsLive(n) /\ ~SubtreeLoops(n)
    /\ \A a \in Ancestors(note[n].parent) : IsLive(a)
    /\ Begin(s, [NoTx EXCEPT !.op = "restore", !.id = n, !.pc = "read", !.ids = noteSubtree(n),
                             !.wants = {<<note[n].folder, m>> : m \in noteSubtree(n)}])

restoreRead(s, n) ==
    LET ids == {m \in noteSubtree(n) : note[m].batch = note[n].batch}
    IN  /\ NoneSerializable
        /\ n \in Rows /\ ~IsLive(n) /\ ~SubtreeLoops(n)
        /\ \A a \in Ancestors(note[n].parent) : IsLive(a)
        /\ Begin(s, [NoTx EXCEPT !.op = "restore", !.id = n, !.pc = "read", !.ids = ids,
                                 !.wants = {<<note[n].folder, m>> : m \in ids}])

\* Mutant: only the note itself has to be in the trash.
permanentDeleteRoot(s, n) ==
    /\ NoneSerializable
    /\ n \in Rows /\ ~SubtreeLoops(n) /\ ~IsLive(n)
    /\ Begin(s, [NoTx EXCEPT !.op = "purge", !.id = n, !.pc = "read", !.ids = noteSubtree(n)])

permanentDeleteRead(s, n) ==
    /\ NoneSerializable
    /\ n \in Rows /\ ~SubtreeLoops(n)
    /\ \A m \in noteSubtree(n) : ~IsLive(m)
    /\ Begin(s, [NoTx EXCEPT !.op = "purge", !.id = n, !.pc = "read", !.ids = noteSubtree(n)])

\* The rows are locked, the groups are locked, and the rows are written.
softDeleteCommit(s) ==
    LET t == working[s]
    IN  /\ t.op = "trash"
        /\ lockSiblingGroups(s)
        /\ IF ~t.fresh THEN Refuse(s)
           ELSE /\ note' = [n \in Notes |-> IF n \in t.ids /\ IsLive(n)
                                            THEN [note[n] EXCEPT !.batch = asked] ELSE note[n]]
                /\ working' = Bump(Close(s), {n \in t.ids : IsLive(n)})
                /\ UNCHANGED <<folders, asked>>

restoreCommit(s) ==
    LET t == working[s]
    IN  /\ t.op = "restore"
        /\ lockSiblingGroups(s)
        /\ IF ~t.fresh THEN Refuse(s)
           ELSE /\ note' = [n \in Notes |-> IF n \in t.ids
                                            THEN [note[n] EXCEPT !.batch = Live] ELSE note[n]]
                /\ working' = Bump(Close(s), t.ids)
                /\ UNCHANGED <<folders, asked>>

\* The delete cascades; a child the snapshot does not know fails the transaction.
permanentDeleteCommit(s) ==
    LET t == working[s]
    IN  /\ t.op = "purge"
        /\ IF ~t.fresh \/ noteSubtree(t.id) # t.ids THEN Refuse(s)
           ELSE /\ note' = [n \in Notes |-> IF n \in t.ids
                                            THEN [note[n] EXCEPT !.row = "purged", !.parent = Top]
                                            ELSE note[n]]
                /\ working' = Bump(Close(s), t.ids)
                /\ UNCHANGED <<folders, asked>>

\* Deleting a folder files its notes under no folder, trashed ones included.
deleteFolder(f) ==
    LET filed == {n \in Rows : note[n].folder = f}
    IN  /\ f \in folders
        /\ folders' = folders \ {f}
        /\ note' = [n \in Notes |-> IF n \in filed THEN [note[n] EXCEPT !.folder = Unfiled]
                                                   ELSE note[n]]
        /\ working' = Bump(working, filed)
        /\ UNCHANGED asked

----------------------------------------------------------------------------
TreeNext ==
    \/ \E s \in Sessions :
        \/ \E n \in Notes, f \in Folders \cup {Unfiled}, p \in Notes \cup {Top} : moveRead(s, n, f, p)
        \/ \E f \in Folders \cup {Unfiled}, p \in Notes \cup {Top} : createRead(s, f, p)
        \/ \E n \in Notes : softDeleteRead(s, n) \/ restoreRead(s, n) \/ permanentDeleteRead(s, n)
        \/ moveLock(s) \/ moveCommit(s)
        \/ createLock(s) \/ createCommit(s)
        \/ softDeleteCommit(s) \/ restoreCommit(s) \/ permanentDeleteCommit(s)
    \/ \E f \in Folders : deleteFolder(f)

TreeSpec == TreeInit /\ [][TreeNext]_treeVars

----------------------------------------------------------------------------
(* What the hierarchy promises.                                            *)

\* The variables keep their types: a session that is at rest holds nothing.
TreeTypeOK ==
    /\ note \in [Notes -> [row : {"unused", "kept", "purged"}, parent : Notes \cup {Top},
                           folder : Folders \cup {Unfiled}, batch : 0..MaxAsked]]
    /\ folders \subseteq Folders
    /\ working \in [Sessions ->
          [op : {"none", "move", "create", "trash", "restore", "purge"},
           id : Notes \cup {Top}, folder : Folders \cup {Unfiled}, parent : Notes \cup {Top},
           ids : SUBSET Notes, wants : SUBSET Groups, holds : SUBSET Groups,
           fresh : BOOLEAN, pc : {"idle", "read", "locked"}]]
    /\ asked \in 0..MaxAsked

\* No two notes are each other's ancestor: such notes appear in no listing (notes.service.ts:746-754).
Acyclic == \A n \in Rows : ~OnCycle(n)

\* What one deletion took comes back whole and alone (setSubtreeDeleted).
RestoreUndoesDeletion ==
    [][\A n \in Notes :
          note[n].row = "kept" /\ note[n].batch # Live /\ note'[n].batch = Live =>
              \A m \in Rows : note[m].batch # Live =>
                  (note'[m].batch = Live <=> note[m].batch = note[n].batch)]_treeVars

\* The cascade of a permanent deletion removes no live note, however it came under a
\* trashed one (permanentDelete).
PurgeSparesTheLiving ==
    [][\A n \in Notes : IsLive(n) => note'[n].row = "kept"]_treeVars

=============================================================================
