---------------------------- MODULE SiblingOrder ----------------------------
(***************************************************************************)
(* The order of siblings: fractional-order.ts, as notes.service.ts and     *)
(* tasks.service.ts use it.  A sibling group is listed by position, then   *)
(* by id; a row is placed halfway between two neighbours, and the group is *)
(* renumbered when no number is left between them.                         *)
(*                                                                         *)
(* A position is a whole number of quanta, the distance below which two    *)
(* doubles near it are equal; one unit of sort_order is Unit quanta.       *)
(* The advisory lock of a group lets one placement in it happen at a time, *)
(* so a READ COMMITTED placement, which reads under the lock, is one step. *)
(* A SERIALIZABLE one (tasks.service.ts) reads the snapshot its            *)
(* transaction took before it waited for the lock.                         *)
(***************************************************************************)
EXTENDS Integers, Sequences, FiniteSets, SequencesExt, TLC

CONSTANTS
    Items,         \* ids: a set of numbers, in the order of the ids
    Groups,
    Nowhere,       \* the group of an item that does not exist yet
    Home,          \* the group the contents of a deleted container go to
    Unit,
    Farthest,      \* positions beyond are renumbered (MAX_SAFE_INTEGER / 4)
    Sessions,      \* SERIALIZABLE transactions open at the same time
    Initial,       \* the initial group and position of each item
    MaxPlacements  \* bound

VARIABLES
    place,         \* group and position of each item
    snapshot,      \* what each open SERIALIZABLE transaction sees
    placements

orderVars == <<place, snapshot, placements>>

Closed == [seen |-> Initial, op |-> "none", item |-> 0, group |-> Nowhere, before |-> 0, beaten |-> FALSE]

OrderInit ==
    /\ place = Initial
    /\ snapshot = [s \in Sessions |-> Closed]
    /\ placements = 0

----------------------------------------------------------------------------
(* fractional-order.ts, on a listed group: a sequence of [id, at].         *)

\* loadSiblings, in the state of the table given; 0 excludes nobody.
siblings(table, group, excluded) ==
    SetToSortSeq({[id |-> i, at |-> table[i].at] :
                      i \in {j \in Items : table[j].group = group /\ j # excluded}},
                 LAMBDA a, b : a.at < b.at \/ (a.at = b.at /\ a.id < b.id))

IndexOf(rows, id) == CHOOSE k \in DOMAIN rows : rows[k].id = id
midpoint(a, b) == (a + b) \div 2

calculatePosition(rows, before) ==
    IF before # 0 THEN
        LET k == IndexOf(rows, before)
        IN  IF k = 1 THEN rows[1].at - Unit ELSE midpoint(rows[k - 1].at, rows[k].at)
    ELSE IF rows = <<>> THEN Unit ELSE rows[Len(rows)].at + Unit

\* Mutant: only the row that is named is compared with.
gapBehind(rows, before, at) ==
    /\ rows # <<>>
    /\ at = IF before = 0 THEN rows[Len(rows)].at ELSE rows[IndexOf(rows, before)].at

gapExhausted(rows, before, at) ==
    IF rows = <<>> THEN FALSE
    ELSE IF before = 0 THEN at = rows[Len(rows)].at
    ELSE LET k == IndexOf(rows, before)
         IN  IF k = 1 THEN at = rows[1].at
                      ELSE at \in {rows[k - 1].at, rows[k].at}

requiresRenormalization(rows) ==
    \E j, k \in DOMAIN rows : j # k /\ rows[j].at = rows[k].at

renormalize(rows) == [k \in DOMAIN rows |-> [rows[k] EXCEPT !.at = k * Unit]]

TooFar(at) == at > Farthest \/ at < -Farthest

\* positionFor: the rows of the group after it, and the position it returns.
positionFor(rows, before) ==
    LET listed == IF requiresRenormalization(rows) THEN renormalize(rows) ELSE rows
        at == calculatePosition(listed, before)
        renumbered == renormalize(listed)
    IN  IF TooFar(at) \/ gapExhausted(listed, before, at)
        THEN [rows |-> renumbered, at |-> calculatePosition(renumbered, before)]
        ELSE [rows |-> listed, at |-> at]

\* The rows a placement writes: the renumbered siblings, and the row itself.
Written(table, group, item, before) ==
    LET rows == siblings(table, group, item)
        found == positionFor(rows, before)
        moved == {k \in DOMAIN rows : found.rows[k] # rows[k]}
    IN  [i \in {rows[k].id : k \in moved} \cup {item} |->
            [group |-> group,
             at |-> IF i = item THEN found.at ELSE found.rows[IndexOf(found.rows, i)].at]]

Write(rows) == [i \in Items |-> IF i \in DOMAIN rows THEN rows[i] ELSE place[i]]

Anchors(table, group, item) == {0} \cup {i \in Items \ {item} : table[i].group = group}

----------------------------------------------------------------------------
(* READ COMMITTED: NotesService.create, copy and move, TasksService.create. *)

Place(item, group, before) ==
    /\ placements < MaxPlacements
    /\ before \in Anchors(place, group, item)
    /\ place' = Write(Written(place, group, item, before))
    /\ placements' = placements + 1
    /\ UNCHANGED snapshot

create(item, group, before) == place[item].group = Nowhere /\ Place(item, group, before)
move(item, group, before) == place[item].group # Nowhere /\ Place(item, group, before)

\* A deleted folder or project leaves its rows where they were in another group.
deleteContainer(group) ==
    /\ group # Home
    /\ \E i \in Items : place[i].group = group
    /\ place' = [i \in Items |-> IF place[i].group = group
                                 THEN [place[i] EXCEPT !.group = Home] ELSE place[i]]
    /\ UNCHANGED <<snapshot, placements>>

----------------------------------------------------------------------------
(* SERIALIZABLE: TasksService.reorder, and the successor of a completed task.  *)

SnapshotTaken(s, op, item, group, before) ==
    /\ snapshot[s] = Closed
    /\ placements < MaxPlacements
    /\ snapshot' = [snapshot EXCEPT ![s] = [seen |-> place, op |-> op, item |-> item,
                                            group |-> group, before |-> before,
                                            beaten |-> FALSE]]
    /\ placements' = placements + 1
    /\ UNCHANGED place

reorder(s, item, group, before) ==
    /\ place[item].group # Nowhere
    /\ before \in Anchors(place, group, item)
    /\ SnapshotTaken(s, "reorder", item, group, before)

complete(s, completed, successor) ==
    /\ place[completed].group # Nowhere
    /\ place[successor].group = Nowhere
    /\ SnapshotTaken(s, "spawn", successor, place[completed].group, completed)

\* spawnNextOccurrence: halfway to the next row, which is not looked at again.
Spawned(table, group, item, completed) ==
    LET at == table[completed].at
        after == {table[i].at : i \in {j \in Items : table[j].group = group /\ table[j].at > at}}
    IN  item :> [group |-> group,
                 at |-> IF after = {} THEN at + Unit
                        ELSE midpoint(at, CHOOSE n \in after : \A m \in after : n <= m)]

\* A row written since the snapshot, or another SERIALIZABLE placement in the group, aborts.
commit(s) ==
    LET t == snapshot[s]
        rows == IF t.op = "spawn" THEN Spawned(t.seen, t.group, t.item, t.before)
                                  ELSE Written(t.seen, t.group, t.item, t.before)
        conflict == t.beaten \/ \E i \in DOMAIN rows : place[i] # t.seen[i]
    IN  /\ t # Closed
        /\ place' = IF conflict THEN place ELSE Write(rows)
        /\ snapshot' = [other \in Sessions |->
               IF other = s THEN Closed
               ELSE IF ~conflict /\ snapshot[other].group = t.group
                    THEN [snapshot[other] EXCEPT !.beaten = TRUE]
               ELSE snapshot[other]]
        /\ UNCHANGED placements

\* The notes of a workspace, and its tasks.
NoteOrderNext ==
    \/ \E i \in Items, g \in Groups, before \in Items \cup {0} :
        create(i, g, before) \/ move(i, g, before)
    \/ \E g \in Groups : deleteContainer(g)

TaskOrderNext ==
    \/ \E i \in Items, g \in Groups, before \in Items \cup {0} : create(i, g, before)
    \/ \E g \in Groups : deleteContainer(g)
    \/ \E s \in Sessions :
        \/ \E i \in Items, g \in Groups, before \in Items \cup {0} : reorder(s, i, g, before)
        \/ \E i, j \in Items : complete(s, i, j)
        \/ commit(s)

NoteOrderSpec == OrderInit /\ [][NoteOrderNext]_orderVars
TaskOrderSpec == OrderInit /\ [][TaskOrderNext]_orderVars

----------------------------------------------------------------------------
(* What the order promises.                                                *)

\* The variables keep their types (fractional-order.ts): no position passes the bound by more than one unit.
OrderTypeOK ==
    /\ place \in [Items -> [group : Groups \cup {Nowhere}, at : -Farthest..Farthest]]
    /\ placements \in 0..MaxPlacements

Listed(table, group) == [k \in DOMAIN siblings(table, group, 0) |-> siblings(table, group, 0)[k].id]

\* A placement that reads under the lock lands right before the row it names, or last,
\* apart from every other row, and the others stay in the order they had, whatever the
\* gaps were and whatever group was merged into this one (positionFor).
PlacedWhereAsked ==
    [][placements' # placements =>
        \A i \in Items, g \in Groups, before \in Items \cup {0} :
          (create(i, g, before) \/ move(i, g, before)) =>
              LET others == SelectSeq(Listed(place, g), LAMBDA j : j # i)
                  after == Listed(place', g)
                  k == CHOOSE n \in DOMAIN after : after[n] = i
              IN  /\ SelectSeq(after, LAMBDA j : j # i) = others
                  /\ IF before = 0 THEN k = Len(after) ELSE after[k + 1] = before
                  /\ ~requiresRenormalization(siblings(place', g, 0))]_orderVars

=============================================================================
