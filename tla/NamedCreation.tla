---------------------------- MODULE NamedCreation ----------------------------
(***************************************************************************)
(* Rows that have a name of their own in a workspace, and requests that    *)
(* may come twice.                                                         *)
(*   "tags"      read committed: a lock guards the ceiling, an index the   *)
(*               names;                                                    *)
(*   "statuses"  of the whole workspace, serializable: no index guards     *)
(*               their names, only that the database refuses to commit     *)
(*               what another commit has made untrue.                      *)
(* A creation carries an idempotency key: an advisory lock lets one        *)
(* transaction of a key in at a time, and its record, of which there is    *)
(* but one, answers the others.                                            *)
(*                                                                         *)
(* A request whose connection is lost leaves what one that never came, or  *)
(* one whose answer nobody reads, leaves.                                  *)
(*                                                                         *)
(* A request is named by itself, and so is the row it creates: its id is   *)
(* minted before the transaction and kept by every try.                    *)
(***************************************************************************)
EXTENDS Naturals, FiniteSets, FiniteSetsExt

CONSTANTS
    Asking,      \* requests
    Seed,        \* the row that is there at first
    Keys,        \* idempotency keys, of one actor and one operation
    Names,
    Nil,         \* no record, no key, no answer
    Ceiling,     \* TAG_MAX_PER_WORKSPACE
    Tries        \* TRANSACTION_ATTEMPTS

VARIABLES
    kind,        \* what the rows are
    rows,
    records,     \* api_idempotency_records
    asking       \* the requests

creationVars == <<kind, rows, records, asking>>

Row(id, name, order) == [id |-> id, name |-> name, order |-> order]

Snapshot == [rows |-> rows, records |-> records]

Unasked == [op |-> "none", pc |-> "idle", key |-> Nil, name |-> Nil, target |-> Nil,
            snap |-> Nil, fate |-> "sound", tries |-> 0, answer |-> Nil]

CreationInit ==
    /\ kind \in {"tags", "statuses"}
    /\ \E name \in Names : rows = {Row(Seed, name, 1)}
    /\ records = [k \in Keys |-> Nil]
    /\ asking = [r \in Asking |-> Unasked]

----------------------------------------------------------------------------
(* Transactions.                                                           *)

At(r, pc) == asking[r].pc = pc
Is(r, op) == asking[r].op = op
Goes(r, pc) == asking' = [asking EXCEPT ![r].pc = pc]
\* Of a request that is answered only what it asked for and was given is kept.
Concluded(r, answer) ==
    IF answer \in Asking
    THEN [Unasked EXCEPT !.op = asking[r].op, !.pc = "done", !.key = asking[r].key,
                         !.name = asking[r].name, !.answer = answer]
    ELSE [Unasked EXCEPT !.pc = "done", !.answer = answer]
Concludes(r, answer) == asking' = [asking EXCEPT ![r] = Concluded(r, answer)]

Stored == UNCHANGED <<kind, rows, records>>

\* What the statements of a transaction see: its snapshot, or the last commit.
Seen(r) == IF kind = "statuses" THEN asking[r].snap ELSE Snapshot

\* The first statement of a transaction takes its snapshot, before it waits for a lock.
Entered(q) == [q EXCEPT !.pc = IF q.op = "create" THEN "lock" ELSE "check",
                        !.snap = IF kind = "statuses" THEN Snapshot ELSE Nil,
                        !.fate = "sound"]

\* DatabaseService.transaction tries again what the database refused to serialize.
TriesAgain(r) ==
    LET q == asking[r]
    IN asking' = [asking EXCEPT ![r] =
                    IF q.tries + 1 < Tries THEN Entered([q EXCEPT !.tries = @ + 1])
                    ELSE Concluded(r, "failed")]

\* Two serializable transactions, neither of which has seen the other, where each has
\* read what the other writes: the last place, a name, or a row.
Clash(p, q) ==
    \/ p.op = "create" /\ q.op = "create"
    \/ p.name # Nil /\ p.name = q.name
    \/ p.target # Nil /\ p.target = q.target

\* A commit spoils the transactions it clashes with, and the database may take it to
\* spoil the others that are open.
Disturbed(p, q) ==
    IF q.snap = Nil THEN q
    ELSE [q EXCEPT !.fate = IF Clash(p, q) THEN "spoiled" ELSE IF @ = "sound" THEN "moved" ELSE @]

Commits(r, answer) ==
    asking' = [q \in Asking |-> IF q = r THEN Concluded(r, answer)
                               ELSE Disturbed(asking[r], asking[q])]

----------------------------------------------------------------------------
(* Requests.                                                               *)

\* Requests are alike: any of those not asked yet may be the next.
request(r) ==
    /\ At(r, "idle") /\ r = CHOOSE q \in Asking : At(q, "idle")
    /\ \E name \in Names :
          \/ \E k \in Keys : asking' = [asking EXCEPT ![r] =
                Entered([Unasked EXCEPT !.op = "create", !.key = k, !.name = name])]
          \/ \E row \in rows : asking' = [asking EXCEPT ![r] =
                Entered([Unasked EXCEPT !.op = "rename", !.target = row.id, !.name = name])]
       \/ \E row \in rows : asking' = [asking EXCEPT ![r] =
                Entered([Unasked EXCEPT !.op = "remove", !.target = row.id])]
    /\ Stored

\* assertIdempotencyPayload, and the row the record names, if it is still there.
Replay(r, record) ==
    IF record.name # asking[r].name THEN "reused"
    ELSE IF \E row \in Seen(r).rows : row.id = record.id THEN record.id ELSE "missing"

loadApiIdempotency(r) ==
    LET record == Seen(r).records[asking[r].key]
    IN IF record = Nil THEN Goes(r, "check") ELSE Concludes(r, Replay(r, record))

\* The lock of a key is held to the end of the transaction.
Holds(r, k) == Is(r, "create") /\ asking[r].key = k /\ asking[r].pc \in {"check", "commit"}

\* Mutant: the key is not locked.
lockNothing(r) ==
    /\ At(r, "lock")
    /\ loadApiIdempotency(r)
    /\ Stored

lockApiIdempotency(r) ==
    /\ At(r, "lock")
    /\ \A other \in Asking : ~Holds(other, asking[r].key)
    /\ loadApiIdempotency(r)
    /\ Stored

Taken(r, names) ==
    \E row \in names : row.name = asking[r].name /\ row.id # asking[r].target

\* assertCapacity of the tags, under a lock of the workspace that is held to the end.
assertCapacity(r) ==
    /\ kind = "tags" /\ Is(r, "create") /\ At(r, "check")
    /\ \A other \in Asking : ~(Is(other, "create") /\ At(other, "commit"))
    /\ IF Cardinality(rows) >= Ceiling THEN Concludes(r, "full") ELSE Goes(r, "commit")
    /\ Stored

\* readRow and assertNameFree of the statuses.
assertNameFree(r) ==
    /\ kind = "statuses" /\ At(r, "check")
    /\ IF /\ asking[r].target # Nil
          /\ \A row \in Seen(r).rows : row.id # asking[r].target
       THEN Concludes(r, "missing")
       ELSE IF ~Is(r, "remove") /\ Taken(r, Seen(r).rows) THEN Concludes(r, "taken")
       ELSE Goes(r, "commit")
    /\ Stored

\* Tags are renamed and removed without a question.
checkNothing(r) ==
    /\ kind = "tags" /\ ~Is(r, "create") /\ At(r, "check")
    /\ Goes(r, "commit")
    /\ Stored

----------------------------------------------------------------------------
(* Writes, with the commit.                                                *)

\* max(sort_order) + 1 of the statuses; tags have no order.
nextSortOrder(r) ==
    IF kind = "tags" THEN 1 ELSE 1 + Max({row.order : row \in Seen(r).rows} \cup {0})

\* The index of the tags refuses a name that is taken, that of the records a key.
Refused(r) == kind = "tags" /\ Taken(r, rows)
Used(r) == Is(r, "create") /\ records[asking[r].key] # Nil

WritesNew(r) ==
    LET q == asking[r]
    IN /\ rows' = rows \cup {Row(r, q.name, nextSortOrder(r))}
       /\ records' = [records EXCEPT ![q.key] = [id |-> r, name |-> q.name]]

Writes(r) ==
    CASE Is(r, "create") -> WritesNew(r)
      [] Is(r, "rename") ->
            /\ rows' = {IF row.id = asking[r].target THEN [row EXCEPT !.name = asking[r].name]
                        ELSE row : row \in rows}
            /\ UNCHANGED records
      [] OTHER ->
            /\ rows' = {row \in rows : row.id # asking[r].target}
            /\ UNCHANGED records

Answer(r) == IF Is(r, "create") THEN r ELSE "done"

\* The row a write is about is not there any more; to remove it again is no fault.
Gone(r) == asking[r].target # Nil /\ \A row \in rows : row.id # asking[r].target

MayCommit(r) ==
    IF kind = "tags" THEN (Gone(r) => Is(r, "remove")) /\ ~Refused(r) /\ ~Used(r)
    ELSE asking[r].fate # "spoiled"

\* Mutant: read committed, also for the statuses.
commitUnserialized(r) ==
    /\ At(r, "commit") /\ ~Gone(r) /\ ~Refused(r) /\ ~Used(r)
    /\ Writes(r) /\ Commits(r, Answer(r))
    /\ UNCHANGED kind

commit(r) ==
    /\ At(r, "commit")
    /\ \/ MayCommit(r) /\ Writes(r) /\ Commits(r, Answer(r))
       \/ /\ kind = "tags" /\ ~MayCommit(r)
          /\ Concludes(r, CASE Gone(r) -> "missing" [] Refused(r) -> "taken" [] OTHER -> "failed")
          /\ UNCHANGED <<rows, records>>
       \/ /\ asking[r].fate # "sound"
          /\ TriesAgain(r)
          /\ UNCHANGED <<rows, records>>
    /\ UNCHANGED kind

Serving(r) ==
    \/ lockApiIdempotency(r) \/ assertCapacity(r)
    \/ assertNameFree(r) \/ checkNothing(r) \/ commit(r)

CreationNext == \E r \in Asking : request(r) \/ Serving(r)

\* The transactions of the server go on.
CreationFairness == \A r \in Asking : WF_creationVars(Serving(r))

----------------------------------------------------------------------------
(* Properties.                                                             *)

\* However close together a request and its repetitions come, none of them writes what
\* another has written: the repetition is answered, not refused (api-idempotency.ts).
RepetitionsAreSeen ==
    \A r \in Asking :
        At(r, "commit") /\ asking[r].fate # "spoiled" => ~Used(r)

\* Whoever is answered with a row is answered with that of his key and of his payload
\* (api-idempotency.ts, assertIdempotencyPayload).
AnsweredAlike ==
    \A r \in Asking :
        Is(r, "create") /\ asking[r].answer \in Asking =>
            records[asking[r].key] = [id |-> asking[r].answer, name |-> asking[r].name]

\* Two rows have two names (tags.ts, task-statuses.service.ts, assertNameFree).
NamesAreApart == \A a, b \in rows : a.name = b.name => a = b

\* Two statuses never share a place on the board (task-statuses.service.ts, nextSortOrder).
PlacesAreApart ==
    kind = "statuses" => \A a, b \in rows : a.order = b.order => a = b

\* The ceiling of the tags holds (tags.service.ts, assertCapacity).
CeilingHolds == kind = "tags" => Cardinality(rows) <= Ceiling

NamesInv ==
    RepetitionsAreSeen /\ AnsweredAlike /\ NamesAreApart /\ PlacesAreApart /\ CeilingHolds

\* Every request is answered (database.service.ts, transaction).
AnswersCome == \A r \in Asking : asking[r].pc \notin {"idle", "done"} ~> At(r, "done")
=============================================================================
