--------------------------- MODULE TaskRecurrence ---------------------------
(***************************************************************************)
(* Recurring tasks: the next occurrence (task-recurrence.ts), and the      *)
(* updates of a task that ask for it (tasks.service.ts).                   *)
(*                                                                         *)
(* A date is a day number; the calendar is the sequence of the days before *)
(* each month.  A task is followed through its completions: when one       *)
(* spawns a successor, either of the two is the task looked at next.       *)
(***************************************************************************)
EXTENDS Integers, Sequences, FiniteSets

CONSTANTS
    Before,        \* the number of days before each month, one month more than is used
    Week,          \* days of a week
    YearMonths,    \* months of a year
    HorizonYears,  \* TASK_RECURRENCE_HORIZON_YEARS
    LastDay,       \* bound: the clock stops here
    MaxUpdates,    \* bound: updates of the task
    None           \* no date

VARIABLES
    now,
    task,          \* due date, status and recurrence of the task looked at
    spawn,         \* the last completion of a recurring task, and what it spawned
    updates

recurrenceVars == <<now, task, spawn, updates>>

Recipes == {"none", "daily", "weekly", "monthly", "custom"}
Days == 1..LastDay

RecurrenceInit ==
    /\ now = 1
    /\ task \in [due : Days \cup {None}, status : {"todo"}, recurrence : Recipes]
    /\ spawn = None
    /\ updates = 0

----------------------------------------------------------------------------
(* The calendar.                                                           *)

Months == 1..Len(Before) - 1
Length(m) == Before[m + 1] - Before[m]
Dates == 1..Before[Len(Before)]

\* Date.UTC: a day beyond the end of its month runs into the next one.
Date(m, day) == Before[m] + day
MonthOf(d) == CHOOSE m \in Months : Before[m] < d /\ d <= Before[m + 1]
DayOf(d) == d - Before[MonthOf(d)]
Least(a, b) == IF a < b THEN a ELSE b
Greatest(a, b) == IF a > b THEN a ELSE b

----------------------------------------------------------------------------
(* task-recurrence.ts                                                      *)

\* Mutant: a day beyond the end of the month runs into the next one.
addMonths(from, months) == Date(MonthOf(from) + months, DayOf(from))

addMonthsClamped(from, months) ==
    LET m == MonthOf(from) + months
    IN  Date(m, Least(DayOf(from), Length(m)))

\* Mutant: the last date that is not ahead.
advanceToFloor(from, interval, floor) ==
    from + interval * Greatest(1, (floor - from) \div interval)

advanceFixed(from, interval, floor) ==
    from + interval * Greatest(1, ((floor - from) \div interval) + 1)

\* The bounded loop over the months, which stops at the first date after the floor.
advanceMonthly(from, floor) ==
    LET ahead == {k \in 1..YearMonths * HorizonYears + 1 : addMonthsClamped(from, k) > floor}
    IN  IF ahead = {} THEN None
        ELSE addMonthsClamped(from, CHOOSE k \in ahead : \A j \in ahead : k <= j)

Horizon(from) == Date(MonthOf(from) + YearMonths * HorizonYears, DayOf(from))

\* A cron expression may match at any later date, or never: near, or beyond the horizon.
advance(recurrence, from, floor) ==
    CASE recurrence = "daily"   -> {advanceFixed(from, 1, floor)}
      [] recurrence = "weekly"  -> {advanceFixed(from, Week, floor)}
      [] recurrence = "monthly" -> {advanceMonthly(from, floor)}
      [] recurrence = "custom"  -> {floor + 1, Horizon(from), Horizon(from) + 1, None} \ 1..floor
      [] OTHER -> {None}

nextOccurrence(recurrence, from) ==
    {IF next = None \/ next > Horizon(from) THEN None ELSE next :
        next \in advance(recurrence, from, Greatest(from, now))}

----------------------------------------------------------------------------
(* tasks.service.ts                                                        *)

Updates == updates < MaxUpdates /\ updates' = updates + 1

\* An update may set the recipe, the date and the status in one request.
update(due, status, recurrence) ==
    LET enteringDone == status = "done" /\ task.status # "done"
        changed == [due |-> due, status |-> status, recurrence |-> recurrence]
    IN  /\ Updates
        /\ UNCHANGED now
        /\ IF enteringDone /\ recurrence # "none" /\ due # None
           THEN \E next \in nextOccurrence(recurrence, due) :
                    /\ spawn' = [recurrence |-> recurrence, from |-> due, at |-> now, next |-> next]
                    /\ \/ task' = changed
                       \/ /\ next # None
                          /\ task' = [due |-> next, status |-> "todo", recurrence |-> recurrence]
           ELSE task' = changed /\ UNCHANGED spawn

\* A batch sets the status, and spawns nothing.
bulk(status) ==
    /\ Updates
    /\ task' = [task EXCEPT !.status = status]
    /\ UNCHANGED <<now, spawn>>

Tick == now < LastDay /\ now' = now + 1 /\ UNCHANGED <<task, spawn, updates>>

RecurrenceNext ==
    \/ \E due \in {task.due, None, now}, status \in {"todo", "done"}, r \in {task.recurrence, "monthly"} :
        update(due, status, r)
    \/ \E status \in {"todo", "done"} : bulk(status)
    \/ Tick

RecurrenceSpec == RecurrenceInit /\ [][RecurrenceNext]_recurrenceVars

----------------------------------------------------------------------------
(* What a recurrence promises.                                             *)

\* The dates a recipe names after a first one: every day, every week, and the day of the
\* month in every month, or its last day where the month is shorter.
Cadence(recurrence, from) ==
    CASE recurrence = "daily"   -> {d \in Dates : d > from}
      [] recurrence = "weekly"  -> {d \in Dates :
                                        d > from /\ (d - from) % Week = 0}
      [] recurrence = "monthly" -> {d \in Dates :
                                        /\ MonthOf(d) > MonthOf(from)
                                        /\ \/ DayOf(d) = DayOf(from)
                                           \/ DayOf(d) < DayOf(from) /\ DayOf(d) = Length(MonthOf(d))}

\* The variables keep their types (tasks.service.ts).
RecurrenceTypeOK ==
    /\ now \in Days
    /\ task \in [due : Dates \cup {None}, status : {"todo", "done"},
                 recurrence : Recipes]
    /\ updates \in 0..MaxUpdates

\* A successor is never overdue when it is spawned, and never beyond the horizon
\* (task-recurrence.ts:100-111).
SuccessorIsAhead ==
    spawn # None /\ spawn.next # None =>
        spawn.next > spawn.at /\ spawn.next > spawn.from /\ spawn.next <= Horizon(spawn.from)

\* It is the first date of the recipe that is ahead, and there is none only when the first
\* one ahead is beyond the horizon: no date of the recipe is skipped.
SuccessorIsFirst ==
    spawn # None /\ spawn.recurrence # "custom" =>
        LET ahead == {d \in Cadence(spawn.recurrence, spawn.from) :
                          d > spawn.at /\ d <= Horizon(spawn.from)}
        IN  IF ahead = {} THEN spawn.next = None
            ELSE spawn.next \in ahead /\ \A d \in ahead : spawn.next <= d

\* The successor of a task is the one its recipe names.
SuccessorInv == RecurrenceTypeOK /\ SuccessorIsAhead /\ SuccessorIsFirst
=============================================================================
