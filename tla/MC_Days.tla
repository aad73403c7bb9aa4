------------------------------- MODULE MC_Days -------------------------------
(***************************************************************************)
(* The parts that turn times into decisions (TaskTimes), for TLC.          *)
(*                                                                         *)
(* A routine over a fortnight, with times before and after 06:00; a task   *)
(* with buffers of one and two units, which keep the order of the five and *)
(* sixty minutes; days of four slots, the first of them before 06:00, and  *)
(* weeks of two days; the words of the commands about time, in the night   *)
(* before a leap day and on the last day of a year.                        *)
(***************************************************************************)
EXTENDS TaskTimes

-----------------------------------------------------------------------------
TimeOn(day, hr) == At(day, hr * Hour)

RoutinesDueAt(hours) ==
    {[est |-> IF n = 1 THEN 900 ELSE 4000, start |-> TimeOn(0, 8), ddl |-> d,
      interval |-> n, anchor |-> a, advance |-> 1] :
        d \in {TimeOn(0, h) : h \in hours} \cup {NoTime}, n \in {1, 8},
        a \in {"deadline", "completion"}}

\* Of those with a long interval one is enough: they are not swept.
RoutinesByDay == {r \in RoutinesDueAt({6}) : r.interval = 1 \/ (r.anchor = "deadline" /\ r.ddl # NoTime)}
RoutinesByNight == RoutinesDueAt({2})

SomeStarts == {TimeOn(1, 9)}
SomeDeadlines == {TimeOn(2, 4), TimeOn(2, 22)}
LastDay == TimeOn(3, 0)
SomeRoutineDeadlines == {TimeOn(0, 7)}
NightDeadlines == {TimeOn(0, 1)}
SomeClock == {TimeOn(2, 5), TimeOn(2, 21), TimeOn(6, 6)}
TwoTimes == {TimeOn(2, 5), TimeOn(6, 6)}

RoutineRests ==
    /\ routine = CHOOSE r \in Routines : TRUE
    /\ occ = <<[start |-> 0, ddl |-> NoTime, est |-> 0, act |-> 0, done |-> FALSE]>>
    /\ now = 0 /\ sweeping = FALSE /\ rest = {}

-----------------------------------------------------------------------------
\* The clock goes on after every time a task can wait for.
NamedHours == 0..3
ClockHours == 0..4

StatusRests ==
    /\ task = [orig |-> "todo", status |-> "todo", start |-> 0, pend |-> 0, ddl |-> NoDeadline,
               est |-> 0, act |-> 0, synced |-> 0]
    /\ fresh = TRUE

-----------------------------------------------------------------------------
Slot(from, length) == [from |-> from, length |-> length]
Entry(day, slots) == [day |-> day, slots |-> slots]

SomeFiles ==
    {<<Entry(0, {Slot(1, 2)}), Entry(1, {})>>,
     <<Entry(1, {Slot(0, 1), Slot(2, 1)}), Entry(0, {Slot(0, 3), Slot(2, 0)})>>,
     <<Entry(0, {Slot(1, 1)})>>,                                 \* a weekday is missing
     <<Entry(0, {}), Entry(0, {Slot(1, 1)}), Entry(1, {})>>,     \* one is there twice
     <<Entry(0, {Slot(1, 1)}), Entry(1, {Slot(3, 1)})>>,         \* reaches midnight
     <<Entry(1, {Slot(2, -1)}), Entry(0, {})>>,                  \* negative
     <<Entry(0, {Slot(4, 0)}), Entry(1, {})>>,                   \* no such time
     <<Entry(1, {}), Entry(7, {}), Entry(0, {})>>}               \* no such weekday

-----------------------------------------------------------------------------
(* Words that are before and after the clock, in it and after midnight.    *)
Time(hr) == [is |-> "time", h |-> hr, m |-> 0]
SomeWords ==
    {Time(15), Time(26), [is |-> "monthday", k |-> 60], [is |-> "weekday", w |-> 2],
     [is |-> "amount", n |-> 2, unit |-> "day"], [is |-> "amount", n |-> 0, unit |-> "minute"]}

TwoNights == {TimeOn(58, 3), TimeOn(365, 14)}
OneStart == {TimeOn(57, 9)}
TwoHours == 2 * Hour
Evening == 22 * Hour

DatesRest == leaf = "none" /\ focused = FALSE

-----------------------------------------------------------------------------
DaysInit ==
    \/ part = "routine" /\ Init /\ StatusRests /\ Free!Init /\ DatesRest
    \/ part = "status" /\ RoutineRests /\ StatusInit /\ Free!Init /\ DatesRest
    \/ part = "free" /\ RoutineRests /\ StatusRests /\ Free!Init /\ DatesRest
    \/ part = "dates" /\ RoutineRests /\ StatusRests /\ Free!Init /\ Dates!Init

\* The fairness of Repetition and of TaskStatus.
DaysSpec ==
    /\ DaysInit /\ [][TimesNext]_allVars
    /\ WF_allVars(part = "routine" /\ Sweep /\ UNCHANGED <<part, statusVars, freeVars, dateVars>>)
    /\ WF_allVars(part = "status" /\ SyncClock /\ UNCHANGED <<part, vars, freeVars, dateVars>>)
=============================================================================
