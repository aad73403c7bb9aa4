------------------------------ MODULE TaskTimes ------------------------------
(***************************************************************************)
(* The parts that turn times into decisions: a routine (Repetition), the   *)
(* status of a task (TaskStatus), the free time of a day (FreeTime) and    *)
(* the words of the commands about time (DateExpressions).  They do not    *)
(* meet: `part` says which of them a behaviour is about, and the others    *)
(* are at rest.                                                            *)
(***************************************************************************)
EXTENDS Repetition, TaskStatus

CONSTANTS    \* of FreeTime
    DayLength, MorningSlot, Offset, Weekdays, LastDate, Files

CONSTANTS    \* of DateExpressions
    ShownTimes, LeafStarts, LeafWaits, LeafDeadlines, Words, MaxEstimate, DefaultDeadline

VARIABLES
    part,                      \* "routine", "status", "free" or "dates"
    hour, weekly, registered,  \* of FreeTime
    leaf, focused              \* of DateExpressions

freeVars == <<hour, weekly, registered>>
dateVars == <<leaf, focused>>
allVars == <<part, vars, statusVars, freeVars, dateVars>>

Free == INSTANCE FreeTime WITH Morning <- MorningSlot, now <- hour

Dates == INSTANCE DateExpressions WITH
    Clock <- ShownTimes, Starts <- LeafStarts, Waits <- LeafWaits, Deadlines <- LeafDeadlines,
    Values <- Words, Nothing <- NoDeadline

ASSUME FreeTimeAssumption == Free!Assumption
ASSUME DatesAssumption == Dates!AreWords

TimesInit ==
    \/ part = "routine" /\ Init
    \/ part = "status" /\ StatusInit
    \/ part = "free" /\ Free!Init
    \/ part = "dates" /\ Dates!Init

RoutineStep == part = "routine" /\ Next /\ UNCHANGED <<part, statusVars, freeVars, dateVars>>
StatusStep == part = "status" /\ StatusNext /\ UNCHANGED <<part, vars, freeVars, dateVars>>
FreeStep == part = "free" /\ Free!Next /\ UNCHANGED <<part, vars, statusVars, dateVars>>
DatesStep == part = "dates" /\ Dates!Next /\ UNCHANGED <<part, vars, statusVars, freeVars>>

TimesNext == RoutineStep \/ StatusStep \/ FreeStep \/ DatesStep

TimesSpec == TimesInit /\ [][TimesNext]_allVars

(* The free time between any two times is that of the slots between them,  *)
(* and the capacity of a day is the free time of it that is still to come. *)
CapacityIsFree == part = "free" => Free!CountsFreeTime /\ Free!CapacityIsFree

(* Every command reads a date as the same day, the first that is to come;  *)
(* clearing and putting off never bring work forward.                      *)
DatesAgree ==
    /\ [](part = "dates" => Dates!DatesAgree)
    /\ [][part = "dates" => Dates!PutsOff]_allVars
=============================================================================
