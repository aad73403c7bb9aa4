------------------------------- MODULE Planning -------------------------------
(***************************************************************************)
(* What is planned around the schedule: the times it starts from           *)
(* (Availability), moving work between days (DayPlan), the questions about *)
(* a period (TaskQueries) and the list of tasks (TaskList).  `part` says   *)
(* which of them a behaviour is about; the variables of the others are at  *)
(* rest.  Questions are asked in the hours and days of DayPlan, the list   *)
(* counts in ticks.                                                        *)
(***************************************************************************)
EXTENDS DayPlan

CONSTANTS
    QueryWorlds, Morning, Dates, Nothing,        \* of TaskQueries
    ListWorlds, Patterns, DayTicks, MorningTicks, OffsetTicks, Minute, Character, SummaryDays,
    GapIds, NoRow,                               \* of TaskList
    NoTime

VARIABLES
    part,
    world, asked,      \* of both
    shown, listed,     \* of TaskQueries
    rows, days, focus  \* of TaskList

queryVars == <<world, asked, shown, listed>>
listVars == <<rows, days, focus>>
planningVars == <<part, planVars, queryVars, listVars>>

Query == INSTANCE TaskQueries WITH Worlds <- QueryWorlds

List == INSTANCE TaskList WITH
    Worlds <- ListWorlds, DayLength <- DayTicks, Morning <- MorningTicks, Offset <- OffsetTicks,
    NoTask <- NoRow

ASSUME DaysAssumption == AreDays
ASSUME QueryAssumption == Query!Assumption
ASSUME ListAssumption == List!Assumption

-----------------------------------------------------------------------------
PlanningInit ==
    \/ part = "times" /\ ChainInit
    \/ part = "days" /\ PlanInit
    \/ part = "query" /\ Query!Init
    \/ part = "list" /\ List!Init

TimesStep ==
    /\ part = "times" /\ ChainNext
    /\ UNCHANGED <<part, job, drawn, plan, fresh, over, blocked, queue, before, packed>>
    /\ UNCHANGED <<queryVars, listVars>>
DaysStep == part = "days" /\ PlanNext /\ UNCHANGED <<part, queryVars, listVars>>
QueryStep == part = "query" /\ Query!Next /\ UNCHANGED <<part, planVars, listVars>>
ListStep == part = "list" /\ List!Next /\ UNCHANGED <<part, planVars, shown, listed>>

PlanningNext == TimesStep \/ DaysStep \/ QueryStep \/ ListStep

PlanningSpec == PlanningInit /\ [][PlanningNext]_planningVars

-----------------------------------------------------------------------------
(* A deadline moves the work before it as far as it has to and no further, *)
(* and a parent is available after its children (Availability).            *)
TimesFit == part = "times" => FitsDeadlines /\ RankedByTree

(* No move of flattening makes a task late that was not as late (DayPlan). *)
FlatteningKeepsTime == part = "days" => NothingNewIsLate

(* Every turn of flattening gives up a day or puts work off to a later one *)
(* (DayPlan).                                                              *)
FlatteningGoesOn == [][part = "days" => MovesOn]_planningVars

(* What packing moves is on the day it chose, all of it, unless a task of  *)
(* the same deadline and priority can begin there as well, and does not    *)
(* fill the day beyond its target unless other work begins on it (DayPlan). *)
PacksTheDay == part = "days" => PackedStays /\ PacksToTarget

(* Whoever asks for one day gets exactly what is worked on, begins, is     *)
(* created, due or done on it, from both tools (TaskQueries).              *)
AnswersTheDay ==
    part = "query" =>
        Query!DayShowsItsWork /\ Query!OneDay /\ Query!ListedIsShown /\ Query!DaysPartTasks

(* What the list and the calendar say of the days agrees with the plan and *)
(* with each other: no time and no work is left out or shown twice, the    *)
(* shortage is the backlog, and what is marked to be given up makes up for *)
(* it and for no more (TaskList).                                          *)
ListIsTrue == part = "list" => List!ListIsTrue
=============================================================================
