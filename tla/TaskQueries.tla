----------------------------- MODULE TaskQueries -----------------------------
(***************************************************************************)
(* The questions an MCP client asks about a period: get_schedule           *)
(* (adapter/mcp/handler.rs and the period in adapter/mcp/input.rs) and     *)
(* list_tasks (application/task_use_case.rs).  Both look at the same plan, *)
(* one at what is worked on in the period and one at what begins in it.    *)
(* Times are hours, as in Timetable.                                       *)
(***************************************************************************)
EXTENDS Timetable

CONSTANTS
    Worlds,     \* what there is to plan and to list, and the time: see IsWorld
    DayLength, Morning,
    NoTime,     \* not done yet, or no deadline
    Dates,      \* the dates a client gives
    Nothing     \* a bound that is not given

Statuses == {"todo", "pending", "done"}

\* Candidates as in Timetable; of every task its status and times.
IsWorld(w) ==
    /\ w.now \in Int /\ ArePlannable(w.plan) /\ DOMAIN w.plan \subseteq DOMAIN w.tasks
    /\ \A t \in DOMAIN w.tasks :
          /\ w.tasks[t].status \in Statuses
          /\ w.tasks[t].created \in Int
          /\ w.tasks[t].deadline \in Int \cup {NoTime} /\ w.tasks[t].completed \in Int \cup {NoTime}

\* What the constants have to be.
Assumption ==
    /\ \A w \in Worlds : IsWorld(w)
    /\ DayLength \in Nat \ {0} /\ Morning \in 0..(DayLength - 1)
    /\ Dates \subseteq Int /\ Nothing \notin Dates

VARIABLES
    world,    \* the tasks and the plan of them
    asked,    \* the period asked for, << >> before
    shown,    \* what get_schedule answers, or "error"
    listed    \* [field -> the tasks list_tasks answers for it]

vars == <<world, asked, shown, listed>>

DateStart(date) == date * DayLength + Morning
DateOf(h) == (h - Morning) \div DayLength
NextBusinessDayStart_AtOnce(h) == DateStart(DateOf(h - 1) + 1)
NextBusinessDayStart(h) == DateStart(DateOf(h) + 1)

\* Given as dates; what is not given is now, or the end of the day it is from.
Period(from, until) ==
    LET start == IF from = Nothing THEN world.now ELSE DateStart(from)
    IN  [from |-> start,
         until |-> IF until = Nothing THEN NextBusinessDayStart(start) ELSE DateStart(until)]

Entries == ScheduleOf(world.plan, world.now)

GetSchedule_Touching(entries, p) == {e \in entries : e.from <= p.until /\ e.to >= p.from}
GetSchedule_Begun(entries, p) == {e \in entries : p.from <= e.from /\ e.from < p.until}
GetSchedule(entries, p) == {e \in entries : e.from < p.until /\ e.to > p.from}

In_Closed(h, p) == p.from <= h /\ h <= p.until
In(h, p) == p.from <= h /\ h < p.until

\* list_tasks for a period alone: statuses and categories only take away more.
ListTasks(entries, field, p) ==
    CASE field = "scheduled_start" -> {e.task : e \in {f \in entries : In(f.from, p)}}
      [] field = "created_at" -> {t \in DOMAIN world.tasks : In(world.tasks[t].created, p)}
      [] field = "deadline" ->
            {t \in DOMAIN world.tasks :
                world.tasks[t].deadline # NoTime /\ In(world.tasks[t].deadline, p)}
      [] field = "completed_at" ->
            {t \in DOMAIN world.tasks :
                world.tasks[t].completed # NoTime /\ In(world.tasks[t].completed, p)}

Fields == {"scheduled_start", "created_at", "deadline", "completed_at"}

Init ==
    /\ world \in Worlds
    /\ asked = << >> /\ shown = {} /\ listed = [f \in Fields |-> {}]

\* A period that does not begin before it ends is wrong input.
Ask(from, until) ==
    /\ asked = << >>
    /\ asked' = Period(from, until)
    /\ UNCHANGED world
    /\ IF asked'.from >= asked'.until
       THEN shown' = {} /\ UNCHANGED listed
       ELSE LET entries == Entries
            IN  /\ shown' = GetSchedule(entries, asked')
                /\ listed' = [f \in Fields |-> ListTasks(entries, f, asked')]

Next == \E from, until \in Dates \cup {Nothing} : Ask(from, until)
Spec == Init /\ [][Next]_vars

-----------------------------------------------------------------------------
Answered == asked # << >>
Whole == Answered /\ asked.from < asked.until

(* Whoever asks for one day sees exactly the work of that business day: an *)
(* hour of planned work is shown for the day it lies in and for no other   *)
(* day that a piece of work does not reach (input.rs:829 with              *)
(* handler.rs:170).                                                        *)
DayShowsItsWork ==
    \A d \in Dates : Answered /\ asked.from = DateStart(d) /\ asked.until = DateStart(d + 1) =>
        LET plan == PlanOf(world.plan, world.now)
        IN  \A t \in DOMAIN plan :
               /\ \A h \in plan[t].hours :
                     DateOf(h) = d => \E e \in shown : e.task = t /\ e.from <= h /\ h < e.to
               /\ \A e \in shown : e.task = t /\ e.from < e.to => \E h \in plan[t].hours : DateOf(h) = d

(* A period that a client gives by its first day, or not at all, ends with *)
(* the business day it begins in; it is never empty.                       *)
OneDay ==
    Answered /\ asked \in {Period(from, Nothing) : from \in Dates \cup {Nothing}} =>
        asked.from < asked.until /\ DateOf(asked.until - 1) = DateOf(asked.from)

(* The two questions agree: work that begins in the period is shown with   *)
(* it, and what is shown but begins before it is under way when it begins. *)
ListedIsShown ==
    Whole => /\ \A t \in listed["scheduled_start"] :
                   t \in DOMAIN world.plan /\ world.plan[t].work > 0 =>
                       \E e \in shown : e.task = t /\ In(e.from, asked)
             /\ \A e \in shown : e.task \in listed["scheduled_start"]
                                 \/ (e.from < asked.from /\ asked.from < e.to)

(* Adjacent periods part the tasks: what is created, due or done at one    *)
(* time is listed for the day of that time and for no other.               *)
DaysPartTasks ==
    \A d \in Dates : Answered /\ asked.from = DateStart(d) /\ asked.until = DateStart(d + 1) =>
        \A t \in DOMAIN world.tasks :
           /\ t \in listed["created_at"] <=> DateOf(world.tasks[t].created) = d
           /\ t \in listed["deadline"] <=>
                 world.tasks[t].deadline # NoTime /\ DateOf(world.tasks[t].deadline) = d

(* "The range from `from` on, before `until`" (README.md, get_schedule):   *)
(* what is planned to begin in the period is shown, work or no work.       *)
BegunInPeriodIsShown ==
    Whole => \A t \in listed["scheduled_start"] : \E e \in shown : e.task = t
=============================================================================
