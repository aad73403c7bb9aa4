------------------------------- MODULE TaskList -------------------------------
(***************************************************************************)
(* The list of tasks and the calendar of the days to come:                 *)
(* execute_show_all_tasks_with_config of controller/schronu/runtime.rs,    *)
(* the command 全 with all its patterns, 尾, 今, 単, 暦 and 帯.                 *)
(*                                                                         *)
(* Times and work are in ticks, the times of the plan as in Timetable; the *)
(* calendar counts in minutes of some ticks, and so it rounds.  How much   *)
(* of a day is free is part of the world (FreeTime says how it is found).  *)
(* Floating-point numbers are exact, and how a row looks is left out.      *)
(***************************************************************************)
EXTENDS Timetable, SequencesExt

CONSTANTS
    Worlds,          \* what there is to list, and the time: see IsWorld
    Patterns,        \* what one can ask for: see Selected
    DayLength, Morning, Offset,   \* ticks of a day, its beginning, and end_of_day_offset_minutes
    Minute, Character,              \* ticks of a minute and of a character of the band
    SummaryDays,     \* the days of the calendar, 28 in the code
    GapIds,          \* where the new id of a gap may stand among those of the tasks
    NoTime, NoTask

VARIABLES
    world,
    asked,    \* the pattern and the order of the list, << >> before
    rows,     \* what is shown, from the top
    days,     \* the days of the calendar, from the first
    focus

vars == <<world, asked, rows, days, focus>>

DateOf(t) == (t - Morning) \div DayLength

\* The tasks and their plan, and what is free of a day: all of it, but today.
IsWorld(w) ==
    /\ w.now \in Int /\ w.busy \in Nat /\ ArePlannable(w.plan) /\ DOMAIN w.tasks = DOMAIN w.plan
    /\ \A t \in DOMAIN w.tasks :
          LET task == w.tasks[t]
          IN  /\ task.ddl \in Int \cup {NoTime} /\ task.start \in Int /\ task.prio \in Int
              /\ task.est \in Nat /\ task.repeats \in BOOLEAN /\ task.waits \in BOOLEAN
    /\ DOMAIN w.whole = DOMAIN w.free
    /\ \A d \in DOMAIN w.free :
          /\ w.free[d] \in Nat /\ w.whole[d] \in Nat /\ w.free[d] <= w.whole[d]
          /\ w.whole[d] * Minute <= DayLength
          /\ d # DateOf(w.now) => w.free[d] = w.whole[d]
    /\ \A e \in ScheduleOf(w.plan, w.now) : DateOf(e.from) \in DOMAIN w.free

Assumption ==
    /\ \A w \in Worlds : IsWorld(w) /\ GapIds \cap DOMAIN w.tasks = {}
    /\ {DayLength, Minute, Character} \subseteq Nat \ {0} /\ DayLength % Character = 0
    /\ Morning \in 0..(DayLength - 1) /\ Offset \in Int /\ SummaryDays \in Nat \ {0}
    /\ GapIds \subseteq Int

\* A set as a sequence, in a strict order of its elements.
InOrder(S, before(_, _)) ==
    [i \in 1..Cardinality(S) |-> CHOOSE e \in S : Cardinality({f \in S : before(f, e)}) = i - 1]

-----------------------------------------------------------------------------
NextBusinessDayStart(t) == (DateOf(t) + 1) * DayLength + Morning
DateEnd(date) == (date + 1) * DayLength + Offset
Today == DateOf(world.now)
Tomorrow == NextBusinessDayStart(world.now)
Weekday(date) == date % 7                      \* 0 is Monday
DaysToSunday == (6 - Weekday(Today)) % 7
Ahead(e) == DateOf(e.from) - Today

\* To whole minutes, towards zero.
Whole(ticks) == IF ticks < 0 THEN -((-ticks) \div Minute) * Minute ELSE (ticks \div Minute) * Minute

(***************************************************************************)
(* The rows                                                                *)
(***************************************************************************)
Task(e) == world.tasks[e.task]
Rank(e) == world.plan[e.task].rank
Work(e) == e.to - e.from

\* get_schedule in the order it returns.
Entry(e, f) ==
    LET key(x) == <<x.from, IF Task(x).ddl = NoTime THEN 1 ELSE 0, -Task(x).prio, Rank(x), x.task>>
    IN  \E i \in 1..5 : key(e)[i] < key(f)[i] /\ \A j \in 1..(i - 1) : key(e)[j] = key(f)[j]

\* Some patterns look no further than some day.
InReach(p, e) ==
    /\ p.is = "today" => Ahead(e) <= 0
    /\ p.is \in {"tomorrow", "near"} => Ahead(e) <= 1
    /\ p.is \in {"calendar", "band"} => Ahead(e) <= SummaryDays

Considered(p) == InOrder({e \in ScheduleOf(world.plan, world.now) : InReach(p, e)}, Entry)

\* The time nothing before entry i of s is planned at any more.
Cursor(s, i) == Max({world.now} \cup {s[j].to : j \in 1..(i - 1)})

GapIsShown(p, s, i) ==
    /\ s[i].from - Cursor(s, i) >= Minute
    /\ \/ p.is = "today" /\ s[i].from < Tomorrow
       \/ p.is = "tomorrow" /\ Cursor(s, i) >= Tomorrow /\ s[i].from - Tomorrow < DayLength
       \/ p.is = "near" /\ s[i].from - Tomorrow < DayLength

DueToday(e) == Task(e).ddl # NoTime /\ Task(e).ddl < Tomorrow

Icon(e) ==
    IF DueToday(e) THEN IF Task(e).ddl < e.to THEN "late" ELSE "due"
    ELSE IF Rank(e) = 0 /\ e.from < DateEnd(Today) THEN "leaf" ELSE "none"

\* A number of minutes asks for one task, see Offer; 暦 and 帯 show none.
Selected(p, e) ==
    CASE p.is = "leaves" -> Rank(e) = 0 \/ DueToday(e)
      [] p.is = "branches" -> Rank(e) > 0
      [] p.is = "marked" -> Icon(e) # "none"
      [] p.is = "due" -> Icon(e) \in {"late", "due"}
      [] p.is = "today" -> Ahead(e) = 0
      [] p.is = "tomorrow" -> Ahead(e) = 1
      [] p.is = "near" -> Ahead(e) \in {0, 1}
      [] p.is = "single" -> ~Task(e).repeats
      [] p.is = "weekday" ->
            LET d == (p.day - Weekday(Today)) % 7 IN Ahead(e) = (IF d = 0 THEN 7 ELSE d)
      [] p.is = "week" -> Ahead(e) < 7
      [] p.is = "weekend" -> Ahead(e) <= DaysToSunday
      [] p.is = "next week" -> DaysToSunday < Ahead(e) /\ Ahead(e) <= DaysToSunday + 7
      [] p.is = "date" -> DateOf(e.from) = p.date
      [] p.is = "word" -> e.task \in p.named
      [] p.is \in {"calendar", "band", "minutes"} -> FALSE
      [] p.is = "all" -> TRUE

\* The rows of the tasks and the gaps, as they come in the plan.
Gap(s, i) == [gap |-> TRUE, task |-> NoTask, from |-> Cursor(s, i), to |-> s[i].from, up |-> FALSE]
Row(e) == [gap |-> FALSE, task |-> e.task, from |-> e.from, to |-> e.to, up |-> FALSE]

\* For so many minutes: of what can be begun by the end of today, the first of
\* the biggest that takes less.
Offer(p, s) ==
    LET fits == {i \in DOMAIN s :
                    /\ s[i].from <= Tomorrow /\ Task(s[i]).start <= world.now
                    /\ Rank(s[i]) = 0 /\ ~Task(s[i]).waits
                    /\ 0 < Work(s[i]) /\ Work(s[i]) < p.minutes * Minute}
        biggest == {i \in fits : \A j \in fits : Work(s[j]) <= Work(s[i])}
    IN  IF fits = {} THEN << >> ELSE <<Row(s[Min(biggest)])>>

Rows(p, s) ==
    IF p.is = "minutes" THEN Offer(p, s)
    ELSE FlattenSeq([i \in DOMAIN s |->
            (IF GapIsShown(p, s, i) THEN <<Gap(s, i)>> ELSE << >>)
            \o (IF Selected(p, s[i]) THEN <<Row(s[i])>> ELSE << >>)])

(***************************************************************************)
(* The calendar                                                            *)
(***************************************************************************)
WorkOf(S) == SumFunction([e \in S |-> Work(e)])

\* What can be moved forward: the task alone says how much, not its piece.
Adjustable(e) ==
    /\ Rank(e) = 0 /\ ~Task(e).waits
    /\ DateOf(world.plan[e.task].avail) > DateOf(Max({Task(e).start, world.now}))

\* Of a day with tasks, its sums.
Sums(d, S) ==
    LET here == {e \in S : DateOf(e.from) = d}
    IN  [date |-> d,
         count |-> Cardinality(here),
         work |-> WorkOf(here),
         routine |-> WorkOf({e \in here : Task(e).repeats}),
         due |-> WorkOf({e \in S : Task(e).ddl # NoTime /\ DateOf(Task(e).ddl) = d}),
         adjustable |-> SumFunction([e \in {p \in here : Adjustable(p)} |-> Task(e).est]),
         free |-> world.free[d] * Minute,
         limit |-> 0, goal |-> 0]       \* see Days

\* Ten times what the work that is no routine has over seven tenths of its time.
OverGoal(c) ==
    LET time == c.free - c.routine
    IN  IF time <= 0 THEN 0 ELSE 10 * (c.work - c.routine) - 7 * time
Leeway(c) == Max({0, -OverGoal(c)})

\* What is too much is carried on to the next day there are tasks on; what is
\* left over takes from it no more than what can be moved forward.
Limit_Uncapped(before, c) == before + Whole(c.work - c.free)
Limit(before, c) == Max({before, -c.adjustable}) + Whole(c.work - c.free)

Goal(before, limit, c) ==
    LET time == c.free - c.routine
        minutes == Whole(limit)
    IN  IF minutes >= 0 \/ time <= 0 THEN limit
        ELSE IF 10 * minutes < -3 * time /\ OverGoal(c) < 0
             THEN before - Whole(Leeway(c) \div 10)
        ELSE 0

\* One day after the other; before the first there is nothing.
Limits(sums) ==
    LET limit[k \in 0..Len(sums)] == IF k = 0 THEN 0 ELSE Limit(limit[k - 1], sums[k])
    IN  limit
Goals(sums, limit) ==
    LET goal[k \in 0..Len(sums)] == IF k = 0 THEN 0 ELSE Goal(goal[k - 1], limit[k], sums[k])
    IN  goal

Days(s) ==
    LET all == ToSet(s)
        dates == InOrder({DateOf(e.from) : e \in all}, <)
        sums == [k \in 1..Min({Len(dates), SummaryDays}) |-> Sums(dates[k], all)]
        limit == Limits(sums)
        goal == Goals(sums, limit)
    IN  [k \in DOMAIN sums |-> [sums[k] EXCEPT !.limit = limit[k], !.goal = goal[k]]]

(***************************************************************************)
(* What has to be given up: on a day that is too full the tasks of the     *)
(* least priority, and of them the last, until they make up for it.        *)
(***************************************************************************)
GivenUpFirst(r, s) ==
    LET key(x) == <<Task(x).prio, -x.from, -Rank(x), -x.task>>
    IN  \E i \in 1..4 : key(r)[i] < key(s)[i] /\ \A j \in 1..(i - 1) : key(r)[j] = key(s)[j]

GiveUpCandidates(shown, d) == {r \in shown : ~r.gap /\ Work(r) > 0 /\ DateOf(r.from) = d}

GivenUp(shown, cal) ==
    UNION {LET of == GiveUpCandidates(shown, cal[k].date)
           IN  {r \in of : WorkOf({s \in of : GivenUpFirst(s, r)}) < cal[k].limit} : k \in DOMAIN cal}

Marked(list, cal) ==
    LET up == GivenUp(ToSet(list), cal)
    IN  [i \in DOMAIN list |-> [list[i] EXCEPT !.up = list[i] \in up]]

\* A gap has a new id, before or after those of the tasks, and no priority.
LowPriorityTail(list, gapId) ==
    LET key(r) == IF r.gap THEN <<0, r.from, 0, gapId>>
                  ELSE <<-Task(r).prio, r.from, Rank(r), r.task>>
        before(i, j) == \E n \in 1..4 : key(list[i])[n] < key(list[j])[n]
                                       /\ \A m \in 1..(n - 1) : key(list[i])[m] = key(list[j])[m]
        order == InOrder(DOMAIN list, before)
    IN  [i \in DOMAIN list |-> list[order[i]]]

(***************************************************************************)
(* A day as a band of characters.  Every boundary is rounded by itself.    *)
(***************************************************************************)
Parts(c) ==
    LET whole == world.whole[c.date] * Minute
    IN  <<DayLength - whole,                                        \* fixed
          IF c.date = Today THEN whole - c.free ELSE 0,             \* over already
          c.routine, c.work - c.routine,
          (Leeway(c) + 5) \div 10>>

Rounded(ticks) == (ticks + Character \div 2) \div Character
SumTo(parts, n) == SumFunction([i \in 1..n |-> parts[i]])

\* The characters of each part and of what is left of the day, and those after
\* the band for what is beyond it.
Band(c) ==
    LET parts == Parts(c)
        used == SumTo(parts, 5)
        boundary(i) == IF i = 6 THEN DayLength \div Character
                       ELSE Rounded(Min({SumTo(parts, i), DayLength}))
    IN  [cells |-> [i \in 1..6 |-> boundary(i) - (IF i = 1 THEN 0 ELSE boundary(i - 1))],
         over |-> Rounded(Max({0, used - DayLength}))]

(***************************************************************************)
(* The rest of the lines                                                   *)
(***************************************************************************)
\* When today's work would be done, and the load of the time that is left.
TodaysWork == LET today == {k \in DOMAIN days : days[k].date = Today}
              IN  IF today = {} THEN 0 ELSE days[Min(today)].work
LeftToday == Max({0, Whole(DateEnd(Today) - world.now)})
Available == LeftToday - world.busy * Minute
FinishTime == world.now - Whole(-TodaysWork - Minute + 1) + world.busy * Minute
Overloaded == Available <= 0 \/ TodaysWork > Available

\* Work by category, against the free time of the days shown.
Categories(list) ==
    LET shown == {r \in ToSet(list) : ~r.gap}
    IN  [c \in {Task(r).category : r \in shown} |-> WorkOf({r \in shown : Task(r).category = c})]
Denominator(list) ==
    SumFunction([d \in {DateOf(r.from) : r \in {q \in ToSet(list) : ~q.gap}} |-> world.free[d] * Minute])

\* The warnings below the calendar, by the first days it has.
InTime(c) == c.due <= c.free
Fits(c) == c.work <= c.free
Warnings ==
    {w \in {"today's deadlines", "today", "new tasks", "tomorrow's deadlines", "tomorrow",
            "the week's deadlines", "the week"} :
        \E k \in DOMAIN days :
            CASE w = "today's deadlines" -> k = 1 /\ ~InTime(days[k])
              [] w = "today" -> k = 1 /\ ~Fits(days[k])
              [] w = "new tasks" -> k = 1 /\ Fits(days[k]) /\ OverGoal(days[k]) > 0
              [] w = "tomorrow's deadlines" -> k = 2 /\ ~InTime(days[k])
              [] w = "tomorrow" -> k = 2 /\ ~Fits(days[k])
              [] w = "the week's deadlines" -> k \in 3..7 /\ ~InTime(days[k])
              [] w = "the week" -> k \in 3..7 /\ days[k].limit > 0}

\* The days on which more can be put, those after the first with nothing left
\* over, and those with the most.
HasLeeway == {k \in DOMAIN days : days[k].goal < 0}
CaughtUp == {k \in DOMAIN days \ {1} : days[k].limit < 0}
Fullest == {k \in DOMAIN days : \A j \in DOMAIN days : days[j].limit <= days[k].limit}

\* What is written below the calendar and the band.  A day that is not there
\* is written as one far ahead, the last of 2037.
FarAhead == 1000000
Summary ==
    LET first(S) == IF S = {} THEN FarAhead ELSE days[Min(S)].date
    IN  [clear |-> first(CaughtUp), room |-> first(HasLeeway), fullest |-> first(Fullest),
         says |-> IF Warnings = {} THEN {"all is well"} ELSE Warnings]

-----------------------------------------------------------------------------
Init == world \in Worlds /\ asked = << >> /\ rows = << >> /\ days = << >> /\ focus = NoTask

\* The focus is left on the last row, be it a gap.
ShowAllTasks(p, order, gapId) ==
    /\ asked = << >>
    /\ asked' = [pattern |-> p, order |-> order]
    /\ UNCHANGED world
    /\ LET s == Considered(p)
           cal == Days(s)
           list == Marked(Rows(p, s), cal)
       IN  /\ days' = cal
           /\ rows' = IF order = "tail" THEN LowPriorityTail(list, gapId) ELSE Reverse(list)
    /\ focus' = IF rows' = << >> THEN focus ELSE Last(rows').task

Next == \E p \in Patterns, order \in {"plan", "tail"}, gapId \in GapIds : ShowAllTasks(p, order, gapId)
Spec == Init /\ [][Next]_vars

-----------------------------------------------------------------------------
Shown == asked # << >>
Asked(kinds) == Shown /\ asked.pattern.is \in kinds
Pieces == ScheduleOf(world.plan, world.now)

(* What is carried to a day is a backlog: the most by which any run of     *)
(* days up to it, begun with nothing or with what could be moved forward   *)
(* to its first day, has more work than time (runtime.rs:3563).            *)
ShortageIsBacklog ==
    \A k \in DOMAIN days :
        LET over(i) == SumFunction([j \in i..k |-> Whole(days[j].work - days[j].free)])
        IN  days[k].limit = Max({over(1)} \cup {over(i) - days[i].adjustable : i \in 2..k})

(* What is marked A is enough and no more: without the tasks marked on a   *)
(* day it would not be too full, as far as it shows tasks, and without any *)
(* one mark it would be; no mark goes to a task while one of the day that  *)
(* matters less keeps its place.  In the order of 尾 they stand last of the *)
(* tasks of their day (runtime.rs:2438, sort at 2418).                     *)
GiveUpsSuffice ==
    Shown /\ ~Asked({"calendar", "band"}) => \A k \in DOMAIN days :
        LET here == GiveUpCandidates(ToSet(rows), days[k].date)
            up == {r \in here : r.up}
        IN  /\ days[k].limit <= 0 => up = {}
            /\ days[k].limit > 0 => up = here \/ WorkOf(up) >= days[k].limit
            /\ \A r \in up : \E s \in up : Task(s).prio >= Task(r).prio
                                          /\ WorkOf(up \ {s}) < days[k].limit
            /\ \A r \in up, s \in here \ up : Task(r).prio <= Task(s).prio
            /\ asked.order = "tail" =>
                  \A i, j \in DOMAIN rows : rows[i] \in up /\ rows[j] \in here \ up => j < i

(* The list of today and the list of today and tomorrow leave no time out: *)
(* from now to the end of the last task every time is in one row, or in a  *)
(* gap of less than a minute (runtime.rs:3085, cursor at 2411).            *)
TimeIsAccountedFor ==
    Asked({"today", "near"}) => \A h \in world.now..(Max({r.to : r \in ToSet(rows)} \cup {world.now}) - 1) :
        LET at == {r \in ToSet(rows) : r.from <= h /\ h < r.to}
        IN  \/ Cardinality(at) = 1
            \/ at = {} /\ \E d \in 1..(Minute - 1), e \in Pieces : e.from = h + d

(* Every piece of work of the coming seven days is on the list of today or *)
(* of one weekday, and of no two; what one list shows of a day the other   *)
(* shows (runtime.rs:3275).                                                *)
WeekIsParted ==
    \A e \in Pieces : Ahead(e) \in 0..7 =>
        Cardinality({d \in 0..6 : Selected([is |-> "weekday", day |-> d], e)})
            = IF Selected([is |-> "today"], e) THEN 0 ELSE 1

(* The calendar counts all the work there is, every piece on one day, and  *)
(* a routine never as more than the day's work (runtime.rs:3117).          *)
CalendarCountsAll ==
    Asked({"all", "leaves", "calendar"}) =>
        /\ Len(days) < SummaryDays /\ asked.pattern.is # "calendar" =>
              SumFunction([k \in DOMAIN days |-> days[k].work])
                  = SumFunction([t \in DOMAIN world.plan |-> world.plan[t].work])
        /\ \A k \in DOMAIN days : days[k].routine <= days[k].work /\ days[k].count > 0
        /\ \A j, k \in DOMAIN days : j < k => days[j].date < days[k].date

(* The band of a day has the characters of a day whatever is in it, none   *)
(* of its parts is off by a whole one, and there is something after it     *)
(* only if the work is more than the time, by half a character at least    *)
(* (runtime.rs:2088, README.md, 帯).                                       *)
BandIsADay ==
    \A k \in DOMAIN days :
        LET band == Band(days[k])
            parts == Parts(days[k])
            excess == days[k].work - days[k].free
        IN  /\ SumTo(band.cells, 6) = DayLength \div Character
            /\ \A i \in 1..6 : band.cells[i] >= 0
            /\ excess <= 0 => \A i \in 1..5 : band.cells[i] * Character - parts[i] \in (1 - Character)..(Character - 1)
            /\ band.over > 0 <=> excess >= Character - Character \div 2

(* The work of today is done by the end of the day exactly if its load is  *)
(* not above one, and then the calendar warns of today only if it has more *)
(* free time to go by than that (runtime.rs:3427).                         *)
LoadMeansLate ==
    Asked({"today", "calendar", "band"}) /\ Available > 0 =>
        (Overloaded <=> FinishTime > DateEnd(Today))

(* The categories of today's list add up to more than the whole exactly    *)
(* when the calendar finds today too full (runtime.rs:2389).               *)
SharesMatchCalendar ==
    Asked({"today"}) /\ days # << >> =>
        LET shares == Categories(rows)
        IN  SumFunction(shares) > Denominator(rows) <=> ~Fits(days[1])

(* Without a warning nothing of the week's work is carried beyond the day  *)
(* it is planned on, though today and tomorrow are only looked at by       *)
(* themselves; a day named as one to put more on is one whose work is      *)
(* caught up with (runtime.rs:3588, 3880).                                 *)
QuietMeansCaughtUp ==
    /\ Summary.says = {"all is well"} => \A k \in DOMAIN days : k <= 7 => days[k].limit <= 0
    /\ \A k \in HasLeeway : days[k].limit < 0
    /\ Summary.room # FarAhead /\ Summary.room # days[1].date =>
          Summary.clear <= Summary.room

ListIsTrue ==
    /\ ShortageIsBacklog /\ GiveUpsSuffice /\ TimeIsAccountedFor /\ WeekIsParted
    /\ CalendarCountsAll /\ BandIsADay /\ LoadMeansLate /\ SharesMatchCalendar
    /\ QuietMeansCaughtUp
===============================================================================
