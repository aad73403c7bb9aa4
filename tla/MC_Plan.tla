-------------------------------- MODULE MC_Plan --------------------------------
(***************************************************************************)
(* Planning for TLC.  `part` says what a behaviour is about, the rest of   *)
(* the variables are at rest:                                              *)
(*   times    when the tasks of a project are available: a chain of three  *)
(*            tasks, and a project with two subtasks                       *)
(*   plan     the turns of the schedule: four tasks of up to five units of *)
(*            work, two due at times of their own, a third may be, and 3   *)
(*            and 4 may be parents; a piece of one unit is too short, and  *)
(*            so no cut is where all times are doubled                     *)
(*   days     four tasks and days of seven hours: subtasks, or three tasks *)
(*            of a project with no work of its own, flattened or packed     *)
(*   query    three tasks over three such days, from the first on          *)
(*   list     four tasks, one of them at most in pieces and one a week off, *)
(*            over days of eight ticks, three minutes of two of them free;  *)
(*            what was made of today's can be less                          *)
(***************************************************************************)
EXTENDS Planning, Schedule

-----------------------------------------------------------------------------
WorksToPlan == {0, 3, 5}
Avails == {0, 2, 3}

Is(avail, work, children, atomic, ddl, rank, prio) ==
    [avail |-> avail, work |-> work, children |-> children, atomic |-> atomic,
     ddl |-> ddl, prio |-> prio, rank |-> rank]

Families == {<<{}, {}>>, <<{1}, {}>>, <<{1, 2}, {}>>, <<{1}, {3}>>}

FourTasks ==
    {<<Is(a, 2, {}, FALSE, 5, 0, 0), Is(b, v, {}, x, 9, 0, 0),
       Is(0, w, f[1], y, IF d THEN 4 ELSE Never, IF f[1] = {} THEN 0 ELSE 1, 1),
       Is(0, u, f[2], FALSE, Never, IF f[2] = {} THEN 0 ELSE 2, p)>> :
        a, b \in Avails, u, v, w \in WorksToPlan, x, y, d \in BOOLEAN, p \in {0, 1}, f \in Families}

Doubled(c) == [t \in DOMAIN c |-> [c[t] EXCEPT !.avail = 2 * @, !.work = 2 * @]]
AnyTasks == FourTasks \cup {Doubled(c) : c \in FourTasks}

ScheduleRests ==
    /\ cand = << >> /\ waiting = {} /\ slots = {} /\ end = << >>
    /\ cur = Nobody /\ at = Clock /\ left = 0

-----------------------------------------------------------------------------
\* The night before the first day, with one hour left, which is not free.
MCNow == -2
MCWaits == {-3, 4}
ChainAndFork == {<<2, 3, 4, NoTask>>, <<3, 3, 4, NoTask>>}

AvailabilityRests == up = << >> /\ attr = << >>

-----------------------------------------------------------------------------
Todo(start, wait, ddl, est) ==
    [start |-> start, wait |-> IF wait = NoTask THEN start ELSE Min({wait, ddl - est}), pending |-> wait # NoTask,
     done |-> FALSE, ddl |-> ddl, est |-> est, act |-> 0]

Crowded ==
    {<<Todo(0, NoTask, d, e), Todo(s, w, Never, f), Todo(0, NoTask, c, f), Todo(0, NoTask, b, g)>> :
        b, c, d \in {Never, 4, 12, 14}, s \in {0, 7}, w \in {NoTask, 5}, e, f \in {3, 5}, g \in {0, 3, 5}}
Deferred ==
    {<<Todo(s, v, d, e), Todo(0, w, Never, 2), Todo(r, NoTask, c, f), Todo(0, NoTask, Never, 0)>> :
        v \in {7, 14}, w \in {9, 14}, r, s \in {0, 3}, c \in {Never, 6}, d \in {Never, 15}, e, f \in {1, 2}}
    \cup {<<Todo(s, w, Never, e), Todo(0, NoTask, Never, 12), Todo(0, v, Never, f), Todo(0, NoTask, Never, 0)>> :
            s \in {0, 9}, w \in {NoTask, 10}, v \in {9, 14}, e, f \in {1, 2}}
    \cup {<<Todo(0, NoTask, d, 12), Todo(0, v, Never, e), Todo(0, w, Never, 1), Todo(0, NoTask, Never, 0)>> :
            d \in {Never, 6}, v \in {9, 14}, w \in {NoTask, 9, 14}, e \in {1, 2}}

UpsOfFour == {<<4, 4, 4, NoTask>>, <<3, 3, 4, NoTask>>}

AnyUps == ChainAndFork \cup UpsOfFour
MCDates == {-1, 0, 1}
AnyInitial == Crowded \cup Deferred
MCPriority == <<1, 2, 1, 1>>
MCFree == 0..60

DayPlanRests ==
    /\ job = "idle" /\ over = << >> /\ blocked = {} /\ queue = << >>
    /\ fresh = FALSE /\ drawn = << >> /\ plan = << >> /\ before = << >> /\ packed = NoTask

-----------------------------------------------------------------------------
MCQueryWorlds ==
    {[now |-> n,
      plan |-> <<Is(a, u, {}, x, 4, 0, 0), Is(b, v, {}, FALSE, 9, 0, 0), Is(0, w, {1}, FALSE, 9, 1, 0)>>,
      tasks |-> <<[status |-> "todo", created |-> 0, deadline |-> 5, completed |-> NoTime],
                  [status |-> "pending", created |-> b, deadline |-> NoTime, completed |-> NoTime],
                  [status |-> "todo", created |-> a, deadline |-> a + w, completed |-> NoTime],
                  [status |-> "done", created |-> 0, deadline |-> 1, completed |-> b]>>] :
        n \in {0, 2, 5}, a \in {1, 4}, b \in {0, 3, 5}, u, v \in 0..3, w \in {0, 2}, x \in BOOLEAN}

QueryRests == world = << >> /\ asked = << >> /\ shown = {} /\ listed = << >>

-----------------------------------------------------------------------------
\* The first task is due on the first day and may wait for someone; the second
\* is a routine, the third its parent or the first's, the fourth in a week.
OfTask(ddl, repeats, waits, prio, est, category) ==
    [ddl |-> ddl, repeats |-> repeats, waits |-> waits, start |-> 0, prio |-> prio,
     est |-> est, category |-> category]
MCListWorlds ==
    {[now |-> n, busy |-> 1,
      plan |-> <<Is(a, u, {}, x, 5, 0, 0), Is(b, v, {}, FALSE, Never, 0, 0),
                 Is(0, 2, {1}, FALSE, Never, 1, 0), Is(9, 3, {}, FALSE, Never, 0, 0)>>,
      tasks |-> <<OfTask(5, FALSE, x, 3, u, "earning"), OfTask(NoTime, TRUE, FALSE, p, v, "recovery"),
                  OfTask(9, FALSE, FALSE, 2, 2, "earning"), OfTask(NoTime, FALSE, FALSE, 1, 5, "none")>>,
      free |-> [d \in -1..9 |-> IF d = (n - 2) \div 8 THEN f ELSE 3], whole |-> [d \in -1..9 |-> 3]] :
        n \in {0, 4}, a \in {1, 10}, b \in {5, 59}, u \in {3, 7}, v \in {0, 3}, x \in BOOLEAN,
        p \in {1, 2}, f \in {0, 2}}

AnyList ==
    {[is |-> k] : k \in {"today", "tomorrow", "near", "calendar", "band", "leaves", "branches", "marked",
                         "due", "single", "week", "weekend", "next week", "all"}}
    \cup {[is |-> "weekday", day |-> 2], [is |-> "date", date |-> 1], [is |-> "word", named |-> {1, 4}],
          [is |-> "minutes", minutes |-> 2]}

ListRests == rows = << >> /\ days = << >> /\ focus = NoRow

MCInit ==
    \/ /\ part = "times" /\ ChainInit /\ up \in ChainAndFork
       /\ ScheduleRests /\ DayPlanRests /\ QueryRests /\ ListRests
    \/ part = "plan" /\ Init /\ AvailabilityRests /\ DayPlanRests /\ QueryRests /\ ListRests
    \/ part = "days" /\ PlanInit /\ up \in UpsOfFour /\ ScheduleRests /\ QueryRests /\ ListRests
    \/ part = "query" /\ Query!Init /\ ScheduleRests /\ AvailabilityRests /\ DayPlanRests /\ ListRests
    \/ /\ part = "list" /\ List!Init /\ ScheduleRests /\ AvailabilityRests /\ DayPlanRests
       /\ shown = {} /\ listed = << >>

ScheduleTurn == part = "plan" /\ Next /\ UNCHANGED planningVars

\* The project itself stays as it is.
MCNext ==
    \/ ScheduleTurn
    \/ PlanningNext /\ (part = "times" => attr'[Project] = attr[Project]) /\ UNCHANGED vars

\* The fairness of Schedule.
MCSpec == MCInit /\ [][MCNext]_<<planningVars, vars>> /\ WF_<<planningVars, vars>>(ScheduleTurn)
=============================================================================
