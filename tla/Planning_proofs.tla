---------------------------- MODULE Planning_proofs ----------------------------
(***************************************************************************)
(* Proofs about Planning: what is answered about a period (TaskQueries),   *)
(* what the list and the calendar say (TaskList), and all its parts        *)
(* together.  Plans, lists and questions are of any length.                *)
(***************************************************************************)
EXTENDS Planning, Schedule_proofs

-----------------------------------------------------------------------------
(***************************************************************************)
(* Questions about a period                                                *)
(***************************************************************************)
(* The entries of a plan are its hours, and tasks without work take none.  *)
LEMMA EntriesAreHours ==
    ASSUME NEW c, ArePlannable(c), NEW now \in Int
    PROVE  /\ \A t \in DOMAIN PlanOf(c, now) : \A h \in PlanOf(c, now)[t].hours :
                 /\ h \in Int
                 /\ \E e \in ScheduleOf(c, now) : e.task = t /\ e.from <= h /\ h < e.to
           /\ \A e \in ScheduleOf(c, now) :
                 /\ e.task \in DOMAIN PlanOf(c, now) /\ e.task \in DOMAIN c
                 /\ e.from \in Int /\ e.to \in Int /\ e.from <= e.to
                 /\ c[e.task].work > 0 => e.from < e.to
                 /\ \A h \in Int : e.from <= h /\ h < e.to => h \in PlanOf(c, now)[e.task].hours
<1> DEFINE p == PlanOf(c, now)
           S == ScheduleOf(c, now)
<1>1. IsPlanFor(c, p)
    BY PlanOfIsPlan
<1>2. S = UNION {EntriesOf(t, p[t]) : t \in DOMAIN p}
    BY DEF ScheduleOf
<1> HIDE DEF p, S
<1>3. ASSUME NEW t \in DOMAIN p, NEW h \in p[t].hours
      PROVE  h \in Int /\ \E e \in S : e.task = t /\ e.from <= h /\ h < e.to
    <2>1. p[t].hours \subseteq Int /\ IsFiniteSet(p[t].hours)
        BY <1>1 DEF IsPlanFor
    <2>2. PICK s \in Segments(p[t].hours) : s.from <= h /\ h < s.to
        BY <2>1, SegmentsCover
    <2> DEFINE e == [task |-> t, from |-> s.from, to |-> s.to]
    <2>3. e \in EntriesOf(t, p[t])
        BY <2>2 DEF EntriesOf
    <2>4. e \in S
        BY <1>2, <2>3
    <2> QED BY <2>1, <2>2, <2>4
<1>4. ASSUME NEW e \in S
      PROVE  /\ e.task \in DOMAIN p /\ e.task \in DOMAIN c
             /\ e.from \in Int /\ e.to \in Int /\ e.from <= e.to
             /\ c[e.task].work > 0 => e.from < e.to
             /\ \A h \in Int : e.from <= h /\ h < e.to => h \in p[e.task].hours
    <2>1. PICK t \in DOMAIN p : e \in EntriesOf(t, p[t])
        BY <1>2
    <2>2. /\ t \in DOMAIN c /\ p[t].hours \subseteq Int /\ IsFiniteSet(p[t].hours) /\ p[t].end \in Int
          /\ c[t].work > 0 => p[t].hours # {}
        BY <1>1 DEF IsPlanFor
    <2>3. CASE p[t].hours = {}
        <3>1. e.task = t /\ e.from = p[t].end /\ e.to = p[t].end
            BY <2>1, <2>3 DEF EntriesOf
        <3> QED BY <2>2, <2>3, <3>1
    <2>4. CASE p[t].hours # {}
        <3>1. PICK s \in Segments(p[t].hours) : e = [task |-> t, from |-> s.from, to |-> s.to]
            BY <2>1, <2>4 DEF EntriesOf
        <3>2. e.task = t /\ e.from = s.from /\ e.to = s.to
            BY <3>1
        <3>3. /\ s.from \in Int /\ s.to \in Int /\ s.from < s.to
              /\ \A h \in Int : s.from <= h /\ h < s.to => h \in p[t].hours
            BY <2>2, SegmentIsRun
        <3> QED BY <2>2, <3>2, <3>3
    <2> QED BY <2>3, <2>4
<1> QED BY <1>3, <1>4 DEF p, S

(* The questions are asked of the same plan.                               *)
LEMMA SamePlan ==
    ASSUME NEW c, NEW now
    PROVE  /\ Query!ArePlannable(c) => ArePlannable(c)
           /\ Query!PlanOf(c, now) = PlanOf(c, now)
           /\ Query!ScheduleOf(c, now) = ScheduleOf(c, now)
<1>1. Query!ArePlannable(c) => ArePlannable(c)
    BY DEF ArePlannable, Query!ArePlannable, Candidate, Query!Candidate, IsFiniteSet, Query!IsFiniteSet
<1>2. Query!PlansOf(c, now) = PlansOf(c, now)
    <2>1. \A S : Query!Cardinality(S) = Cardinality(S)
        BY Zenon DEF Cardinality, Query!Cardinality
    <2>2. \A S : Query!Min(S) = Min(S) /\ Query!Max(S) = Max(S)
        BY Zenon DEF Min, Query!Min, Max, Query!Max
    <2>3. \A p : Query!Taken(p) = Taken(p)
        BY Zenon DEF Taken, Query!Taken
    <2>4. \A done : Query!NextTask(c, done) = NextTask(c, done)
        BY Zenon DEF NextTask, Query!NextTask, SoonerIn, Query!SoonerIn, KeyIn, Query!KeyIn
    <2>5. \A p, from : Query!Between(p, from) = Between(p, from)
        BY <2>1, <2>2, <2>3 DEF Between, Query!Between
    <2>6. \A p, from, work : Query!InPieces(p, from, work) = InPieces(p, from, work)
        BY <2>1, <2>3 DEF InPieces, Query!InPieces
    <2>7. \A p, from, work : Query!InOnePiece(p, from, work) = InOnePiece(p, from, work)
        BY <2>1, <2>2, <2>3 DEF InOnePiece, Query!InOnePiece
    <2>8. \A p, t : Query!Planned(c, p, t, now) = Planned(c, p, t, now)
        BY <2>2, <2>5, <2>6, <2>7 DEF Planned, Query!Planned
    <2> DEFINE And(p, t, e) == [u \in DOMAIN p \cup {t} |-> IF u = t THEN e ELSE p[u]]
               After(p) == And(p, NextTask(c, DOMAIN p), Planned(c, p, NextTask(c, DOMAIN p), now))
               QueryAfter(p) == And(p, Query!NextTask(c, DOMAIN p),
                                    Query!Planned(c, p, Query!NextTask(c, DOMAIN p), now))
               P(ps) == ps = [n \in 0..Cardinality(DOMAIN c) |->
                                 IF n = 0 THEN << >> ELSE After(ps[n - 1])]
               Q(ps) == ps = [n \in 0..Query!Cardinality(DOMAIN c) |->
                                 IF n = 0 THEN << >> ELSE QueryAfter(ps[n - 1])]
    <2>9. ASSUME NEW ps PROVE P(ps) <=> Q(ps)
        <3>1. \A p : QueryAfter(p) = After(p)
            <4> HIDE DEF And
            <4> QED BY <2>4, <2>8
        <3> HIDE DEF After, QueryAfter
        <3> QED BY <2>1, <3>1
    <2>10. PlansOf(c, now) = CHOOSE ps : P(ps)
        BY DEF PlansOf
    <2>11. Query!PlansOf(c, now) = CHOOSE ps : Q(ps)
        BY DEF Query!PlansOf
    <2>12. (CHOOSE ps : P(ps)) = (CHOOSE ps : Q(ps))
        <3> HIDE DEF P, Q
        <3> QED BY <2>9
    <2> QED BY <2>10, <2>11, <2>12
<1>3. Query!PlanOf(c, now) = PlanOf(c, now)
    BY <1>2, Zenon DEF PlanOf, Query!PlanOf, Cardinality, Query!Cardinality
<1>4. \A t, p : Query!EntriesOf(t, p) = EntriesOf(t, p)
    BY DEF EntriesOf, Query!EntriesOf, Segments, Query!Segments, Min, Query!Min, Max, Query!Max
<1> QED BY <1>1, <1>3, <1>4 DEF ScheduleOf, Query!ScheduleOf

(* A business day is the time from its start to the start of the next.     *)
LEMMA DatesAreDays ==
    ASSUME Query!Assumption, NEW h \in Int, NEW d \in Int
    PROVE  /\ Query!DateOf(h) \in Int /\ Query!DateStart(d) \in Int
           /\ Query!DateStart(d) < Query!DateStart(d + 1)
           /\ Query!DateOf(h) = d <=> Query!DateStart(d) <= h /\ h < Query!DateStart(d + 1)
<1> DEFINE t == h - Morning
           q == t \div DayLength
           r == t % DayLength
           s == t - d * DayLength
<1>1. DayLength \in Nat \ {0} /\ DayLength \in Nat /\ DayLength > 0 /\ Morning \in Int /\ t \in Int
    BY DEF Query!Assumption
<1>2. q \in Int /\ r \in HoursOfDay /\ t = q * DayLength + r
    BY <1>1, DayAndSlot DEF HoursOfDay
<1>3. /\ d * DayLength \in Int /\ (d + 1) * DayLength = d * DayLength + DayLength
    BY <1>1
<1>4. /\ Query!DateOf(h) = q /\ Query!DateStart(d) = d * DayLength + Morning
      /\ Query!DateStart(d + 1) = (d + 1) * DayLength + Morning
    BY DEF Query!DateOf, Query!DateStart
<1>5. ASSUME s \in 0..(DayLength - 1) PROVE q = d
    <2>1. s \in HoursOfDay
        BY <1>5 DEF HoursOfDay
    <2>2. t = d * DayLength + s
        BY <1>1, <1>3
    <2> HIDE DEF s, t
    <2> QED BY <1>1, <2>1, <2>2, SlotOfDay DEF HoursOfDay
<1>6. ASSUME q = d PROVE s \in 0..(DayLength - 1)
    <2>1. r \in 0..(DayLength - 1)
        BY <1>2 DEF HoursOfDay
    <2>2. s = r
        <3>1. t = d * DayLength + r /\ r \in Int
            BY <1>1, <1>2, <1>6, <2>1
        <3> HIDE DEF t, r
        <3> QED BY <1>1, <1>3, <3>1 DEF s
    <2> QED BY <2>1, <2>2
<1>7. s \in 0..(DayLength - 1) <=> Query!DateStart(d) <= h /\ h < Query!DateStart(d + 1)
    BY <1>1, <1>3, <1>4
<1> HIDE DEF q, s
<1> QED BY <1>1, <1>2, <1>3, <1>4, <1>5, <1>6, <1>7

\* What is answered is answered to the period that was asked for.
AnswersPeriod ==
    /\ world \in QueryWorlds
    /\ asked = << >> \/ \E from, until \in Dates \cup {Nothing} :
          /\ asked = Query!Period(from, until)
          /\ asked.from < asked.until =>
                /\ shown = Query!GetSchedule(Query!Entries, asked)
                /\ listed = [f \in Query!Fields |-> Query!ListTasks(Query!Entries, f, asked)]

(* A period is between two times, one day long when its end is not given.  *)
LEMMA PeriodsAreTimes ==
    ASSUME Query!Assumption, world \in QueryWorlds, NEW from \in Dates \cup {Nothing},
           NEW until \in Dates \cup {Nothing}
    PROVE  LET p == Query!Period(from, until)
           IN  /\ p.from \in Int /\ p.until \in Int
               /\ until = Nothing => /\ p.from < p.until
                                     /\ Query!DateOf(p.until - 1) = Query!DateOf(p.from)
<1> DEFINE start == IF from = Nothing THEN world.now ELSE Query!DateStart(from)
           d == Query!DateOf(start)
<1>1. world.now \in Int /\ Dates \subseteq Int
    BY DEF Query!Assumption, Query!IsWorld
<1>2. start \in Int
    BY <1>1, DatesAreDays
<1>3. /\ Query!Period(from, until).from = start
      /\ Query!Period(from, until).until =
            IF until = Nothing THEN Query!NextBusinessDayStart(start) ELSE Query!DateStart(until)
    BY DEF Query!Period
<1> HIDE DEF start
<1>4. d \in Int /\ Query!NextBusinessDayStart(start) = Query!DateStart(d + 1)
    BY <1>2, DatesAreDays DEF Query!NextBusinessDayStart
<1> HIDE DEF d
<1>5. Query!DateStart(d) <= start /\ start < Query!DateStart(d + 1)
    BY <1>2, <1>4, DatesAreDays DEF d
<1>6. Query!DateStart(d) \in Int /\ Query!DateStart(d + 1) \in Int
    BY <1>2, <1>4, DatesAreDays
<1>7. Query!DateOf(Query!DateStart(d + 1) - 1) = d
    <2> DEFINE z == Query!DateStart(d + 1) - 1
    <2>1. z \in Int /\ Query!DateStart(d) <= z /\ z < Query!DateStart(d + 1)
        BY <1>2, <1>5, <1>6
    <2> HIDE DEF z
    <2>2. Query!DateOf(z) = d
        BY <1>4, <2>1, DatesAreDays
    <2> QED BY <2>2 DEF z
<1>8. until # Nothing => Query!DateStart(until) \in Int
    BY <1>1, <1>2, DatesAreDays
<1> QED BY <1>2, <1>3, <1>4, <1>5, <1>6, <1>7, <1>8 DEF d

(* What the answers to a period say, for any period.                       *)
LEMMA AnswersAreTrue ==
    ASSUME Query!Assumption, AnswersPeriod
    PROVE  Query!DayShowsItsWork /\ Query!OneDay /\ Query!ListedIsShown /\ Query!DaysPartTasks
<1> SUFFICES ASSUME asked # << >>
             PROVE  Query!DayShowsItsWork /\ Query!OneDay /\ Query!ListedIsShown /\ Query!DaysPartTasks
    BY DEF Query!DayShowsItsWork, Query!OneDay, Query!ListedIsShown, Query!DaysPartTasks,
           Query!Answered, Query!Whole
<1> DEFINE c == world.plan
           p == PlanOf(world.plan, world.now)
           E == ScheduleOf(world.plan, world.now)
           dom == DOMAIN world.plan
<1>1. PICK from, until \in Dates \cup {Nothing} : asked = Query!Period(from, until)
    BY DEF AnswersPeriod
<1>2. asked.from < asked.until =>
         /\ shown = Query!GetSchedule(Query!Entries, asked)
         /\ listed = [f \in Query!Fields |-> Query!ListTasks(Query!Entries, f, asked)]
    BY DEF AnswersPeriod
<1>3. world \in QueryWorlds /\ world.now \in Int /\ ArePlannable(c) /\ Dates \subseteq Int
    BY SamePlan DEF AnswersPeriod, Query!Assumption, Query!IsWorld
<1>4. asked.from \in Int /\ asked.until \in Int
    BY <1>1, <1>3, PeriodsAreTimes
<1>5. Query!Entries = E /\ Query!PlanOf(world.plan, world.now) = p
    BY SamePlan DEF Query!Entries
<1>6. \A t \in DOMAIN p : \A h \in p[t].hours :
         h \in Int /\ \E e \in E : e.task = t /\ e.from <= h /\ h < e.to
    BY <1>3, EntriesAreHours
<1>7. \A e \in E : /\ e.task \in dom /\ e.from \in Int /\ e.to \in Int /\ e.from <= e.to
                   /\ c[e.task].work > 0 => e.from < e.to
                   /\ \A h \in Int : e.from <= h /\ h < e.to => h \in p[e.task].hours
    BY <1>3, EntriesAreHours
<1> HIDE DEF c, p, E, dom
<1>8. asked.from < asked.until =>
         /\ shown = {e \in E : e.from < asked.until /\ e.to > asked.from}
         /\ listed["scheduled_start"] =
               {e.task : e \in {f \in E : asked.from <= f.from /\ f.from < asked.until}}
         /\ listed["created_at"] = {t \in DOMAIN world.tasks : Query!In(world.tasks[t].created, asked)}
         /\ listed["deadline"] =
               {t \in DOMAIN world.tasks : /\ world.tasks[t].deadline # NoTime
                                          /\ Query!In(world.tasks[t].deadline, asked)}
    BY <1>2, <1>5 DEF Query!GetSchedule, Query!ListTasks, Query!In, Query!Fields
<1>9. Query!DayShowsItsWork
    <2> SUFFICES ASSUME NEW d \in Dates, asked.from = Query!DateStart(d),
                        asked.until = Query!DateStart(d + 1), NEW t \in DOMAIN p
                 PROVE  /\ \A h \in p[t].hours : Query!DateOf(h) = d =>
                              \E e \in shown : e.task = t /\ e.from <= h /\ h < e.to
                        /\ \A e \in shown : e.task = t /\ e.from < e.to =>
                              \E h \in p[t].hours : Query!DateOf(h) = d
        BY <1>5 DEF Query!DayShowsItsWork
    <2>1. d \in Int /\ asked.from < asked.until
        BY <1>3, DatesAreDays
    <2>2. ASSUME NEW h \in p[t].hours, Query!DateOf(h) = d
          PROVE  \E e \in shown : e.task = t /\ e.from <= h /\ h < e.to
        <3>1. PICK e \in E : e.task = t /\ e.from <= h /\ h < e.to
            BY <1>6
        <3>2. h \in Int /\ e.from \in Int /\ e.to \in Int
            BY <1>6, <1>7
        <3>3. asked.from <= h /\ h < asked.until
            BY <2>1, <2>2, <3>2, DatesAreDays
        <3>4. e.from < asked.until /\ e.to > asked.from
            BY <1>4, <3>1, <3>2, <3>3
        <3> QED BY <1>8, <2>1, <3>1, <3>4
    <2>3. ASSUME NEW e \in shown, e.task = t, e.from < e.to
          PROVE  \E h \in p[t].hours : Query!DateOf(h) = d
        <3> DEFINE h == IF e.from <= asked.from THEN asked.from ELSE e.from
        <3>1. e \in E /\ e.from < asked.until /\ e.to > asked.from
            BY <1>8, <2>1
        <3>2. e.from \in Int /\ e.to \in Int
            BY <1>7, <3>1
        <3>3. h \in Int /\ e.from <= h /\ h < e.to /\ asked.from <= h /\ h < asked.until
            BY <1>4, <2>1, <2>3, <3>1, <3>2
        <3> HIDE DEF h
        <3>4. h \in p[t].hours
            BY <1>7, <2>3, <3>1, <3>3
        <3>5. Query!DateOf(h) = d
            BY <2>1, <3>3, DatesAreDays
        <3> QED BY <3>4, <3>5
    <2> QED BY <2>2, <2>3
<1>10. Query!OneDay
    <2> SUFFICES ASSUME NEW first \in Dates \cup {Nothing}, asked = Query!Period(first, Nothing)
                 PROVE  /\ asked.from < asked.until
                        /\ Query!DateOf(asked.until - 1) = Query!DateOf(asked.from)
        BY DEF Query!OneDay
    <2> QED BY <1>3, PeriodsAreTimes
<1>11. Query!ListedIsShown
    <2> SUFFICES ASSUME asked.from < asked.until
                 PROVE  /\ \A t \in listed["scheduled_start"] :
                              t \in dom /\ c[t].work > 0 =>
                                  \E e \in shown : e.task = t /\ Query!In(e.from, asked)
                        /\ \A e \in shown : \/ e.task \in listed["scheduled_start"]
                                            \/ e.from < asked.from /\ asked.from < e.to
        BY DEF Query!ListedIsShown, Query!Whole, c, dom
    <2>1. ASSUME NEW t \in listed["scheduled_start"], t \in dom, c[t].work > 0
          PROVE  \E e \in shown : e.task = t /\ Query!In(e.from, asked)
        <3>1. PICK e \in E : e.task = t /\ asked.from <= e.from /\ e.from < asked.until
            BY <1>8
        <3>2. e.from \in Int /\ e.to \in Int /\ e.from < e.to
            BY <1>7, <2>1, <3>1
        <3>3. e \in shown
            BY <1>4, <1>8, <3>1, <3>2
        <3> QED BY <3>1, <3>3 DEF Query!In
    <2>2. ASSUME NEW e \in shown
          PROVE  \/ e.task \in listed["scheduled_start"]
                 \/ e.from < asked.from /\ asked.from < e.to
        <3>1. e \in E /\ e.from < asked.until /\ e.to > asked.from
            BY <1>8
        <3>2. e.from \in Int /\ e.to \in Int
            BY <1>7, <3>1
        <3>3. CASE asked.from <= e.from
            BY <1>8, <3>1, <3>3
        <3>4. CASE e.from < asked.from
            BY <1>4, <3>1, <3>2, <3>4
        <3> QED BY <1>4, <3>2, <3>3, <3>4
    <2> QED BY <2>1, <2>2
<1>12. Query!DaysPartTasks
    <2> SUFFICES ASSUME NEW d \in Dates, asked.from = Query!DateStart(d),
                        asked.until = Query!DateStart(d + 1), NEW t \in DOMAIN world.tasks
                 PROVE  /\ t \in listed["created_at"] <=> Query!DateOf(world.tasks[t].created) = d
                        /\ t \in listed["deadline"] <=>
                              /\ world.tasks[t].deadline # NoTime
                              /\ Query!DateOf(world.tasks[t].deadline) = d
        BY DEF Query!DaysPartTasks
    <2>1. d \in Int /\ asked.from < asked.until
        BY <1>3, DatesAreDays
    <2>2. /\ world.tasks[t].created \in Int
          /\ world.tasks[t].deadline # NoTime => world.tasks[t].deadline \in Int
        BY <1>3 DEF Query!Assumption, Query!IsWorld
    <2>3. \A h \in Int : Query!DateOf(h) = d <=> Query!In(h, asked)
        <3> TAKE h \in Int
        <3>1. Query!DateOf(h) = d <=> Query!DateStart(d) <= h /\ h < Query!DateStart(d + 1)
            BY <2>1, DatesAreDays
        <3> QED BY <3>1 DEF Query!In
    <2> QED BY <1>8, <2>1, <2>2, <2>3
<1> QED BY <1>9, <1>10, <1>11, <1>12

(* Nothing is answered but what was asked for, from what is planned.       *)
LEMMA QuestionsAreAnswered ==
    ASSUME Query!Assumption, AnswersPeriod, [Query!Next]_Query!vars
    PROVE  AnswersPeriod'
<1>1. CASE UNCHANGED Query!vars
    <2>1. world' = world /\ asked' = asked /\ shown' = shown /\ listed' = listed
        BY <1>1 DEF Query!vars
    <2>2. Query!Entries' = Query!Entries
        BY <2>1 DEF Query!Entries
    <2>3. \A from, until : Query!Period(from, until)' = Query!Period(from, until)
        BY <2>1 DEF Query!Period
    <2>4. \A e, p, f : Query!ListTasks(e, f, p)' = Query!ListTasks(e, f, p)
        BY <2>1 DEF Query!ListTasks
    <2> QED BY <2>1, <2>2, <2>3, <2>4 DEF AnswersPeriod, Query!GetSchedule
<1>2. ASSUME NEW from \in Dates \cup {Nothing}, NEW until \in Dates \cup {Nothing},
             Query!Ask(from, until)
      PROVE  AnswersPeriod'
    <2>1. asked' = Query!Period(from, until) /\ world' = world /\ world \in QueryWorlds
        BY <1>2 DEF Query!Ask, AnswersPeriod
    <2>2. Query!Period(from, until)' = Query!Period(from, until)
        BY <2>1 DEF Query!Period
    <2>3. Query!Entries' = Query!Entries
        BY <2>1 DEF Query!Entries
    <2>4. \A e, p, f : Query!ListTasks(e, f, p)' = Query!ListTasks(e, f, p)
        BY <2>1 DEF Query!ListTasks
    <2>5. asked'.from \in Int /\ asked'.until \in Int
        BY <2>1, PeriodsAreTimes
    <2>6. ASSUME asked'.from < asked'.until
          PROVE  /\ shown' = Query!GetSchedule(Query!Entries, asked')
                 /\ listed' = [f \in Query!Fields |-> Query!ListTasks(Query!Entries, f, asked')]
        <3>1. ~(asked'.from >= asked'.until)
            BY <2>5, <2>6
        <3> QED BY <1>2, <3>1 DEF Query!Ask
    <2> QED BY <2>1, <2>2, <2>3, <2>4, <2>6 DEF AnswersPeriod, Query!GetSchedule
<1> QED BY <1>1, <1>2 DEF Query!Next

(* Whatever is planned, however many days, and whatever period is asked    *)
(* for: who asks for a day is shown exactly the work of that day; a period *)
(* given by its first day is that day; what begins in a period is shown    *)
(* for it, and what is shown begins in it or is under way; and the days    *)
(* part the tasks by when they were created and when they are due.         *)
THEOREM AnswersTheQuery ==
    Query!Assumption =>
        (Query!Spec => [](/\ Query!DayShowsItsWork /\ Query!OneDay
                          /\ Query!ListedIsShown /\ Query!DaysPartTasks))
<1>1. Query!Init => AnswersPeriod
    BY DEF Query!Init, AnswersPeriod
<1>2. ASSUME Query!Assumption
      PROVE  Query!Spec => [](/\ Query!DayShowsItsWork /\ Query!OneDay
                              /\ Query!ListedIsShown /\ Query!DaysPartTasks)
    <2>1. AnswersPeriod => /\ Query!DayShowsItsWork /\ Query!OneDay
                           /\ Query!ListedIsShown /\ Query!DaysPartTasks
        BY <1>2, AnswersAreTrue
    <2>2. AnswersPeriod /\ [Query!Next]_Query!vars => AnswersPeriod'
        BY <1>2, QuestionsAreAnswered
    <2> QED BY <1>1, <2>1, <2>2, PTL DEF Query!Spec
<1> QED BY <1>2

-----------------------------------------------------------------------------
(***************************************************************************)
(* The pieces of a plan                                                    *)
(***************************************************************************)
(* The work of a task is in as many hours.                                 *)
LEMMA HoursAreTheWork ==
    ASSUME NEW p, IsFiniteSet(Taken(p)), Cardinality(Taken(p)) \in Nat,
           NEW from \in Int, NEW work \in Nat
    PROVE  /\ Cardinality(InPieces(p, from, work)) = work
           /\ Cardinality(InOnePiece(p, from, work)) = work
           /\ \A h \in InPieces(p, from, work) \cup InOnePiece(p, from, work) :
                 h >= from /\ h \notin Taken(p)
<1> DEFINE T == Taken(p)
           t == Cardinality(T)
<1>1. Cardinality(InPieces(p, from, work)) = work
    <2> DEFINE A == from..(from + work + t)
               F == A \ T
               B == [h \in F |-> {g \in F : g < h}]
               n == Cardinality(F)
               H == InPieces(p, from, work)
    <2>1. IsFiniteSet(A) /\ Cardinality(A) = work + t + 1
        <3>1. from + work + t \in Int /\ ~(from > from + work + t)
            OBVIOUS
        <3> QED BY <3>1, FS_Interval
    <2>2. IsFiniteSet(F) /\ n \in Nat /\ n >= work + 1
        <3>1. /\ IsFiniteSet(A \cap T) /\ Cardinality(A \cap T) <= t /\ Cardinality(A \cap T) \in Nat
              /\ Cardinality(F) = Cardinality(A) - Cardinality(A \cap T) /\ IsFiniteSet(F)
            <4>1. A \cap T \in SUBSET T
                OBVIOUS
            <4> HIDE DEF A, T
            <4> QED BY <2>1, <4>1, FS_Subset, FS_Difference, FS_CardinalityType
        <3> HIDE DEF A, T, F
        <3>2. n \in Nat
            BY <3>1, FS_CardinalityType
        <3> HIDE DEF t
        <3>3. t \in Nat
            BY DEF t, T
        <3> QED BY <2>1, <3>1, <3>2, <3>3
    <2>3. IsOrder(F, B)
        <3>1. \A h \in F : h \in Int /\ B[h] = {g \in F : g < h}
            OBVIOUS
        <3> HIDE DEF F, B
        <3>2. \A e \in F : B[e] \subseteq F /\ e \notin B[e]
            BY <3>1
        <3>3. \A e, f \in F : e = f \/ e \in B[f] \/ f \in B[e]
            BY <3>1
        <3>4. \A e, f \in F : e \in B[f] => B[e] \subseteq B[f]
            BY <3>1
        <3> QED BY <2>2, <3>2, <3>3, <3>4 DEF IsOrder
    <2>4. H = {h \in F : Cardinality(B[h]) < work}
        <3>1. \A h \in F : B[h] = {g \in F : g < h}
            OBVIOUS
        <3> HIDE DEF B
        <3> QED BY <3>1 DEF InPieces
    <2>5. /\ \A e \in F : Cardinality(B[e]) \in 0..(n - 1)
          /\ \A e, f \in F : e \in B[f] <=> Cardinality(B[e]) < Cardinality(B[f])
          /\ \A i \in 1..n : \E e \in F : Cardinality(B[e]) = i - 1
        <3> HIDE DEF F, B
        <3> QED BY <2>3, PlacesAreTaken
    <2> DEFINE r == [h \in H |-> Cardinality(B[h]) + 1]
    <2> HIDE DEF F, B, H, n
    <2>6. r \in [H -> 1..work]
        <3> SUFFICES ASSUME NEW h \in H PROVE Cardinality(B[h]) + 1 \in 1..work
            OBVIOUS
        <3>1. Cardinality(B[h]) \in 0..(n - 1) /\ Cardinality(B[h]) < work
            BY <2>4, <2>5
        <3> QED BY <2>2, <3>1
    <2>7. \A x, y \in H : r[x] = r[y] => x = y
        <3> SUFFICES ASSUME NEW x \in H, NEW y \in H, r[x] = r[y] PROVE x = y
            OBVIOUS
        <3>1. x \in F /\ y \in F /\ Cardinality(B[x]) \in Int /\ Cardinality(B[y]) \in Int
            BY <2>2, <2>4, <2>5
        <3>2. Cardinality(B[x]) = Cardinality(B[y])
            BY <3>1
        <3>3. x \notin B[y] /\ y \notin B[x]
            BY <2>5, <3>1, <3>2
        <3> QED BY <2>3, <3>1, <3>3 DEF IsOrder
    <2>8. \A i \in 1..work : \E h \in H : r[h] = i
        <3> SUFFICES ASSUME NEW i \in 1..work PROVE \E h \in H : r[h] = i
            OBVIOUS
        <3>1. i \in 1..n
            BY <2>2
        <3>2. PICK e \in F : Cardinality(B[e]) = i - 1
            BY <2>5, <3>1
        <3>3. e \in H
            BY <2>4, <3>2
        <3>4. r[e] = i
            BY <3>2, <3>3
        <3> QED BY <3>3, <3>4
    <2>9. IsFiniteSet(H)
        BY HoursAreTimes DEF H
    <2>10. Cardinality(1..work) = Cardinality(H)
        <3> HIDE DEF r
        <3> QED BY <2>6, <2>7, <2>8, <2>9, SameSize
    <2> QED BY <2>10, OneTo DEF H
<1>2. \A h \in InPieces(p, from, work) : h >= from /\ h \notin T
    <2> TAKE h \in InPieces(p, from, work)
    <2>1. h \in Int
        BY HoursAreTimes
    <2> QED BY <2>1, PiecesAre
<1>3. CASE work = 0
    <2> DEFINE last == from + work * (Cardinality(Taken(p)) + 1)
               C == {b \in from..last : b..(b + work - 1) \cap Taken(p) = {}}
               x == Min(C)
    <2>1. last = from
        BY <1>3
    <2>2. from \in C /\ C \subseteq Int /\ IsFiniteSet(C)
        <3>1. from..(from + work - 1) = {}
            BY <1>3
        <3>2. from..last = {from}
            BY <2>1
        <3>3. C = {from}
            BY <3>1, <3>2
        <3> HIDE DEF C
        <3> QED BY <3>3, FS_Singleton
    <2>3. x \in Int
        <3> HIDE DEF C
        <3> QED BY <2>2, MinIsLeast
    <2>4. x..(x + work - 1) = {}
        <3> HIDE DEF x
        <3> QED BY <1>3, <2>3
    <2>5. InOnePiece(p, from, work) = {}
        BY <2>4 DEF InOnePiece
    <2> QED BY <1>1, <1>2, <1>3, <2>5, FS_EmptySet
<1>4. CASE work > 0
    <2> DEFINE H == HoursFrom(p, from, work, TRUE)
               x == Min(H)
    <2>1. H = InOnePiece(p, from, work)
        BY DEF HoursFrom
    <2>2. x \in Int /\ x >= from /\ IsRoom(p, work, TRUE, x) /\ H = x..(x + work - 1)
        BY <1>4, BeginsInRoom
    <2> HIDE DEF H, x
    <2>3. H \cap T = {}
        BY <2>2 DEF IsRoom
    <2>4. Cardinality(H) = work
        <3>1. x + work - 1 \in Int /\ ~(x > x + work - 1) /\ (x + work - 1) - x + 1 = work
            BY <1>4, <2>2
        <3>2. Cardinality(x..(x + work - 1)) = (x + work - 1) - x + 1
            BY <2>2, <3>1, FS_Interval
        <3> QED BY <2>2, <3>1, <3>2
    <2>5. \A h \in H : h >= from /\ h \notin T
        BY <2>2, <2>3
    <2> QED BY <1>1, <1>2, <2>1, <2>4, <2>5
<1> QED BY <1>3, <1>4

\* No task before now, each with its work, and no two at one time.
IsFairPlan(c, now, p) ==
    /\ \A t \in DOMAIN p : /\ Cardinality(p[t].hours) = c[t].work /\ p[t].end >= now
                           /\ \A h \in p[t].hours : h >= now
    /\ \A t, u \in DOMAIN p : t # u => p[t].hours \cap p[u].hours = {}

\* The plan of any tasks is theirs, and fair at its time.
LEMMA PlanOfIsFair ==
    ASSUME NEW c, ArePlannable(c), NEW now \in Int
    PROVE  /\ DOMAIN PlanOf(c, now) = DOMAIN c /\ IsPlanFor(c, PlanOf(c, now))
           /\ IsFairPlan(c, now, PlanOf(c, now))
<1> DEFINE N == Cardinality(DOMAIN c)
           ps == PlansOf(c, now)
           Good == {n \in Nat : n <= N => IsFairPlan(c, now, ps[n])}
<1>0. N \in Nat /\ AreTurns(c, now, N, ps)
    BY PlansAreTurns
<1> HIDE DEF N, ps
<1>1. 0 \in Good
    <2>1. DOMAIN ps[0] = {}
        BY <1>0 DEF AreTurns
    <2> QED BY <2>1 DEF IsFairPlan
<1>2. ASSUME NEW n \in Good PROVE n + 1 \in Good
    <2> SUFFICES ASSUME n + 1 <= N PROVE IsFairPlan(c, now, ps[n + 1])
        OBVIOUS
    <2> DEFINE p == ps[n]
               q == ps[n + 1]
               t == NextTask(c, DOMAIN ps[n])
               new == Planned(c, p, t, now)
    <2>1. n \in 0..N /\ n \in 0..(N - 1) /\ IsFairPlan(c, now, p)
        BY <1>0
    <2>2. IsTurn(c, now, p, q, t) /\ IsPlanFor(c, p)
        BY <1>0, <2>1 DEF AreTurns
    <2> HIDE DEF p, q, t
    <2>3. /\ t \in DOMAIN c \ DOMAIN p /\ c[t].children \subseteq DOMAIN p
          /\ q = [u \in DOMAIN p \cup {t} |-> IF u = t THEN new ELSE p[u]]
        BY <2>2 DEF IsTurn
    <2>4. c[t].work \in Nat /\ c[t].avail \in Int /\ c[t].atomic \in BOOLEAN /\ IsFiniteSet(DOMAIN c)
        BY <2>3 DEF ArePlannable, Candidate
    <2>5. IsFiniteSet(Taken(p)) /\ Cardinality(Taken(p)) \in Nat
        BY <2>2, <2>4, TakenIsFinite
    <2> DEFINE E == {c[t].avail, now} \cup {p[u].end : u \in c[t].children}
               start == Max(E)
               from == Between(p, start)
    <2>6. start \in Int /\ start >= now
        <3>1. \A u \in c[t].children : p[u].end \in Int
            BY <2>2, <2>3 DEF IsPlanFor
        <3>2. E \subseteq Int /\ now \in E
            BY <2>4, <3>1
        <3>3. IsFiniteSet(E)
            <4>1. IsFiniteSet(c[t].children)
                BY <2>2, <2>3, <2>4, FS_Subset DEF IsPlanFor
            <4> DEFINE ends == [u \in c[t].children |-> p[u].end]
                       T == {ends[u] : u \in c[t].children}
            <4>2. IsFiniteSet(T)
                <5> HIDE DEF ends
                <5> QED BY <4>1, ImageOfFinite
            <4>3. E = (T \cup {now}) \cup {c[t].avail}
                OBVIOUS
            <4> HIDE DEF E, T
            <4> QED BY <4>2, <4>3, FS_AddElement
        <3> HIDE DEF E
        <3> QED BY <3>2, <3>3, MaxIsGreatest
    <2> HIDE DEF start
    <2>7. from \in Int /\ from >= start
        BY <2>5, <2>6, BetweenIsLeast
    <2> HIDE DEF from
    <2>8. new = [hours |-> IF c[t].atomic THEN InOnePiece(p, from, c[t].work) ELSE InPieces(p, from, c[t].work),
                 end |-> IF new.hours = {} THEN from ELSE Max(new.hours) + 1]
        BY DEF Planned, from, start
    <2> HIDE DEF new
    <2>9. new.hours = (IF c[t].atomic THEN InOnePiece(p, from, c[t].work) ELSE InPieces(p, from, c[t].work))
          /\ new.end = (IF new.hours = {} THEN from ELSE Max(new.hours) + 1)
        BY <2>8
    <2>10. /\ Cardinality(new.hours) = c[t].work
           /\ \A h \in new.hours : h >= from /\ h \notin Taken(p)
        BY <2>4, <2>5, <2>7, <2>9, HoursAreTheWork
    <2>11. IsFiniteSet(new.hours) /\ new.hours \subseteq Int
        BY <2>4, <2>5, <2>7, <2>9, HoursAreTimes
    <2>12. \A h \in new.hours : h >= now
        BY <2>6, <2>7, <2>10, <2>11
    <2>13. new.end >= now
        <3>1. CASE new.hours = {}
            BY <2>6, <2>7, <2>9, <3>1
        <3>2. CASE new.hours # {}
            <4>1. Max(new.hours) \in new.hours
                BY <2>11, <3>2, MaxIsGreatest
            <4>2. new.end = Max(new.hours) + 1
                BY <2>9, <3>2
            <4> QED BY <2>11, <2>12, <4>1, <4>2
        <3> QED BY <3>1, <3>2
    <2>14. \A u \in DOMAIN p : new.hours \cap p[u].hours = {}
        BY <2>10 DEF Taken
    <2>15. DOMAIN q = DOMAIN p \cup {t} /\ q[t] = new /\ \A u \in DOMAIN p : q[u] = p[u] /\ u # t
        BY <2>3
    <2>16. IsFairPlan(c, now, q)
        BY <2>1, <2>10, <2>12, <2>13, <2>14, <2>15 DEF IsFairPlan
    <2> QED BY <2>16 DEF q
<1>3. Good = Nat
    <2>1. Good \in SUBSET Nat
        OBVIOUS
    <2> HIDE DEF Good
    <2> QED BY <1>1, <1>2, <2>1, NaturalsByStep
<1>4. IsFairPlan(c, now, ps[N])
    BY <1>0, <1>3
<1>5. DOMAIN ps[N] = DOMAIN c
    BY <1>0 DEF AreTurns
<1>6. IsPlanFor(c, PlanOf(c, now))
    BY PlanOfIsPlan
<1> QED BY <1>4, <1>5, <1>6 DEF PlanOf, N, ps

\* What is planned: entries of some work, that do not meet.
ArePieces(S, c, now) ==
    /\ IsFiniteSet(S)
    /\ \A e \in S : /\ e = [task |-> e.task, from |-> e.from, to |-> e.to]
                    /\ e.task \in DOMAIN c /\ e.from \in Int /\ e.to \in Int
                    /\ now <= e.from /\ e.from <= e.to
    /\ \A e, f \in S : e = f \/ e.to <= f.from \/ f.to <= e.from \/ e.from = e.to \/ f.from = f.to
    /\ \A e, f \in S : e.task = f.task /\ e.from = f.from => e = f

\* What p sends to the same.
PartOf(S, p, t) == {x \in S : p[x] = t}

(* Hours are as many as there are in all their parts.                      *)
LEMMA SizeOfRuns ==
    ASSUME NEW hours, IsFiniteSet(hours), NEW S, IsFiniteSet(S), NEW p, \A h \in hours : p[h] \in S,
           NEW L, \A s \in S : L[s] = Cardinality(PartOf(hours, p, s))
    PROVE  SumOver(L, S) = Cardinality(hours)
<1> USE DEF PartOf
<1> DEFINE g == [s \in S |-> Cardinality({h \in hours : p[h] = s})]
<1>1. Cardinality(hours) = SumOver(g, S)
    BY SizeOfParts
<1>2. \A s \in S : g[s] \in Int /\ g[s] = L[s]
    <2> SUFFICES ASSUME NEW s \in S PROVE g[s] \in Int /\ g[s] = L[s]
        OBVIOUS
    <2> DEFINE R == {h \in hours : p[h] = s}
    <2>1. R \subseteq hours /\ g[s] = Cardinality(R) /\ L[s] = Cardinality(R)
        OBVIOUS
    <2>2. Cardinality(R) \in Nat
        <3> HIDE DEF R
        <3> QED BY <2>1, FS_Subset, FS_CardinalityType
    <2> QED BY <2>1, <2>2
<1> HIDE DEF g
<1>3. SumOver(g, S) = SumOver(L, S)
    BY <1>2, SumOfTheSame
<1> QED BY <1>1, <1>3

\* The segments of a set of hours do not overlap and last as long as it.
LEMMA SegmentsAreAll ==
    ASSUME NEW hours, hours \subseteq Int, IsFiniteSet(hours)
    PROVE  /\ IsFiniteSet(Segments(hours))
           /\ \A r, s \in Segments(hours) : r.from = s.from => r = s
           /\ SumOver(LengthOf(Segments(hours)), Segments(hours)) = Cardinality(hours)
<1> DEFINE S == Segments(hours)
           L == LengthOf(S)
           p == [h \in hours |-> CHOOSE s \in S : s.from <= h /\ h < s.to]
<1>1. AreRuns(S, hours)
    BY SegmentsAreRuns
<1>2. /\ IsFiniteSet(S)
      /\ \A s \in S : /\ s.from \in Int /\ s.to \in Int /\ s.from < s.to
                      /\ \A h \in Int : s.from <= h /\ h < s.to => h \in hours
      /\ \A r, s \in S : r = s \/ r.to <= s.from \/ s.to <= r.from
    BY <1>1 DEF AreRuns
<1>3. \A h \in hours : p[h] \in S /\ p[h].from <= h /\ h < p[h].to
    <2> TAKE h \in hours
    <2>1. \E s \in S : s.from <= h /\ h < s.to
        BY SegmentsCover
    <2> HIDE DEF S
    <2> QED BY <2>1
<1> HIDE DEF S
<1>4. \A s \in S : {h \in hours : p[h] = s} = s.from..(s.to - 1)
    <2> SUFFICES ASSUME NEW s \in S PROVE {h \in hours : p[h] = s} = s.from..(s.to - 1)
        OBVIOUS
    <2> HIDE DEF p
    <2>1. ASSUME NEW h \in hours, p[h] = s PROVE h \in s.from..(s.to - 1)
        <3>1. h \in Int /\ s.from <= h /\ h < s.to
            BY <1>3, <2>1
        <3> QED BY <1>2, <3>1
    <2>2. ASSUME NEW h \in s.from..(s.to - 1) PROVE h \in hours /\ p[h] = s
        <3>1. h \in Int /\ s.from <= h /\ h < s.to /\ h \in hours
            BY <1>2, <2>2
        <3>2. p[h] \in S /\ p[h].from <= h /\ h < p[h].to
            BY <1>3, <3>1
        <3>3. p[h].from \in Int /\ p[h].to \in Int /\ s.from \in Int /\ s.to \in Int
            BY <1>2, <3>2
        <3>4. p[h] = s \/ p[h].to <= s.from \/ s.to <= p[h].from
            BY <1>2, <3>2
        <3> QED BY <3>1, <3>2, <3>3, <3>4
    <2> QED BY <2>1, <2>2
<1>5. \A s \in S : L[s] = Cardinality(PartOf(hours, p, s))
    <2> SUFFICES ASSUME NEW s \in S PROVE L[s] = Cardinality(PartOf(hours, p, s))
        OBVIOUS
    <2>1. Cardinality(PartOf(hours, p, s)) = Cardinality(s.from..(s.to - 1))
        BY <1>4 DEF PartOf
    <2>2. s.from \in Int /\ s.to - 1 \in Int /\ ~(s.from > s.to - 1) /\ s.to \in Int
        BY <1>2
    <2>3. Cardinality(s.from..(s.to - 1)) = (s.to - 1) - s.from + 1
        BY <2>2, FS_Interval
    <2>4. L[s] = s.to - s.from
        BY DEF LengthOf
    <2> HIDE DEF p, L
    <2> QED BY <2>1, <2>2, <2>3, <2>4
<1>6. SumOver(L, S) = Cardinality(hours)
    <2> HIDE DEF L, p
    <2>1. \A h \in hours : p[h] \in S
        BY <1>3
    <2> QED BY <1>2, <1>5, <2>1, SizeOfRuns
<1>7. \A r, s \in S : r.from = s.from => r = s
    BY <1>2
<1> QED BY <1>2, <1>6, <1>7 DEF S

\* The entries of one task.
AreEntries(S, t, hours, finish) ==
    /\ IsFiniteSet(S)
    /\ \A e \in S : /\ e = [task |-> t, from |-> e.from, to |-> e.to] /\ e.task = t
                    /\ e.from \in Int /\ e.to \in Int /\ e.from <= e.to
                    /\ e.from = e.to => e.from = finish
                    /\ \A h \in Int : e.from <= h /\ h < e.to => h \in hours
    /\ \A e, f \in S : e = f \/ e.to <= f.from \/ f.to <= e.from
    /\ \A e, f \in S : e.from = f.from => e = f

\* The entries of a task last as long as its hours, its end lasts no time.
LEMMA EntriesAreOfTask ==
    ASSUME NEW t, NEW p, p.hours \subseteq Int, IsFiniteSet(p.hours), p.end \in Int
    PROVE  LET S == EntriesOf(t, p)
           IN  AreEntries(S, t, p.hours, p.end) /\ SumOver(LengthOf(S), S) = Cardinality(p.hours)
<1> DEFINE S == EntriesOf(t, p)
<1>1. CASE p.hours = {}
    <2> DEFINE e == [task |-> t, from |-> p.end, to |-> p.end]
    <2>1. S = {e}
        BY <1>1 DEF EntriesOf
    <2>2. e.task = t /\ e.from = p.end /\ e.to = p.end
        OBVIOUS
    <2>3. IsFiniteSet(S)
        <3> HIDE DEF e, S
        <3> QED BY <2>1, FS_Singleton
    <2>4. AreEntries(S, t, p.hours, p.end)
        <3>1. e = [task |-> t, from |-> e.from, to |-> e.to]
            OBVIOUS
        <3> HIDE DEF e, S
        <3> QED BY <2>1, <2>2, <2>3, <3>1 DEF AreEntries
    <2>5. SumOver(LengthOf(S), S) = 0
        <3> DEFINE L == LengthOf(S)
        <3>1. L[e] = 0 /\ e \in S
            BY <2>1, <2>2 DEF LengthOf
        <3>2. S \ {e} = {} /\ \A x \in S : L[x] \in Int
            BY <2>1, <3>1
        <3> HIDE DEF e, S, L
        <3>3. SumOver(L, S) = L[e] + SumOver(L, S \ {e})
            BY <2>3, <3>1, <3>2, SumWithout
        <3>4. SumOver(L, {}) = 0
            BY SumOfNothing
        <3>5. SumOver(L, S \ {e}) = 0
            <4>1. S \ {e} = {}
                BY <3>2
            <4> QED BY <3>4, <4>1
        <3>6. SumOver(L, S) = 0
            BY <3>1, <3>3, <3>5
        <3> QED BY <3>6 DEF L
    <2> QED BY <1>1, <2>4, <2>5, FS_EmptySet
<1>2. CASE p.hours # {}
    <2> DEFINE R == Segments(p.hours)
               q == [s \in R |-> [task |-> t, from |-> s.from, to |-> s.to]]
               f == LengthOf(R)
               g == LengthOf(S)
    <2>1. S = {q[s] : s \in R}
        BY <1>2 DEF EntriesOf
    <2>2. /\ IsFiniteSet(R)
          /\ \A r, s \in R : r.from = s.from => r = s
          /\ SumOver(f, R) = Cardinality(p.hours)
        BY SegmentsAreAll
    <2>3. /\ \A s \in R : /\ s.from \in Int /\ s.to \in Int /\ s.from < s.to
                          /\ \A h \in Int : s.from <= h /\ h < s.to => h \in p.hours
          /\ \A r, s \in R : r = s \/ r.to <= s.from \/ s.to <= r.from
        BY SegmentsAreRuns DEF AreRuns
    <2>4. \A s \in R : /\ q[s] = [task |-> t, from |-> q[s].from, to |-> q[s].to]
                       /\ q[s].task = t /\ q[s].from = s.from /\ q[s].to = s.to
        OBVIOUS
    <2>8. \A s \in R : q[s] \in S
        <3> HIDE DEF q, R
        <3> QED BY <2>1
    <2> HIDE DEF R, q, S
    <2>5. IsFiniteSet(S)
        BY <2>1, <2>2, ImageOfFinite
    <2>6. AreEntries(S, t, p.hours, p.end)
        <3>1. \A e \in S : \E s \in R : e = q[s]
            BY <2>1
        <3>2. ASSUME NEW e \in S
              PROVE  /\ e = [task |-> t, from |-> e.from, to |-> e.to] /\ e.task = t
                     /\ e.from \in Int /\ e.to \in Int /\ e.from < e.to
                     /\ \A h \in Int : e.from <= h /\ h < e.to => h \in p.hours
            <4>1. PICK s \in R : e = q[s]
                BY <3>1
            <4>2. /\ e = [task |-> t, from |-> e.from, to |-> e.to] /\ e.task = t
                  /\ e.from = s.from /\ e.to = s.to
                BY <2>4, <4>1
            <4> QED BY <2>3, <4>2
        <3>3. ASSUME NEW e \in S, NEW d \in S
              PROVE  (e = d \/ e.to <= d.from \/ d.to <= e.from) /\ (e.from = d.from => e = d)
            <4>1. PICK s \in R : e = q[s]
                BY <3>1
            <4>2. PICK r \in R : d = q[r]
                BY <3>1
            <4>3. e.from = s.from /\ e.to = s.to /\ d.from = r.from /\ d.to = r.to
                BY <2>4, <4>1, <4>2
            <4>4. s = r \/ s.to <= r.from \/ r.to <= s.from
                BY <2>3
            <4>5. s = r => e = d
                BY <4>1, <4>2
            <4> QED BY <2>2, <4>3, <4>4, <4>5
        <3>4. \A e \in S : e.from <= e.to /\ (e.from = e.to => e.from = p.end)
            BY <3>2
        <3> QED BY <2>5, <3>2, <3>3, <3>4 DEF AreEntries
    <2>7. SumOver(f, R) = SumOver(g, S)
        <3>1. \A s \in R : f[s] \in Int /\ q[s] \in S /\ f[s] = g[q[s]]
            <4> TAKE s \in R
            <4>1. f[s] = s.to - s.from
                BY DEF LengthOf
            <4>2. q[s] \in S /\ q[s].from = s.from /\ q[s].to = s.to
                BY <2>4, <2>8
            <4>3. g[q[s]] = q[s].to - q[s].from
                BY <4>2 DEF LengthOf
            <4> HIDE DEF f, g
            <4> QED BY <2>3, <4>1, <4>2, <4>3
        <3>2. \A e \in S : \E s \in R : q[s] = e
            BY <2>1
        <3>3. \A r, s \in R : q[r] = q[s] => r = s
            <4> TAKE r, s \in R
            <4>1. r.from = q[r].from /\ s.from = q[s].from
                BY <2>4
            <4> QED BY <2>2, <4>1
        <3> HIDE DEF f, g
        <3> QED BY <2>2, <3>1, <3>2, <3>3, SumOfPairs
    <2> QED BY <2>2, <2>6, <2>7 DEF S
<1> QED BY <1>1, <1>2

\* The work of each task.
WorkOfTasks(c) == [t \in DOMAIN c |-> c[t].work]

(* The entries of a plan are pieces that do not meet, and together they    *)
(* are the work of the tasks.                                              *)
LEMMA PiecesOfPlan ==
    ASSUME NEW c, ArePlannable(c), NEW now \in Int, NEW E, E = ScheduleOf(c, now)
    PROVE  ArePieces(E, c, now) /\ SumOver(LengthOf(E), E) = SumOver(WorkOfTasks(c), DOMAIN c)
<1> DEFINE D == DOMAIN c
           P == PlanOf(c, now)
           part1 == [t \in D |-> EntriesOf(t, P[t])]
           q == [e \in E |-> e.task]
           L == LengthOf(E)
<1>1. /\ DOMAIN P = D
      /\ \A t \in D : /\ P[t].hours \subseteq Int /\ IsFiniteSet(P[t].hours) /\ P[t].end \in Int
                      /\ P[t].end >= now /\ \A h \in P[t].hours : h >= now
                      /\ Cardinality(P[t].hours) = c[t].work
      /\ \A t, u \in D : t # u => P[t].hours \cap P[u].hours = {}
    BY PlanOfIsFair DEF IsPlanFor, IsFairPlan
<1>2. IsFiniteSet(D) /\ \A t \in D : c[t].work \in Nat
    BY DEF ArePlannable, Candidate
<1>3. E = UNION {part1[t] : t \in D}
    BY <1>1 DEF ScheduleOf
<1> HIDE DEF P
<1>4. \A t \in D : /\ part1[t] = EntriesOf(t, P[t])
                   /\ AreEntries(part1[t], t, P[t].hours, P[t].end)
                   /\ SumOver(LengthOf(part1[t]), part1[t]) = c[t].work
    BY <1>1, EntriesAreOfTask
<1> HIDE DEF part1, D
<1>5. IsFiniteSet(E)
    <2>1. IsFiniteSet({part1[t] : t \in D})
        BY <1>2, ImageOfFinite
    <2>2. \A T \in {part1[t] : t \in D} : IsFiniteSet(T)
        BY <1>4 DEF AreEntries
    <2> DEFINE X == {part1[t] : t \in D}
    <2> HIDE DEF X
    <2>3. IsFiniteSet(UNION X)
        BY <2>1, <2>2, FS_UNION DEF X
    <2> QED BY <1>3, <2>3 DEF X
<1>6. \A e \in E : e.task \in D /\ e \in part1[e.task]
    <2> TAKE e \in E
    <2>1. PICK t \in D : e \in part1[t]
        BY <1>3
    <2>2. e.task = t
        BY <1>4, <2>1 DEF AreEntries
    <2> QED BY <2>1, <2>2
<1>7. \A t \in D : part1[t] = {e \in E : q[e] = t}
    <2> TAKE t \in D
    <2>1. \A e \in part1[t] : e \in E /\ e.task = t
        BY <1>3, <1>4 DEF AreEntries
    <2> QED BY <1>6, <2>1
<1>8. ASSUME NEW e \in E
      PROVE  /\ e = [task |-> e.task, from |-> e.from, to |-> e.to]
             /\ e.task \in DOMAIN c /\ e.from \in Int /\ e.to \in Int
             /\ now <= e.from /\ e.from <= e.to
             /\ \A h \in Int : e.from <= h /\ h < e.to => h \in P[e.task].hours
    <2> DEFINE t == e.task
    <2>1. t \in D /\ AreEntries(part1[t], t, P[t].hours, P[t].end) /\ e \in part1[t]
        BY <1>4, <1>6
    <2>2. /\ e = [task |-> t, from |-> e.from, to |-> e.to]
          /\ e.from \in Int /\ e.to \in Int /\ e.from <= e.to
          /\ e.from = e.to => e.from = P[t].end
          /\ \A h \in Int : e.from <= h /\ h < e.to => h \in P[t].hours
        BY <2>1 DEF AreEntries
    <2>3. now <= e.from
        <3>1. CASE e.from = e.to
            BY <1>1, <2>1, <2>2, <3>1
        <3>2. CASE e.from < e.to
            BY <1>1, <2>1, <2>2, <3>2
        <3> QED BY <2>2, <3>1, <3>2
    <2> QED BY <2>1, <2>2, <2>3 DEF D
<1>9. ASSUME NEW e \in E, NEW f \in E
      PROVE  /\ e = f \/ e.to <= f.from \/ f.to <= e.from \/ e.from = e.to \/ f.from = f.to
             /\ e.task = f.task /\ e.from = f.from => e = f
    <2>1. CASE e.task = f.task
        <3>1. f \in part1[e.task] /\ e \in part1[e.task] /\ e.task \in D
            BY <1>6, <2>1
        <3> QED BY <1>4, <3>1 DEF AreEntries
    <2>2. CASE e.task # f.task
        <3>1. P[e.task].hours \cap P[f.task].hours = {}
            BY <1>1, <1>6, <2>2
        <3> SUFFICES ASSUME ~(e.to <= f.from \/ f.to <= e.from \/ e.from = e.to \/ f.from = f.to)
                     PROVE  FALSE
            BY <2>2
        <3> DEFINE h == IF e.from <= f.from THEN f.from ELSE e.from
        <3>2. e.from \in Int /\ e.to \in Int /\ f.from \in Int /\ f.to \in Int /\ e.from <= e.to /\ f.from <= f.to
            BY <1>8
        <3>3. h \in Int /\ e.from <= h /\ h < e.to /\ f.from <= h /\ h < f.to
            BY <3>2
        <3> HIDE DEF h
        <3>4. h \in P[e.task].hours /\ h \in P[f.task].hours
            BY <1>8, <3>3
        <3> QED BY <3>1, <3>4
    <2> QED BY <2>1, <2>2
<1>10. ArePieces(E, c, now)
    BY <1>5, <1>8, <1>9 DEF ArePieces
<1>11. \A e \in E : L[e] \in Int
    BY <1>8 DEF LengthOf
<1>12. SumOver(L, E) = SumOver(PartSums(L, E, q, D), D)
    <2>1. \A e \in E : q[e] \in D
        BY <1>6
    <2> HIDE DEF L, q
    <2> QED BY <1>2, <1>5, <1>11, <2>1, SumOfParts
<1>13. \A t \in D : PartSums(L, E, q, D)[t] = c[t].work
    <2> TAKE t \in D
    <2>1. PartSums(L, E, q, D)[t] = SumOver(L, part1[t])
        <3> HIDE DEF L, q
        <3> QED BY <1>7 DEF PartSums
    <2> DEFINE S == part1[t]
               M == LengthOf(S)
    <2>2. S \subseteq E /\ IsFiniteSet(S)
        <3>1. IsFiniteSet(part1[t])
            BY <1>4 DEF AreEntries
        <3>2. \A e \in part1[t] : e \in E
            BY <1>7
        <3> QED BY <3>1, <3>2
    <2>3. \A e \in S : L[e] \in Int /\ L[e] = M[e]
        BY <1>11, <2>2 DEF LengthOf
    <2>4. SumOver(L, S) = SumOver(M, S)
        <3> HIDE DEF L, S, M
        <3> QED BY <2>2, <2>3, SumOfTheSame
    <2>5. SumOver(M, S) = c[t].work
        BY <1>4
    <2> HIDE DEF L, q
    <2> QED BY <2>1, <2>4, <2>5
<1>14. SumOver(PartSums(L, E, q, D), D) = SumOver(WorkOfTasks(c), D)
    <2> DEFINE g == PartSums(L, E, q, D)
               w == WorkOfTasks(c)
    <2>1. \A t \in D : g[t] \in Int /\ g[t] = w[t]
        BY <1>2, <1>13 DEF WorkOfTasks, D
    <2> HIDE DEF g, w
    <2>2. SumOver(g, D) = SumOver(w, D)
        BY <1>2, <2>1, SumOfTheSame
    <2> QED BY <2>2 DEF g, w
<1> HIDE DEF L, q
<1> QED BY <1>10, <1>12, <1>14 DEF L, D

-----------------------------------------------------------------------------
(***************************************************************************)
(* The list of tasks: what it is about                                     *)
(***************************************************************************)
(* It lists the same plan.                                                 *)
LEMMA ListIsOfPlan ==
    ASSUME NEW c, NEW now
    PROVE  /\ List!ArePlannable(c) => ArePlannable(c)
           /\ List!ScheduleOf(c, now) = ScheduleOf(c, now)
<1>1. List!ArePlannable(c) => ArePlannable(c)
    BY DEF ArePlannable, List!ArePlannable, Candidate, List!Candidate, IsFiniteSet, List!IsFiniteSet
<1>2. List!PlansOf(c, now) = PlansOf(c, now)
    <2>1. \A S : List!Cardinality(S) = Cardinality(S)
        BY Zenon DEF Cardinality, List!Cardinality
    <2>2. \A S : List!Min(S) = Min(S) /\ List!Max(S) = Max(S)
        BY Zenon DEF Min, List!Min, Max, List!Max
    <2>3. \A p : List!Taken(p) = Taken(p)
        BY Zenon DEF Taken, List!Taken
    <2>4. \A done : List!NextTask(c, done) = NextTask(c, done)
        BY Zenon DEF NextTask, List!NextTask, SoonerIn, List!SoonerIn, KeyIn, List!KeyIn
    <2>5. \A p, from : List!Between(p, from) = Between(p, from)
        BY <2>1, <2>2, <2>3 DEF Between, List!Between
    <2>6. \A p, from, work : List!InPieces(p, from, work) = InPieces(p, from, work)
        BY <2>1, <2>3 DEF InPieces, List!InPieces
    <2>7. \A p, from, work : List!InOnePiece(p, from, work) = InOnePiece(p, from, work)
        BY <2>1, <2>2, <2>3 DEF InOnePiece, List!InOnePiece
    <2>8. \A p, t : List!Planned(c, p, t, now) = Planned(c, p, t, now)
        BY <2>2, <2>5, <2>6, <2>7 DEF Planned, List!Planned
    <2> DEFINE And(p, t, e) == [u \in DOMAIN p \cup {t} |-> IF u = t THEN e ELSE p[u]]
               After(p) == And(p, NextTask(c, DOMAIN p), Planned(c, p, NextTask(c, DOMAIN p), now))
               ListAfter(p) == And(p, List!NextTask(c, DOMAIN p),
                                   List!Planned(c, p, List!NextTask(c, DOMAIN p), now))
               P(ps) == ps = [n \in 0..Cardinality(DOMAIN c) |->
                                 IF n = 0 THEN << >> ELSE After(ps[n - 1])]
               Q(ps) == ps = [n \in 0..List!Cardinality(DOMAIN c) |->
                                 IF n = 0 THEN << >> ELSE ListAfter(ps[n - 1])]
    <2>9. ASSUME NEW ps PROVE P(ps) <=> Q(ps)
        <3>1. \A p : ListAfter(p) = After(p)
            <4> HIDE DEF And
            <4> QED BY <2>4, <2>8
        <3> HIDE DEF After, ListAfter
        <3> QED BY <2>1, <3>1
    <2>10. PlansOf(c, now) = CHOOSE ps : P(ps)
        BY DEF PlansOf
    <2>11. List!PlansOf(c, now) = CHOOSE ps : Q(ps)
        BY DEF List!PlansOf
    <2>12. (CHOOSE ps : P(ps)) = (CHOOSE ps : Q(ps))
        <3> HIDE DEF P, Q
        <3> QED BY <2>9
    <2> QED BY <2>10, <2>11, <2>12
<1>3. List!PlanOf(c, now) = PlanOf(c, now)
    BY <1>2, Zenon DEF PlanOf, List!PlanOf, Cardinality, List!Cardinality
<1>4. \A t, p : List!EntriesOf(t, p) = EntriesOf(t, p)
    BY DEF EntriesOf, List!EntriesOf, Segments, List!Segments, Min, List!Min, Max, List!Max
<1> QED BY <1>1, <1>3, <1>4 DEF ScheduleOf, List!ScheduleOf

(* What it takes from the libraries is the same.                           *)
LEMMA ListCounts ==
    /\ \A S : List!Cardinality(S) = Cardinality(S)
    /\ \A S : List!Min(S) = Min(S) /\ List!Max(S) = Max(S)
    /\ \A s : List!ToSet(s) = Has(s)
<1>1. \A S : List!Cardinality(S) = Cardinality(S)
    BY Zenon DEF Cardinality, List!Cardinality
<1>2. \A S : List!Min(S) = Min(S) /\ List!Max(S) = Max(S)
    BY Zenon DEF Min, List!Min, Max, List!Max
<1>3. \A s : List!ToSet(s) = Has(s)
    BY Zenon DEF List!ToSet, Has
<1> QED BY <1>1, <1>2, <1>3

\* The sum of a function in TaskList is the one the lemmas are about.
LEMMA ListSums ==
    ASSUME NEW f
    PROVE  List!SumFunction(f) = SumOver(f, DOMAIN f)
BY DEF List!SumFunction, List!SumFunctionOnSet, List!FoldFunctionOnSet, List!MapThenFoldSet,
       SumOver, MapThenSumSet, MapThenFoldSet

(* The numbers the list counts with.                                       *)
LEMMA ListNumbers ==
    ASSUME List!Assumption
    PROVE  /\ DayTicks \in Nat \ {0} /\ Minute \in Nat \ {0} /\ Character \in Nat \ {0}
           /\ DayTicks % Character = 0 /\ MorningTicks \in 0..(DayTicks - 1) /\ OffsetTicks \in Int
           /\ SummaryDays \in Nat \ {0} /\ GapIds \subseteq Int
BY DEF List!Assumption

\* What there is to list.
ListedWorld ==
    /\ world.now \in Int /\ world.busy \in Nat
    /\ ArePlannable(world.plan) /\ DOMAIN world.tasks = DOMAIN world.plan
    /\ GapIds \cap DOMAIN world.tasks = {}
    /\ \A t \in DOMAIN world.tasks :
          /\ world.tasks[t].ddl \in Int \cup {NoTime} /\ world.tasks[t].start \in Int
          /\ world.tasks[t].prio \in Int /\ world.tasks[t].est \in Nat
    /\ DOMAIN world.whole = DOMAIN world.free
    /\ \A d \in DOMAIN world.free :
          /\ world.free[d] \in Nat /\ world.whole[d] \in Nat /\ world.free[d] <= world.whole[d]
          /\ world.whole[d] * Minute <= DayTicks
          /\ d # List!Today => world.free[d] = world.whole[d]
    /\ \A e \in List!Pieces : List!DateOf(e.from) \in DOMAIN world.free

\* Every world of the assumption is one that can be listed.
LEMMA WorldIsListed ==
    ASSUME List!Assumption, world \in ListWorlds
    PROVE  ListedWorld
<1>1. List!IsWorld(world) /\ GapIds \cap DOMAIN world.tasks = {}
    BY DEF List!Assumption
<1>2. List!ArePlannable(world.plan)
    BY <1>1 DEF List!IsWorld
<1>3. ArePlannable(world.plan)
    BY <1>2, ListIsOfPlan
<1>4. /\ world.now \in Int /\ world.busy \in Nat /\ DOMAIN world.tasks = DOMAIN world.plan
      /\ DOMAIN world.whole = DOMAIN world.free
    BY <1>1 DEF List!IsWorld
<1>5. \A t \in DOMAIN world.tasks :
          /\ world.tasks[t].ddl \in Int \cup {NoTime} /\ world.tasks[t].start \in Int
          /\ world.tasks[t].prio \in Int /\ world.tasks[t].est \in Nat
    BY <1>1 DEF List!IsWorld
<1>6. \A d \in DOMAIN world.free :
          /\ world.free[d] \in Nat /\ world.whole[d] \in Nat /\ world.free[d] <= world.whole[d]
          /\ world.whole[d] * Minute <= DayTicks
          /\ d # List!Today => world.free[d] = world.whole[d]
    BY <1>1 DEF List!IsWorld, List!Today
<1>7. \A e \in List!Pieces : List!DateOf(e.from) \in DOMAIN world.free
    BY <1>1 DEF List!IsWorld, List!Pieces
<1> QED BY <1>1, <1>3, <1>4, <1>5, <1>6, <1>7 DEF ListedWorld

(* The dates of times: they are in order, and a date ends where the next   *)
(* begins.                                                                 *)
LEMMA ListDates ==
    ASSUME List!Assumption, NEW h \in Int, NEW d \in Int
    PROVE  /\ List!DateOf(h) \in Int
           /\ List!DateOf(h) <= d <=> h < (d + 1) * DayTicks + MorningTicks
           /\ List!DateOf(h) >= d <=> h >= d * DayTicks + MorningTicks
<1> DEFINE t == h - MorningTicks
           q == t \div DayTicks
           r == t % DayTicks
<1>1. DayTicks \in Nat \ {0} /\ MorningTicks \in Int
    BY ListNumbers
<1>2. t \in Int
    BY <1>1
<1>3. q \in Int /\ r \in 0..(DayTicks - 1) /\ t = q * DayTicks + r
    <2> HIDE DEF t
    <2> QED BY <1>1, <1>2, DayAndSlot
<1>4. List!DateOf(h) = q
    BY DEF List!DateOf
<1>5. h = q * DayTicks + MorningTicks + r /\ q * DayTicks \in Int
    BY <1>1, <1>2, <1>3
<1> HIDE DEF t, q, r
<1>6. ASSUME q <= d PROVE q * DayTicks + DayTicks <= (d + 1) * DayTicks
    <2>1. d - q \in Nat /\ (d - q) * DayTicks \in Nat
        BY <1>1, <1>3, <1>6
    <2>2. (d + 1) * DayTicks = q * DayTicks + DayTicks + (d - q) * DayTicks
        BY <1>1, <1>3
    <2> QED BY <1>1, <1>3, <1>5, <2>1, <2>2
<1>7. ASSUME q > d PROVE q * DayTicks >= (d + 1) * DayTicks
    <2>1. q - d - 1 \in Nat /\ (q - d - 1) * DayTicks \in Nat
        BY <1>1, <1>3, <1>7
    <2>2. q * DayTicks = (d + 1) * DayTicks + (q - d - 1) * DayTicks
        BY <1>1, <1>3
    <2> QED BY <1>1, <1>3, <1>5, <2>1, <2>2
<1>8. ASSUME q >= d PROVE q * DayTicks >= d * DayTicks
    <2>1. q - d \in Nat /\ (q - d) * DayTicks \in Nat
        BY <1>1, <1>3, <1>8
    <2>2. q * DayTicks = d * DayTicks + (q - d) * DayTicks
        BY <1>1, <1>3
    <2> QED BY <1>1, <1>3, <1>5, <2>1, <2>2
<1>9. ASSUME q < d PROVE q * DayTicks + DayTicks <= d * DayTicks
    <2>1. d - q - 1 \in Nat /\ (d - q - 1) * DayTicks \in Nat
        BY <1>1, <1>3, <1>9
    <2>2. d * DayTicks = q * DayTicks + DayTicks + (d - q - 1) * DayTicks
        BY <1>1, <1>3
    <2> QED BY <1>1, <1>3, <1>5, <2>1, <2>2
<1>10. (d + 1) * DayTicks \in Int /\ d * DayTicks \in Int
    BY <1>1
<1>11. q <= d <=> h < (d + 1) * DayTicks + MorningTicks
    BY <1>1, <1>3, <1>5, <1>6, <1>7, <1>10
<1>12. q >= d <=> h >= d * DayTicks + MorningTicks
    BY <1>1, <1>3, <1>5, <1>8, <1>9, <1>10
<1> QED BY <1>3, <1>4, <1>11, <1>12

\* A piece of work and its task.
IsPiece(e) ==
    /\ e = [task |-> e.task, from |-> e.from, to |-> e.to]
    /\ e.task \in DOMAIN world.tasks /\ e.task \in Int
    /\ e.from \in Int /\ e.to \in Int /\ world.now <= e.from /\ e.from <= e.to
    /\ List!Work(e) = e.to - e.from /\ List!Work(e) \in Nat
    /\ List!Task(e).prio \in Int /\ List!Task(e).start \in Int /\ List!Task(e).est \in Nat
    /\ List!Task(e).ddl \in Int \cup {NoTime}
    /\ List!Rank(e) \in Int
    /\ List!DateOf(e.from) \in Int /\ List!DateOf(e.from) \in DOMAIN world.free
    /\ List!Today \in Int /\ List!Ahead(e) \in Nat /\ List!DateOf(e.from) = List!Today + List!Ahead(e)

\* The pieces of the list do not overlap and are the work of all tasks.
LEMMA PiecesAreOfPlan ==
    ASSUME List!Assumption, ListedWorld
    PROVE  /\ IsFiniteSet(List!Pieces)
           /\ \A e \in List!Pieces : IsPiece(e)
           /\ \A e, f \in List!Pieces : e = f \/ e.to <= f.from \/ f.to <= e.from \/ e.from = e.to \/ f.from = f.to
           /\ \A e, f \in List!Pieces : e.task = f.task /\ e.from = f.from => e = f
           /\ SumOver(LengthOf(List!Pieces), List!Pieces) = SumOver(WorkOfTasks(world.plan), DOMAIN world.plan)
<1> DEFINE E == List!Pieces
<1>1. E = ScheduleOf(world.plan, world.now)
    BY ListIsOfPlan DEF List!Pieces
<1>2. ArePlannable(world.plan) /\ world.now \in Int
    BY DEF ListedWorld
<1> HIDE DEF E
<1>3. /\ ArePieces(E, world.plan, world.now)
      /\ SumOver(LengthOf(E), E) = SumOver(WorkOfTasks(world.plan), DOMAIN world.plan)
    BY <1>1, <1>2, PiecesOfPlan
<1>4. ASSUME NEW e \in E PROVE IsPiece(e)
    <2>1. /\ e = [task |-> e.task, from |-> e.from, to |-> e.to]
          /\ e.task \in DOMAIN world.plan /\ e.from \in Int /\ e.to \in Int
          /\ world.now <= e.from /\ e.from <= e.to
        BY <1>3 DEF ArePieces
    <2>2. e.task \in Int /\ world.plan[e.task].rank \in Int
        BY <1>2, <2>1 DEF ArePlannable, Candidate
    <2>3. /\ e.task \in DOMAIN world.tasks
          /\ List!Task(e).prio \in Int /\ List!Task(e).start \in Int /\ List!Task(e).est \in Nat
          /\ List!Task(e).ddl \in Int \cup {NoTime}
        BY <2>1 DEF ListedWorld, List!Task
    <2>4. List!Rank(e) \in Int /\ List!Work(e) = e.to - e.from
        BY <2>2 DEF List!Rank, List!Work
    <2>5. List!Work(e) \in Nat
        BY <2>1, <2>4
    <2>6. List!DateOf(e.from) \in DOMAIN world.free
        BY DEF ListedWorld, E
    <2> DEFINE d == List!DateOf(e.from)
               t == List!DateOf(world.now)
    <2>7. d \in Int /\ t \in Int
        BY <1>2, <2>1, ListDates
    <2>8. d >= t
        <3>1. world.now >= t * DayTicks + MorningTicks
            <4> HIDE DEF t
            <4>1. t >= t
                BY <2>7
            <4> QED BY <1>2, <2>7, <4>1, ListDates DEF t
        <3>2. e.from >= t * DayTicks + MorningTicks
            <4>1. t * DayTicks + MorningTicks \in Int
                BY <2>7, ListNumbers
            <4> HIDE DEF t
            <4> QED BY <1>2, <2>1, <3>1, <4>1
        <3> HIDE DEF t
        <3> QED BY <2>1, <2>7, <3>2, ListDates
    <2>9. List!Today = t /\ List!Ahead(e) = d - t
        BY DEF List!Today, List!Ahead
    <2> HIDE DEF d, t
    <2>10. List!Today \in Int /\ List!Ahead(e) \in Nat /\ d = List!Today + List!Ahead(e)
        BY <2>7, <2>8, <2>9
    <2> QED BY <2>1, <2>2, <2>3, <2>4, <2>5, <2>6, <2>7, <2>10 DEF IsPiece, d
<1> QED BY <1>3, <1>4 DEF ArePieces, E

-----------------------------------------------------------------------------
(***************************************************************************)
(* Its order                                                               *)
(***************************************************************************)
\* The pieces a pattern looks at, and those before each of them.
ReachedBy(p) == {e \in List!Pieces : List!InReach(p, e)}
EarlierEntry(S) == [e \in S |-> {f \in S : List!Entry(f, e)}]

(* The order of the plan is one, and what is earlier does not begin later. *)
LEMMA EntriesAreInOrder ==
    ASSUME List!Assumption, ListedWorld, NEW S, S \subseteq List!Pieces
    PROVE  /\ IsOrder(S, EarlierEntry(S))
           /\ \A e \in S : \A f \in EarlierEntry(S)[e] : f.from <= e.from
<1> DEFINE key(x) == <<x.from, IF List!Task(x).ddl = NoTime THEN 1 ELSE 0,
                       -List!Task(x).prio, List!Rank(x), x.task>>
           K == [e \in S |-> key(e)]
           B == EarlierEntry(S)
<1>1. IsFiniteSet(S)
    BY PiecesAreOfPlan, FS_Subset
<1>2. \A e \in S : /\ e.from \in Int /\ List!Task(e).prio \in Int /\ List!Rank(e) \in Int /\ e.task \in Int
    BY PiecesAreOfPlan DEF IsPiece
<1>3. \A e \in S : key(e) \in [1..5 -> Int]
    <2> TAKE e \in S
    <2> DEFINE b == IF List!Task(e).ddl = NoTime THEN 1 ELSE 0
               c == -List!Task(e).prio
    <2>1. b \in Int /\ c \in Int
        BY <1>2
    <2> HIDE DEF b, c
    <2>2. <<e.from, b, c, List!Rank(e), e.task>> \in [1..5 -> Int]
        BY <1>2, <2>1
    <2> QED BY <2>2 DEF b, c
<1>4. K \in [S -> [1..5 -> Int]]
    <2> HIDE DEF key
    <2> QED BY <1>3
<1>5. \A e, f \in S : (\A i \in 1..5 : K[e][i] = K[f][i]) => e = f
    <2> TAKE e, f \in S
    <2> SUFFICES ASSUME \A i \in 1..5 : K[e][i] = K[f][i] PROVE e = f
        OBVIOUS
    <2>1. K[e][1] = K[f][1] /\ K[e][5] = K[f][5]
        OBVIOUS
    <2>2. K[e][1] = e.from /\ K[f][1] = f.from /\ K[e][5] = e.task /\ K[f][5] = f.task
        OBVIOUS
    <2>3. e.from = f.from /\ e.task = f.task /\ e \in List!Pieces /\ f \in List!Pieces
        BY <2>1, <2>2
    <2> QED BY <2>3, PiecesAreOfPlan
<1>6. \A e, f \in S : List!Entry(f, e) <=> KeyBefore(K[f], K[e], 5)
    <2> TAKE e, f \in S
    <2>1. K[e] = key(e) /\ K[f] = key(f)
        OBVIOUS
    <2>2. List!Entry(f, e) <=> KeyBefore(key(f), key(e), 5)
        BY DEF List!Entry, KeyBefore
    <2> HIDE DEF K, key
    <2> QED BY <2>1, <2>2
<1>7. /\ \A e \in S : B[e] \subseteq S
      /\ \A e, f \in S : f \in B[e] <=> List!Entry(f, e)
    BY DEF EarlierEntry
<1>8. IsOrder(S, B)
    <2> HIDE DEF K, B
    <2>1. \A e, f \in S : f \in B[e] <=> KeyBefore(K[f], K[e], 5)
        BY <1>6, <1>7
    <2> QED BY <1>1, <1>4, <1>5, <1>7, <2>1, KeysOrder
<1>9. ASSUME NEW e \in S, NEW f \in B[e] PROVE f.from <= e.from
    <2>1. f \in S
        BY <1>7
    <2>2. KeyBefore(key(f), key(e), 5)
        BY <1>7, <2>1 DEF List!Entry, KeyBefore
    <2>3. PICK i \in 1..5 : key(f)[i] < key(e)[i] /\ \A j \in 1..(i - 1) : key(f)[j] = key(e)[j]
        BY <2>2 DEF KeyBefore
    <2>4. key(f)[1] = f.from /\ key(e)[1] = e.from
        OBVIOUS
    <2> HIDE DEF key
    <2>5. CASE i = 1
        BY <1>2, <2>1, <2>3, <2>4, <2>5
    <2>6. CASE i # 1
        <3>1. 1 \in 1..(i - 1)
            BY <2>6
        <3> QED BY <1>2, <2>1, <2>3, <2>4, <3>1
    <2> QED BY <2>5, <2>6
<1> QED BY <1>8, <1>9

(* What is considered are the pieces in reach, each once, in that order.   *)
LEMMA ConsideredIs ==
    ASSUME List!Assumption, ListedWorld, NEW p, NEW s, s = List!Considered(p)
    PROVE  LET n == Cardinality(ReachedBy(p))
           IN  /\ n \in Nat /\ DOMAIN s = 1..n /\ s \in Seq(ReachedBy(p)) /\ Len(s) = n
               /\ Has(s) = ReachedBy(p) /\ HasOnce(s)
               /\ \A i, j \in 1..n : i < j => s[i].from <= s[j].from
<1> DEFINE S == ReachedBy(p)
           B == EarlierEntry(S)
           n == Cardinality(S)
<1>1. S \subseteq List!Pieces
    BY DEF ReachedBy
<1>2. IsOrder(S, B) /\ \A e \in S : \A f \in B[e] : f.from <= e.from
    <2> HIDE DEF S
    <2> QED BY <1>1, EntriesAreInOrder
<1>3. s = [i \in 1..n |-> CHOOSE e \in S : List!Cardinality({f \in S : List!Entry(f, e)}) = i - 1]
    BY ListCounts DEF List!Considered, List!InOrder, ReachedBy, List!Pieces
<1>4. \A e \in S : List!Cardinality({f \in S : List!Entry(f, e)}) = Cardinality(B[e])
    BY ListCounts DEF EarlierEntry
<1>5. /\ n \in Nat
      /\ \A i \in 1..n : \E e \in S : Cardinality(B[e]) = i - 1
    <2> HIDE DEF S, B
    <2> QED BY <1>2, PlacesAreTaken
<1>6. ASSUME NEW i \in 1..n PROVE s[i] \in S /\ Cardinality(B[s[i]]) = i - 1
    <2> DEFINE P(e) == List!Cardinality({f \in S : List!Entry(f, e)}) = i - 1
    <2>1. s[i] = CHOOSE e \in S : P(e)
        BY <1>3
    <2>2. \E e \in S : P(e)
        BY <1>4, <1>5
    <2>3. s[i] \in S /\ P(s[i])
        <3> HIDE DEF P, S
        <3> QED BY <2>1, <2>2
    <2> QED BY <1>4, <2>3
<1>7. DOMAIN s = 1..n
    <2> HIDE DEF S
    <2> QED BY <1>3
<1> HIDE DEF S, B
<1>8. InOrderOf(s, S, B)
    BY <1>6, <1>7 DEF InOrderOf
<1>9. /\ \A e \in S : \E i \in DOMAIN s : s[i] = e
      /\ \A i, j \in DOMAIN s : i < j <=> s[i] \in B[s[j]]
      /\ \A i, j \in DOMAIN s : s[i] = s[j] => i = j
    BY <1>2, <1>8, OrderedIsInOrder
<1>10. s \in Seq(S) /\ Len(s) = n
    <2>1. s = [i \in 1..n |-> s[i]]
        BY <1>3
    <2> HIDE DEF n
    <2>2. s \in [1..n -> S]
        BY <1>6, <1>7, <2>1
    <2> QED BY <1>5, <2>2
<1>11. Has(s) = S
    BY <1>6, <1>7, <1>9 DEF Has
<1>12. HasOnce(s)
    BY <1>9 DEF HasOnce
<1>13. \A i, j \in 1..n : i < j => s[i].from <= s[j].from
    BY <1>2, <1>6, <1>7, <1>9
<1> QED BY <1>5, <1>7, <1>10, <1>11, <1>12, <1>13 DEF S

-----------------------------------------------------------------------------
(***************************************************************************)
(* The calendar                                                            *)
(***************************************************************************)
\* What takes some time, from one time to another.
TakeTime(T) == IsFiniteSet(T) /\ \A e \in T : e.from \in Int /\ e.to \in Int /\ e.from <= e.to

(* Work is the sum of times; of a part it is no more.                      *)
LEMMA ListWork ==
    ASSUME NEW S
    PROVE  List!WorkOf(S) = SumOver(LengthOf(S), S)
<1> DEFINE f == [e \in S |-> List!Work(e)]
<1>1. f = LengthOf(S)
    BY DEF LengthOf, List!Work
<1>2. DOMAIN f = S
    OBVIOUS
<1> HIDE DEF f
<1>3. List!SumFunction(f) = SumOver(f, DOMAIN f)
    BY ListSums
<1> QED BY <1>1, <1>2, <1>3 DEF List!WorkOf, f

\* A part of the pieces takes no longer than all of them.
LEMMA WorkOfPart ==
    ASSUME NEW T, TakeTime(T), NEW R, R \subseteq T
    PROVE  /\ List!WorkOf(R) \in Nat /\ List!WorkOf(T) \in Nat /\ List!WorkOf(R) <= List!WorkOf(T)
           /\ List!WorkOf(R) = SumOver(LengthOf(T), R)
<1> DEFINE f == LengthOf(T)
           g == LengthOf(R)
<1>0. IsFiniteSet(T) /\ IsFiniteSet(R)
    BY FS_Subset DEF TakeTime
<1>1. /\ \A e \in T : f[e] \in Nat
      /\ \A e \in R : g[e] = f[e]
    BY DEF TakeTime, LengthOf
<1> HIDE DEF f, g
<1>2. SumOver(f, T) \in Nat /\ SumOver(f, R) \in Nat /\ SumOver(f, R) <= SumOver(f, T)
    BY <1>0, <1>1, SumOfMore
<1>3. SumOver(g, R) = SumOver(f, R)
    <2>1. \A e \in R : g[e] \in Int /\ g[e] = f[e]
        BY <1>1
    <2> QED BY <1>0, <2>1, SumOfTheSame
<1>4. List!WorkOf(T) = SumOver(f, T) /\ List!WorkOf(R) = SumOver(g, R)
    BY ListWork DEF f, g
<1> QED BY <1>2, <1>3, <1>4 DEF f

(* Whole minutes of some ticks.                                            *)
LEMMA WholeIs ==
    ASSUME List!Assumption, NEW t \in Int
    PROVE  /\ List!Whole(t) \in Int
           /\ t <= 0 => List!Whole(t) <= 0
           /\ t >= 0 => List!Whole(t) >= 0
<1>1. Minute \in Nat \ {0}
    BY ListNumbers
<1>2. ASSUME NEW a \in Nat
      PROVE  a \div Minute \in Nat /\ (a \div Minute) * Minute \in Nat /\ (a \div Minute) * Minute <= a
    <2> DEFINE q == a \div Minute
               r == a % Minute
               w == q * Minute
               z == (-q - 1) * Minute
    <2>1. q \in Int /\ r \in 0..(Minute - 1) /\ a = w + r
        BY <1>1, DayAndSlot
    <2>2. w \in Int /\ w = -Minute - z /\ z \in Int
        <3> HIDE DEF q
        <3> QED BY <1>1, <2>1
    <2>3. q < 0 => z \in Nat
        <3> SUFFICES ASSUME q < 0 PROVE z \in Nat
            OBVIOUS
        <3>1. -q - 1 \in Nat
            BY <2>1
        <3> HIDE DEF q
        <3> QED BY <1>1, <3>1
    <2>4. q >= 0 => w \in Nat
        <3> SUFFICES ASSUME q >= 0 PROVE w \in Nat
            OBVIOUS
        <3>1. q \in Nat
            BY <2>1
        <3> HIDE DEF q
        <3> QED BY <1>1, <3>1
    <2> HIDE DEF q, r, w, z
    <2>5. q \in Nat /\ w \in Nat /\ w <= a
        BY <1>1, <2>1, <2>2, <2>3, <2>4
    <2> QED BY <2>5 DEF q, w
<1>3. CASE t < 0
    <2> DEFINE a == -t
    <2>1. a \in Nat
        BY <1>3
    <2>2. List!Whole(t) = -(a \div Minute) * Minute
        BY <1>3 DEF List!Whole
    <2> HIDE DEF a
    <2>3. a \div Minute \in Nat /\ (a \div Minute) * Minute \in Nat
        BY <1>2, <2>1
    <2> DEFINE q == a \div Minute
    <2>4. -q * Minute = -(q * Minute)
        BY <1>1, <2>3
    <2> HIDE DEF q
    <2>5. List!Whole(t) = -(q * Minute) /\ q * Minute \in Nat
        BY <2>2, <2>3, <2>4 DEF q
    <2> QED BY <1>3, <2>5
<1>4. CASE t >= 0
    <2>1. t \in Nat
        BY <1>4
    <2>2. List!Whole(t) = (t \div Minute) * Minute
        BY <1>4 DEF List!Whole
    <2> QED BY <1>2, <1>4, <2>1, <2>2
<1> QED BY <1>3, <1>4

\* The numbers of a day.
IsDay(c) ==
    /\ c.work \in Nat /\ c.routine \in Nat /\ c.routine <= c.work
    /\ c.adjustable \in Nat /\ c.free \in Nat

\* The greater of two numbers.
LEMMA MaxOfTwo ==
    ASSUME NEW a \in Int, NEW b \in Int
    PROVE  Max({a, b}) = IF a >= b THEN a ELSE b
<1>1. CASE a >= b
    <2>1. \A y \in {a, b} : y <= a
        BY <1>1
    <2> QED BY <1>1, <2>1, MaxIs
<1>2. CASE ~(a >= b)
    <2>1. \A y \in {a, b} : y <= b
        BY <1>2
    <2> QED BY <1>2, <2>1, MaxIs
<1> QED BY <1>1, <1>2

(* What a day carries on, and what is wanted of it.                        *)
LEMMA LimitIs ==
    ASSUME List!Assumption, NEW c, IsDay(c), NEW b \in Int
    PROVE  /\ List!Whole(c.work - c.free) \in Int
           /\ List!Limit(b, c) = (IF b >= -c.adjustable THEN b ELSE -c.adjustable)
                                 + List!Whole(c.work - c.free)
           /\ List!Limit(b, c) \in Int
<1>1. List!Whole(c.work - c.free) \in Int
    BY WholeIs DEF IsDay
<1>2. -c.adjustable \in Int
    BY DEF IsDay
<1>3. List!Max({b, -c.adjustable}) = IF b >= -c.adjustable THEN b ELSE -c.adjustable
    BY <1>2, MaxOfTwo, ListCounts
<1> QED BY <1>1, <1>2, <1>3 DEF List!Limit

\* The leeway of a day is what it is below its goal.
LEMMA LeewayOfDay ==
    ASSUME List!Assumption, NEW c, IsDay(c)
    PROVE  /\ List!OverGoal(c) \in Int
           /\ List!Leeway(c) = IF List!OverGoal(c) <= 0 THEN -List!OverGoal(c) ELSE 0
           /\ List!Leeway(c) \in Nat
<1>1. List!OverGoal(c) \in Int
    BY DEF List!OverGoal, IsDay
<1>2. List!Max({0, -List!OverGoal(c)}) = IF 0 >= -List!OverGoal(c) THEN 0 ELSE -List!OverGoal(c)
    BY <1>1, MaxOfTwo, ListCounts
<1> QED BY <1>1, <1>2 DEF List!Leeway

\* A day is below its goal only where it is below its limit.
LEMMA GoalIs ==
    ASSUME List!Assumption, NEW c, IsDay(c), NEW b \in Int, NEW l \in Int
    PROVE  List!Goal(b, l, c) \in Int /\ (List!Goal(b, l, c) < 0 => l < 0)
<1>1. /\ List!Whole(l) \in Int /\ (l >= 0 => List!Whole(l) >= 0)
    BY WholeIs
<1>2. List!Whole(List!Leeway(c) \div 10) \in Int
    <2>1. List!Leeway(c) \div 10 \in Int
        BY LeewayOfDay
    <2> QED BY <2>1, WholeIs
<1>3. c.free - c.routine \in Int
    BY DEF IsDay
<1> QED BY <1>1, <1>2, <1>3 DEF List!Goal

\* Days, each with what comes of the one before it.
LimitsOf(f, sums, n) == f[0] = 0 /\ \A k \in 1..n : f[k] \in Int /\ f[k] = List!Limit(f[k - 1], sums[k])
GoalsOf(f, limit, sums, n) ==
    f[0] = 0 /\ \A k \in 1..n : f[k] \in Int /\ f[k] = List!Goal(f[k - 1], limit[k], sums[k])

(* What goes from step to step stays where the steps lead.                 *)
LEMMA StepsStay ==
    ASSUME NEW n \in Nat, NEW V, NEW f, f[0] \in V, \A k \in 1..n : f[k - 1] \in V => f[k] \in V
    PROVE  \A k \in 0..n : f[k] \in V
<1> DEFINE Good == {m \in Nat : m <= n => f[m] \in V}
<1>1. 0 \in Good
    OBVIOUS
<1>2. ASSUME NEW m \in Good PROVE m + 1 \in Good
    <2> SUFFICES ASSUME m + 1 <= n PROVE f[m + 1] \in V
        OBVIOUS
    <2>1. m + 1 \in 1..n /\ (m + 1) - 1 = m /\ f[m] \in V
        OBVIOUS
    <2> QED BY <2>1
<1>3. Good = Nat
    <2>1. Good \in SUBSET Nat
        OBVIOUS
    <2> HIDE DEF Good
    <2> QED BY <1>1, <1>2, <2>1, NaturalsByStep
<1> QED BY <1>3

\* The limits of the days are the recurrence the loop computes.
LEMMA LimitsAre ==
    ASSUME List!Assumption, NEW n \in Nat, NEW sums, Len(sums) = n, \A k \in 1..n : IsDay(sums[k])
    PROVE  LimitsOf(List!Limits(sums), sums, n)
<1> DEFINE Value(g, k) == IF k = 0 THEN 0 ELSE List!Limit(g[k - 1], sums[k])
           IsIt(g) == g = [k \in 0..n |-> Value(g, k)]
           step == [a \in (1..n) \X Int |-> List!Limit(a[2], sums[a[1]])]
           f == List!Limits(sums)
<1>1. \A k \in 1..n, b \in Int : List!Limit(b, sums[k]) \in Int
    BY LimitIs
<1>2. step \in [(1..n) \X Int -> Int]
    BY <1>1
<1>3. \E g : IsIt(g)
    <2>1. PICK h : Steps(h, Int, 0, n, step)
        <3> HIDE DEF step
        <3>1. 0 \in Int
            OBVIOUS
        <3> QED BY <1>2, <3>1, StepsExist
    <2>2. h \in [0..n -> Int] /\ h[0] = 0 /\ \A k \in 1..n : h[k] = step[<<k, h[k - 1]>>]
        BY <2>1 DEF Steps
    <2>3. \A k \in 0..n : h[k] = Value(h, k)
        <3> TAKE k \in 0..n
        <3>1. CASE k = 0
            BY <2>2, <3>1
        <3>2. CASE k # 0
            <4>1. k \in 1..n /\ k - 1 \in 0..n
                BY <3>2
            <4>2. h[k - 1] \in Int
                BY <2>2, <4>1
            <4>3. <<k, h[k - 1]>> \in (1..n) \X Int
                BY <4>1, <4>2
            <4>4. h[k] = step[<<k, h[k - 1]>>]
                BY <2>2, <4>1
            <4> QED BY <3>2, <4>3, <4>4
        <3> QED BY <3>1, <3>2
    <2>4. h = [k \in 0..n |-> h[k]]
        BY <2>2
    <2> HIDE DEF Value
    <2> QED BY <2>3, <2>4
<1>4. f = CHOOSE g : IsIt(g)
    BY DEF List!Limits
<1>5. IsIt(f)
    <2> HIDE DEF IsIt, f
    <2> QED BY <1>3, <1>4
<1> HIDE DEF f
<1>6. f[0] = 0 /\ \A k \in 1..n : f[k] = List!Limit(f[k - 1], sums[k])
    <2>1. \A k \in 0..n : f[k] = Value(f, k)
        <3> HIDE DEF Value
        <3> QED BY <1>5
    <2>2. \A k \in 1..n : k \in 0..n /\ k # 0
        OBVIOUS
    <2>3. 0 \in 0..n
        OBVIOUS
    <2> QED BY <2>1, <2>2, <2>3
<1>7. \A k \in 1..n : f[k - 1] \in Int => f[k] \in Int
    BY <1>1, <1>6
<1>8. \A k \in 0..n : f[k] \in Int
    <2>1. f[0] \in Int
        BY <1>6
    <2> QED BY <1>7, <2>1, StepsStay
<1> QED BY <1>6, <1>8 DEF LimitsOf, f

\* And so are their goals.
LEMMA GoalsAre ==
    ASSUME List!Assumption, NEW n \in Nat, NEW sums, Len(sums) = n, \A k \in 1..n : IsDay(sums[k]),
           NEW limit, \A k \in 1..n : limit[k] \in Int
    PROVE  GoalsOf(List!Goals(sums, limit), limit, sums, n)
<1> DEFINE Value(g, k) == IF k = 0 THEN 0 ELSE List!Goal(g[k - 1], limit[k], sums[k])
           IsIt(g) == g = [k \in 0..n |-> Value(g, k)]
           step == [a \in (1..n) \X Int |-> List!Goal(a[2], limit[a[1]], sums[a[1]])]
           f == List!Goals(sums, limit)
<1>1. \A k \in 1..n, b \in Int : List!Goal(b, limit[k], sums[k]) \in Int
    BY GoalIs
<1>2. step \in [(1..n) \X Int -> Int]
    BY <1>1
<1>3. \E g : IsIt(g)
    <2>1. PICK h : Steps(h, Int, 0, n, step)
        <3> HIDE DEF step
        <3>1. 0 \in Int
            OBVIOUS
        <3> QED BY <1>2, <3>1, StepsExist
    <2>2. h \in [0..n -> Int] /\ h[0] = 0 /\ \A k \in 1..n : h[k] = step[<<k, h[k - 1]>>]
        BY <2>1 DEF Steps
    <2>3. \A k \in 0..n : h[k] = Value(h, k)
        <3> TAKE k \in 0..n
        <3>1. CASE k = 0
            BY <2>2, <3>1
        <3>2. CASE k # 0
            <4>1. k \in 1..n /\ k - 1 \in 0..n
                BY <3>2
            <4>2. h[k - 1] \in Int
                BY <2>2, <4>1
            <4>3. <<k, h[k - 1]>> \in (1..n) \X Int
                BY <4>1, <4>2
            <4>4. h[k] = step[<<k, h[k - 1]>>]
                BY <2>2, <4>1
            <4> QED BY <3>2, <4>3, <4>4
        <3> QED BY <3>1, <3>2
    <2>4. h = [k \in 0..n |-> h[k]]
        BY <2>2
    <2> HIDE DEF Value
    <2> QED BY <2>3, <2>4
<1>4. f = CHOOSE g : IsIt(g)
    BY DEF List!Goals
<1>5. IsIt(f)
    <2> HIDE DEF IsIt, f
    <2> QED BY <1>3, <1>4
<1> HIDE DEF f
<1>6. f[0] = 0 /\ \A k \in 1..n : f[k] = List!Goal(f[k - 1], limit[k], sums[k])
    <2>1. \A k \in 0..n : f[k] = Value(f, k)
        <3> HIDE DEF Value
        <3> QED BY <1>5
    <2>2. \A k \in 1..n : k \in 0..n /\ k # 0
        OBVIOUS
    <2>3. 0 \in 0..n
        OBVIOUS
    <2> QED BY <2>1, <2>2, <2>3
<1>7. \A k \in 1..n : f[k - 1] \in Int => f[k] \in Int
    BY <1>1, <1>6
<1>8. \A k \in 0..n : f[k] \in Int
    <2>1. f[0] \in Int
        BY <1>6
    <2> QED BY <1>7, <2>1, StepsStay
<1> QED BY <1>6, <1>8 DEF GoalsOf, f

\* The dates of some pieces, and the pieces of a date.
DatesOf(S) == {List!DateOf(e.from) : e \in S}
OnDate(S, t) == {e \in S : List!DateOf(e.from) = t}

\* Numbers as they come.
Ascending(D) == [i \in 1..Cardinality(D) |-> CHOOSE t \in D : Cardinality({u \in D : u < t}) = i - 1]

IsAscending(s, D, n) ==
    /\ n \in Nat /\ DOMAIN s = 1..n /\ Len(s) = n
    /\ \A i \in 1..n : s[i] \in D
    /\ \A t \in D : \E i \in 1..n : s[i] = t
    /\ \A i, j \in 1..n : i < j <=> s[i] < s[j]

(* Dates in order.                                                         *)
LEMMA DatesInOrder ==
    ASSUME NEW D, IsFiniteSet(D), D \subseteq Int, NEW s, s = Ascending(D)
    PROVE  IsAscending(s, D, Cardinality(D))
<1> DEFINE B == [t \in D |-> {u \in D : u < t}]
           n == Cardinality(D)
<1>1. \A t, u \in D : t \in Int /\ u \in Int /\ (u \in B[t] <=> u < t)
    OBVIOUS
<1>2. \A t \in D : B[t] \subseteq D
    OBVIOUS
<1>3. \A t \in D : Cardinality({u \in D : u < t}) = Cardinality(B[t])
    OBVIOUS
<1>4. s = [i \in 1..n |-> CHOOSE t \in D : Cardinality({u \in D : u < t}) = i - 1]
    BY DEF Ascending
<1> HIDE DEF B
<1>5. IsOrder(D, B)
    <2>1. ASSUME NEW e \in D PROVE B[e] \subseteq D /\ e \notin B[e]
        <3>1. e \in Int /\ ~(e < e)
            OBVIOUS
        <3> QED BY <1>1, <1>2, <3>1
    <2>2. ASSUME NEW e \in D, NEW f \in D, e # f PROVE e \in B[f] \/ f \in B[e]
        <3>1. e \in Int /\ f \in Int
            OBVIOUS
        <3>2. e < f \/ f < e
            BY <2>2, <3>1
        <3> QED BY <1>1, <3>2
    <2>3. ASSUME NEW e \in D, NEW f \in D, e \in B[f], NEW g \in B[e] PROVE g \in B[f]
        <3>1. g \in D /\ g < e /\ e < f
            BY <1>1, <1>2, <2>3
        <3>2. g < f
            BY <1>1, <3>1
        <3> QED BY <1>1, <3>1, <3>2
    <2> QED BY <2>1, <2>2, <2>3 DEF IsOrder
<1>6. n \in Nat /\ \A i \in 1..n : \E e \in D : Cardinality(B[e]) = i - 1
    BY <1>5, PlacesAreTaken
<1>7. ASSUME NEW i \in 1..n PROVE s[i] \in D /\ Cardinality(B[s[i]]) = i - 1
    <2> DEFINE P(t) == Cardinality({u \in D : u < t}) = i - 1
    <2>1. s[i] = CHOOSE t \in D : P(t)
        BY <1>4
    <2>2. \E t \in D : P(t)
        BY <1>3, <1>6
    <2>3. s[i] \in D /\ P(s[i])
        <3> HIDE DEF P
        <3> QED BY <2>1, <2>2
    <2> QED BY <1>3, <2>3
<1>8. DOMAIN s = 1..n /\ s = [i \in 1..n |-> s[i]]
    BY <1>4
<1>9. InOrderOf(s, D, B)
    BY <1>7, <1>8 DEF InOrderOf
<1>10. /\ \A e \in D : \E i \in DOMAIN s : s[i] = e
       /\ \A i, j \in DOMAIN s : i < j <=> s[i] \in B[s[j]]
    <2> HIDE DEF n
    <2> QED BY <1>5, <1>9, OrderedIsInOrder
<1>11. s \in Seq(D) /\ Len(s) = n
    <2> HIDE DEF n
    <2>1. s \in [1..n -> D]
        BY <1>7, <1>8
    <2> QED BY <1>6, <2>1
<1> QED BY <1>1, <1>6, <1>7, <1>8, <1>10, <1>11 DEF IsAscending

(* What a day sums up.                                                     *)
LEMMA SumsAre ==
    ASSUME List!Assumption, ListedWorld, NEW S, S \subseteq List!Pieces, NEW t \in DatesOf(S),
           NEW c, c = List!Sums(t, S)
    PROVE  /\ IsDay(c) /\ t \in Int /\ c.date = t /\ c.count \in Nat /\ c.count > 0
           /\ c.work = List!WorkOf(OnDate(S, t)) /\ c.free = world.free[t] * Minute
           /\ c.free <= DayTicks
<1> DEFINE here == OnDate(S, t)
           movable == {p \in here : List!Adjustable(p)}
           est == [e \in movable |-> List!Task(e).est]
<1>1. /\ c.date = t /\ c.count = List!Cardinality(here) /\ c.work = List!WorkOf(here)
      /\ c.routine = List!WorkOf({e \in here : List!Task(e).repeats})
      /\ c.adjustable = List!SumFunction(est) /\ c.free = world.free[t] * Minute
    BY DEF List!Sums, OnDate
<1>2. /\ IsFiniteSet(S) /\ \A e \in S : IsPiece(e)
    BY PiecesAreOfPlan, FS_Subset
<1>3. PICK e \in S : t = List!DateOf(e.from)
    BY DEF DatesOf
<1>4. here \subseteq S /\ e \in here /\ IsFiniteSet(here)
    <2>1. here \subseteq S /\ e \in here
        BY <1>3 DEF OnDate
    <2> QED BY <1>2, <2>1, FS_Subset
<1>5. TakeTime(here)
    BY <1>2, <1>4 DEF IsPiece, TakeTime
<1> HIDE DEF here
<1>6. c.work \in Nat /\ c.routine \in Nat /\ c.routine <= c.work
    <2> DEFINE R == {x \in here : List!Task(x).repeats}
    <2>1. R \subseteq here
        OBVIOUS
    <2> HIDE DEF R
    <2>2. List!WorkOf(R) \in Nat /\ List!WorkOf(here) \in Nat /\ List!WorkOf(R) <= List!WorkOf(here)
        BY <1>5, <2>1, WorkOfPart
    <2> QED BY <1>1, <2>2 DEF R
<1>7. c.count \in Nat /\ c.count > 0
    <2>1. Cardinality(here) \in Nat /\ Cardinality(here) # 0
        BY <1>4, FS_CardinalityType, FS_EmptySet
    <2> QED BY <1>1, <2>1, ListCounts
<1>8. c.adjustable \in Nat
    <2>1. IsFiniteSet(movable) /\ movable \subseteq here
        BY <1>4, FS_Subset
    <2>2. \A x \in movable : est[x] \in Nat
        BY <1>2, <1>4, <2>1 DEF IsPiece
    <2>3. DOMAIN est = movable
        OBVIOUS
    <2> HIDE DEF est, movable
    <2>4. SumOver(est, movable) \in Nat
        BY <2>1, <2>2, SumOfMore
    <2>5. List!SumFunction(est) = SumOver(est, movable)
        BY <2>3, ListSums
    <2> QED BY <1>1, <2>4, <2>5
<1>9. t \in Int /\ t \in DOMAIN world.free
    BY <1>2, <1>3 DEF IsPiece
<1>10. c.free \in Nat /\ c.free <= DayTicks
    <2>1. world.free[t] \in Nat /\ world.whole[t] \in Nat /\ world.free[t] <= world.whole[t]
          /\ world.whole[t] * Minute <= DayTicks
        BY <1>9 DEF ListedWorld
    <2>2. Minute \in Nat \ {0} /\ DayTicks \in Nat
        BY ListNumbers
    <2> DEFINE f == world.free[t]
               w == world.whole[t]
    <2> HIDE DEF f, w
    <2>3. f * Minute \in Nat /\ f * Minute <= w * Minute
        <3>1. w - f \in Nat /\ (w - f) * Minute \in Nat
            BY <2>1, <2>2 DEF f, w
        <3>2. w * Minute = f * Minute + (w - f) * Minute /\ f * Minute \in Nat
            BY <2>1, <2>2 DEF f, w
        <3> QED BY <3>1, <3>2
    <2>4. w * Minute <= DayTicks /\ w * Minute \in Int
        BY <2>1, <2>2 DEF w
    <2>5. c.free = f * Minute
        BY <1>1 DEF f
    <2> QED BY <2>2, <2>3, <2>4, <2>5
<1> QED BY <1>1, <1>6, <1>7, <1>8, <1>9, <1>10 DEF IsDay, here

\* The lesser of two numbers.
LEMMA MinOfTwo ==
    ASSUME NEW a \in Int, NEW b \in Int
    PROVE  Min({a, b}) = IF a <= b THEN a ELSE b
<1>1. CASE a <= b
    <2>1. \A y \in {a, b} : a <= y
        BY <1>1
    <2> QED BY <1>1, <2>1, MinIs
<1>2. CASE ~(a <= b)
    <2>1. \A y \in {a, b} : b <= y
        BY <1>2
    <2> QED BY <1>2, <2>1, MinIs
<1> QED BY <1>1, <1>2

\* The calendar of some pieces.
IsCalendar(d, S) ==
    LET n == Len(d)
    IN  /\ n \in Nat /\ DOMAIN d = 1..n /\ n <= SummaryDays
        /\ \A k \in 1..n :
              /\ IsDay(d[k]) /\ d[k].date \in Int /\ d[k].date \in DatesOf(S) /\ d[k].count > 0
              /\ d[k].work = List!WorkOf(OnDate(S, d[k].date))
              /\ d[k].free = world.free[d[k].date] * Minute /\ d[k].free <= DayTicks
              /\ d[k].limit \in Int
              /\ d[k].limit = List!Limit(IF k = 1 THEN 0 ELSE d[k - 1].limit, d[k])
              /\ d[k].goal < 0 => d[k].limit < 0
        /\ \A j, k \in 1..n : j < k => d[j].date < d[k].date
        /\ \A t \in DatesOf(S) : \/ \E k \in 1..n : d[k].date = t
                                 \/ n = SummaryDays /\ \A k \in 1..n : d[k].date < t

\* The days of the calendar are those of the pieces, in order, each with the
\* work, the adjustable work and the free time of its date.
LEMMA DaysAreCalendar ==
    ASSUME List!Assumption, ListedWorld, NEW S, S \subseteq List!Pieces, NEW s, Has(s) = S
    PROVE  IsCalendar(List!Days(s), S)
<1> DEFINE D == DatesOf(S)
           N == Cardinality(D)
           dates == List!InOrder(D, <)
           n == IF N <= SummaryDays THEN N ELSE SummaryDays
           sums == [k \in 1..n |-> List!Sums(dates[k], S)]
           limit == List!Limits(sums)
           goal == List!Goals(sums, limit)
           d == List!Days(s)
<1>1. IsFiniteSet(S) /\ \A e \in S : IsPiece(e)
    BY PiecesAreOfPlan, FS_Subset
<1>2. IsFiniteSet(D) /\ D \subseteq Int
    <2> DEFINE f == [e \in S |-> List!DateOf(e.from)]
    <2>1. D = {f[e] : e \in S}
        BY DEF DatesOf
    <2>2. IsFiniteSet({f[e] : e \in S})
        <3> HIDE DEF f
        <3> QED BY <1>1, ImageOfFinite
    <2>3. D \subseteq Int
        BY <1>1 DEF DatesOf, IsPiece
    <2> HIDE DEF D, f
    <2> QED BY <2>1, <2>2, <2>3
<1> HIDE DEF D
<1>3. /\ N \in Nat /\ DOMAIN dates = 1..N /\ Len(dates) = N
      /\ \A i \in 1..N : dates[i] \in D
      /\ \A t \in D : \E i \in 1..N : dates[i] = t
      /\ \A i, j \in 1..N : i < j <=> dates[i] < dates[j]
    <2>1. dates = Ascending(D)
        BY ListCounts DEF List!InOrder, Ascending
    <2> HIDE DEF dates
    <2>2. IsAscending(dates, D, N)
        BY <1>2, <2>1, DatesInOrder
    <2> QED BY <2>2 DEF IsAscending
<1>4. SummaryDays \in Nat /\ SummaryDays # 0
    BY ListNumbers
<1>5. List!Min({Len(dates), SummaryDays}) = n
    <2>1. Min({N, SummaryDays}) = n
        <3> HIDE DEF N, dates
        <3> QED BY <1>3, <1>4, MinOfTwo
    <2> HIDE DEF dates, N, n
    <2> QED BY <1>3, <2>1, ListCounts
<1>6. d = [k \in DOMAIN sums |-> [sums[k] EXCEPT !.limit = limit[k], !.goal = goal[k]]]
    <2>1. List!ToSet(s) = S
        BY ListCounts
    <2> QED BY <1>5, <2>1 DEF List!Days, D, DatesOf
<1> HIDE DEF N, dates, d
<1>7. n \in Nat /\ n <= SummaryDays /\ n <= N /\ \A k \in 1..n : k \in 1..N
    BY <1>3, <1>4
<1> HIDE DEF n
<1>8. DOMAIN sums = 1..n /\ Len(sums) = n
    BY <1>7
<1>9. \A k \in 1..n : dates[k] \in D /\ sums[k] = List!Sums(dates[k], S)
    BY <1>3, <1>7
<1> HIDE DEF sums
<1>10. \A k \in 1..n :
          /\ IsDay(sums[k]) /\ sums[k].date \in Int /\ sums[k].date = dates[k] /\ sums[k].count > 0
          /\ sums[k].work = List!WorkOf(OnDate(S, sums[k].date))
          /\ sums[k].free = world.free[sums[k].date] * Minute /\ sums[k].free <= DayTicks
    <2> TAKE k \in 1..n
    <2>1. dates[k] \in DatesOf(S) /\ sums[k] = List!Sums(dates[k], S)
        BY <1>9 DEF D
    <2>2. /\ IsDay(sums[k]) /\ dates[k] \in Int /\ sums[k].date = dates[k] /\ sums[k].count > 0
          /\ sums[k].work = List!WorkOf(OnDate(S, dates[k]))
          /\ sums[k].free = world.free[dates[k]] * Minute /\ sums[k].free <= DayTicks
        BY <2>1, SumsAre
    <2> QED BY <2>2
<1>11. LimitsOf(limit, sums, n)
    BY <1>7, <1>8, <1>10, LimitsAre
<1> HIDE DEF limit
<1>12. GoalsOf(goal, limit, sums, n)
    BY <1>7, <1>8, <1>10, <1>11, GoalsAre DEF LimitsOf
<1> HIDE DEF goal
<1>13. DOMAIN d = 1..n /\ Len(d) = n
    <2>1. DOMAIN d = 1..n
        BY <1>6, <1>8
    <2>2. d = [k \in 1..n |-> d[k]]
        BY <1>6, <1>8
    <2> QED BY <1>7, <2>1, <2>2
<1>14. ASSUME NEW k \in 1..n
       PROVE  /\ d[k].date = sums[k].date /\ d[k].count = sums[k].count /\ d[k].work = sums[k].work
              /\ d[k].routine = sums[k].routine /\ d[k].adjustable = sums[k].adjustable
              /\ d[k].free = sums[k].free /\ d[k].limit = limit[k] /\ d[k].goal = goal[k]
    <2>1. d[k] = [sums[k] EXCEPT !.limit = limit[k], !.goal = goal[k]]
        BY <1>6, <1>8
    <2>2. sums[k] = List!Sums(dates[k], S)
        BY <1>9
    <2> QED BY <2>1, <2>2 DEF List!Sums
<1>15. ASSUME NEW k \in 1..n, NEW b
       PROVE  List!Limit(b, d[k]) = List!Limit(b, sums[k])
    BY <1>14 DEF List!Limit
<1>16. ASSUME NEW k \in 1..n
       PROVE  /\ d[k].limit \in Int
              /\ d[k].limit = List!Limit(IF k = 1 THEN 0 ELSE d[k - 1].limit, d[k])
              /\ d[k].goal < 0 => d[k].limit < 0
    <2>1. limit[k] \in Int /\ limit[0] = 0 /\ limit[k] = List!Limit(limit[k - 1], sums[k])
        BY <1>11 DEF LimitsOf
    <2>2. goal[k] \in Int /\ goal[k] = List!Goal(goal[k - 1], limit[k], sums[k])
        BY <1>12 DEF GoalsOf
    <2>3. limit[k - 1] = IF k = 1 THEN 0 ELSE d[k - 1].limit
        <3>1. CASE k = 1
            BY <2>1, <3>1
        <3>2. CASE k # 1
            <4>1. k - 1 \in 1..n
                BY <1>7, <3>2
            <4> QED BY <1>14, <3>2, <4>1
        <3> QED BY <3>1, <3>2
    <2>4. goal[k - 1] \in Int
        <3>1. CASE k = 1
            BY <1>12, <3>1 DEF GoalsOf
        <3>2. CASE k # 1
            <4>1. k - 1 \in 1..n
                BY <1>7, <3>2
            <4> QED BY <1>12, <4>1 DEF GoalsOf
        <3> QED BY <3>1, <3>2
    <2>5. goal[k] < 0 => limit[k] < 0
        BY <1>10, <2>1, <2>2, <2>4, GoalIs
    <2>6. List!Limit(limit[k - 1], d[k]) = limit[k]
        BY <1>15, <2>1
    <2> QED BY <1>14, <2>1, <2>3, <2>5, <2>6
<1>17. ASSUME NEW k \in 1..n
       PROVE  /\ IsDay(d[k]) /\ d[k].date \in Int /\ d[k].date \in DatesOf(S) /\ d[k].count > 0
              /\ d[k].work = List!WorkOf(OnDate(S, d[k].date))
              /\ d[k].free = world.free[d[k].date] * Minute /\ d[k].free <= DayTicks
    BY <1>9, <1>10, <1>14 DEF IsDay, D
<1>18. \A k \in 1..n : d[k].date = dates[k]
    BY <1>10, <1>14
<1>19. ASSUME NEW j \in 1..n, NEW k \in 1..n, j < k PROVE d[j].date < d[k].date
    BY <1>3, <1>7, <1>18, <1>19
<1>20. ASSUME NEW t \in DatesOf(S)
       PROVE  \/ \E k \in 1..n : d[k].date = t
              \/ n = SummaryDays /\ \A k \in 1..n : d[k].date < t
    <2>1. PICK i \in 1..N : dates[i] = t
        BY <1>3 DEF D
    <2>2. CASE i <= n
        <3>1. i \in 1..n
            BY <1>7, <2>2
        <3> QED BY <1>18, <2>1, <3>1
    <2>3. CASE ~(i <= n)
        <3>1. n = SummaryDays
            BY <1>3, <1>4, <1>7, <2>3 DEF n
        <3>2. ASSUME NEW k \in 1..n PROVE d[k].date < t
            <4>1. k \in 1..N /\ k < i
                BY <1>3, <1>7, <2>3
            <4> QED BY <1>3, <1>18, <2>1, <4>1
        <3> QED BY <3>1, <3>2
    <2> QED BY <2>2, <2>3
<1> QED BY <1>7, <1>13, <1>16, <1>17, <1>19, <1>20 DEF IsCalendar, d

-----------------------------------------------------------------------------
(***************************************************************************)
(* What the calendar says                                                  *)
(***************************************************************************)
(* What is carried is the most by which any run of days up to there has    *)
(* more work than time.                                                    *)
LEMMA BacklogIsCarried ==
    ASSUME List!Assumption, NEW S, IsCalendar(days, S)
    PROVE  List!ShortageIsBacklog
<1> DEFINE n == Len(days)
           W == [j \in 1..n |-> List!Whole(days[j].work - days[j].free)]
           adj == [j \in 1..n |-> days[j].adjustable]
           lim == [j \in 1..n |-> days[j].limit]
           O(i, k) == SumOver(W, i..k)
           Most(k) == /\ lim[k] >= O(1, k) /\ \A i \in 2..k : lim[k] >= O(i, k) - adj[i]
                      /\ lim[k] = O(1, k) \/ \E i \in 2..k : lim[k] = O(i, k) - adj[i]
           Good == {m \in Nat : m + 1 <= n => Most(m + 1)}
<1>1. /\ n \in Nat /\ DOMAIN days = 1..n
      /\ \A k \in 1..n : IsDay(days[k]) /\ days[k].limit \in Int
                         /\ days[k].limit = List!Limit(IF k = 1 THEN 0 ELSE days[k - 1].limit, days[k])
    BY DEF IsCalendar
<1> HIDE DEF n
<1>2. \A k \in 1..n : W[k] \in Int /\ adj[k] \in Nat /\ lim[k] \in Int /\ lim[k] = days[k].limit
    <2> TAKE k \in 1..n
    <2>1. List!Whole(days[k].work - days[k].free) \in Int
        BY <1>1, LimitIs
    <2> QED BY <1>1, <2>1 DEF IsDay
<1>3. ASSUME NEW k \in 1..n, NEW b \in Int, b = IF k = 1 THEN 0 ELSE lim[k - 1]
      PROVE  lim[k] = (IF b >= -adj[k] THEN b ELSE -adj[k]) + W[k]
    <2>1. lim[k] = List!Limit(b, days[k])
        <3>1. CASE k = 1
            BY <1>1, <1>3, <3>1
        <3>2. CASE k # 1
            <4>1. k - 1 \in 1..n
                BY <1>1, <3>2
            <4> QED BY <1>1, <1>3, <3>2, <4>1
        <3> QED BY <3>1, <3>2
    <2>2. List!Limit(b, days[k]) = (IF b >= -days[k].adjustable THEN b ELSE -days[k].adjustable)
                                   + List!Whole(days[k].work - days[k].free)
        BY <1>1, LimitIs
    <2> QED BY <2>1, <2>2
<1> HIDE DEF W, adj, lim
<1>4. ASSUME NEW k \in 0..(n - 1), NEW i \in 1..(k + 1)
      PROVE  O(i, k) \in Int /\ O(i, k + 1) \in Int /\ O(i, k + 1) = O(i, k) + W[k + 1]
    <2>1. i \in Int /\ k \in Int /\ i <= k + 1
        BY <1>1
    <2>2. \A j \in i..(k + 1) : W[j] \in Int
        BY <1>1, <1>2
    <2> QED BY <2>1, <2>2, SumGoesOn
<1>5. ASSUME NEW i \in Int, NEW k \in Int, i > k PROVE O(i, k) = 0
    <2>1. i..k = {}
        BY <1>5
    <2> QED BY <2>1, SumOfNothing
<1> HIDE DEF O
<1>6. 0 \in Good
    <2> SUFFICES ASSUME 1 <= n PROVE Most(1)
        OBVIOUS
    <2>1. 1 \in 1..n /\ 0 \in 0..(n - 1) /\ 1 \in 1..(0 + 1)
        BY <1>1
    <2>2. lim[1] = W[1]
        <3>1. lim[1] = (IF 0 >= -adj[1] THEN 0 ELSE -adj[1]) + W[1]
            BY <1>3, <2>1
        <3> QED BY <1>2, <2>1, <3>1
    <2>3. O(1, 0 + 1) = O(1, 0) + W[0 + 1] /\ O(1, 0) = 0
        BY <1>4, <1>5, <2>1
    <2>4. O(1, 1) = W[1]
        BY <1>2, <2>1, <2>3
    <2> QED BY <1>2, <2>1, <2>2, <2>4
<1>7. ASSUME NEW m \in Good PROVE m + 1 \in Good
    <2> SUFFICES ASSUME (m + 1) + 1 <= n PROVE Most((m + 1) + 1)
        <3> HIDE DEF Most
        <3> QED OBVIOUS
    <2> DEFINE k == m + 1
    <2>1. k \in 1..n /\ k + 1 \in 1..n /\ k \in 0..(n - 1) /\ k + 1 # 1 /\ (k + 1) - 1 = k /\ k \in Nat
        BY <1>1
    <2>2. Most(k)
        <3> HIDE DEF Most
        <3> QED BY <2>1
    <2> HIDE DEF k
    <2>3. lim[k + 1] = (IF lim[k] >= -adj[k + 1] THEN lim[k] ELSE -adj[k + 1]) + W[k + 1]
        BY <1>2, <1>3, <2>1
    <2>4. /\ lim[k] \in Int /\ adj[k + 1] \in Nat /\ W[k + 1] \in Int /\ lim[k + 1] \in Int
        BY <1>2, <2>1
    <2>5. \A i \in 1..(k + 1) : O(i, k) \in Int /\ O(i, k + 1) = O(i, k) + W[k + 1]
        BY <1>4, <2>1
    <2>6. O(k + 1, k) = 0
        BY <1>5, <2>1
    <2>7. \A i \in 2..k : i \in 1..n /\ i \in 1..(k + 1) /\ adj[i] \in Nat
        <3>1. \A i \in 2..k : i \in 1..n /\ i \in 1..(k + 1)
            BY <1>1, <2>1
        <3> QED BY <1>2, <3>1
    <2>8. 1 \in 1..(k + 1) /\ k + 1 \in 1..(k + 1) /\ k + 1 \in 2..(k + 1)
        BY <2>1
    <2>9. lim[k + 1] >= O(1, k + 1)
        BY <2>2, <2>3, <2>4, <2>5, <2>8
    <2>10. ASSUME NEW i \in 2..(k + 1) PROVE lim[k + 1] >= O(i, k + 1) - adj[i]
        <3>1. CASE i = k + 1
            BY <2>3, <2>4, <2>5, <2>6, <2>8, <3>1
        <3>2. CASE i # k + 1
            <4>1. i \in 2..k
                BY <2>1, <3>2
            <4>2. lim[k] >= O(i, k) - adj[i]
                BY <2>2, <4>1
            <4> QED BY <2>3, <2>4, <2>5, <2>7, <4>1, <4>2
        <3> QED BY <3>1, <3>2
    <2>11. lim[k + 1] = O(1, k + 1) \/ \E i \in 2..(k + 1) : lim[k + 1] = O(i, k + 1) - adj[i]
        <3>1. CASE lim[k] >= -adj[k + 1]
            <4>1. lim[k + 1] = lim[k] + W[k + 1]
                BY <2>3, <3>1
            <4>2. CASE lim[k] = O(1, k)
                BY <2>5, <2>8, <4>1, <4>2
            <4>3. ASSUME NEW i \in 2..k, lim[k] = O(i, k) - adj[i]
                  PROVE  \E j \in 2..(k + 1) : lim[k + 1] = O(j, k + 1) - adj[j]
                <5>1. i \in 2..(k + 1)
                    BY <2>1
                <5>2. O(i, k) \in Int /\ O(i, k + 1) = O(i, k) + W[k + 1] /\ adj[i] \in Int
                    BY <2>5, <2>7
                <5>3. lim[k + 1] = O(i, k + 1) - adj[i]
                    BY <2>4, <4>1, <4>3, <5>2
                <5> QED BY <5>1, <5>3
            <4> QED BY <2>2, <4>2, <4>3
        <3>2. CASE ~(lim[k] >= -adj[k + 1])
            <4>1. lim[k + 1] = O(k + 1, k + 1) - adj[k + 1]
                BY <2>3, <2>4, <2>5, <2>6, <2>8, <3>2
            <4> QED BY <2>8, <4>1
        <3> QED BY <3>1, <3>2
    <2>12. Most(k + 1)
        BY <2>9, <2>10, <2>11
    <2> HIDE DEF Most
    <2> QED BY <2>12 DEF k
<1>8. Good = Nat
    <2>1. Good \in SUBSET Nat
        OBVIOUS
    <2> HIDE DEF Good
    <2> QED BY <1>6, <1>7, <2>1, NaturalsByStep
<1>9. ASSUME NEW k \in 1..n PROVE Most(k)
    <2> HIDE DEF Most
    <2>1. k - 1 \in Nat /\ (k - 1) + 1 = k /\ k <= n
        BY <1>1
    <2>2. k - 1 \in Good
        <3> HIDE DEF Good
        <3> QED BY <1>8, <2>1
    <2> QED BY <2>1, <2>2
<1>10. ASSUME NEW k \in 1..n, NEW i \in 1..k
       PROVE  List!SumFunction([j \in i..k |-> List!Whole(days[j].work - days[j].free)]) = O(i, k)
    <2> DEFINE f == [j \in i..k |-> List!Whole(days[j].work - days[j].free)]
               T == i..k
    <2>0. k \in Int /\ i \in Int /\ k <= n /\ 1 <= i
        BY <1>1
    <2>1. IsFiniteSet(T) /\ \A j \in T : j \in 1..n
        <3>1. \A j \in T : j \in 1..n
            BY <1>1, <2>0
        <3>2. IsFiniteSet(T)
            BY <2>0, FS_Interval
        <3> QED BY <3>1, <3>2
    <2>2. \A j \in T : W[j] \in Int /\ W[j] = f[j]
        BY <1>2, <2>1 DEF W
    <2>3. DOMAIN f = T
        OBVIOUS
    <2> HIDE DEF f, T
    <2>4. SumOver(W, T) = SumOver(f, T)
        BY <2>1, <2>2, SumOfTheSame
    <2>5. List!SumFunction(f) = SumOver(f, T)
        BY <2>3, ListSums
    <2> QED BY <2>4, <2>5 DEF f, T, O
<1>11. ASSUME NEW k \in 1..n
       PROVE  days[k].limit = List!Max({O(1, k)} \cup {O(i, k) - days[i].adjustable : i \in 2..k})
    <2> DEFINE X == {O(1, k)} \cup {O(i, k) - days[i].adjustable : i \in 2..k}
    <2>1. \A i \in 1..k : O(i, k) \in Int
        <3> TAKE i \in 1..k
        <3>1. k - 1 \in 0..(n - 1) /\ (k - 1) + 1 = k /\ i \in 1..((k - 1) + 1)
            BY <1>1
        <3> QED BY <1>4, <3>1
    <2>2. \A i \in 2..k : i \in 1..k /\ i \in 1..n /\ adj[i] = days[i].adjustable /\ adj[i] \in Int
        BY <1>1, <1>2 DEF adj
    <2>3. Most(k) /\ lim[k] = days[k].limit /\ lim[k] \in Int
        BY <1>2, <1>9
    <2>4. X \subseteq Int
        <3>1. 1 \in 1..k
            BY <1>1
        <3> QED BY <2>1, <2>2, <3>1
    <2>5. \A y \in X : y <= lim[k]
        BY <2>1, <2>2, <2>3
    <2>6. lim[k] \in X
        BY <2>2, <2>3
    <2> HIDE DEF X
    <2>7. Max(X) = lim[k]
        BY <2>4, <2>5, <2>6, MaxIs
    <2>8. List!Max(X) = lim[k]
        BY <2>7, ListCounts
    <2> QED BY <2>3, <2>8 DEF X
<1>12. ASSUME NEW k \in DOMAIN days
       PROVE  LET excess(i) == List!SumFunction([j \in i..k |-> List!Whole(days[j].work - days[j].free)])
              IN  days[k].limit = List!Max({excess(1)} \cup {excess(i) - days[i].adjustable : i \in 2..k})
    <2> DEFINE excess(i) == List!SumFunction([j \in i..k |-> List!Whole(days[j].work - days[j].free)])
    <2>1. k \in 1..n /\ 1 \in 1..k /\ \A i \in 2..k : i \in 1..k
        BY <1>1
    <2>2. excess(1) = O(1, k) /\ \A i \in 2..k : excess(i) = O(i, k)
        BY <1>10, <2>1
    <2> HIDE DEF excess
    <2>3. {excess(1)} \cup {excess(i) - days[i].adjustable : i \in 2..k}
          = {O(1, k)} \cup {O(i, k) - days[i].adjustable : i \in 2..k}
        BY <2>2
    <2>4. days[k].limit = List!Max({excess(1)} \cup {excess(i) - days[i].adjustable : i \in 2..k})
        BY <1>11, <2>1, <2>3
    <2> QED BY <2>4 DEF excess
<1> QED BY <1>12 DEF List!ShortageIsBacklog

-----------------------------------------------------------------------------
(* Without a warning nothing of the week is carried on, and a day with     *)
(* room is one that is caught up with.                                     *)
LEMMA QuietIsCaughtUp ==
    ASSUME List!Assumption, NEW S, IsCalendar(days, S)
    PROVE  List!QuietMeansCaughtUp
<1> DEFINE n == Len(days)
<1>1. /\ n \in Nat /\ DOMAIN days = 1..n
      /\ \A k \in 1..n : IsDay(days[k]) /\ days[k].limit \in Int /\ days[k].date \in Int
                         /\ days[k].limit = List!Limit(IF k = 1 THEN 0 ELSE days[k - 1].limit, days[k])
                         /\ (days[k].goal < 0 => days[k].limit < 0)
      /\ \A j, k \in 1..n : j < k => days[j].date < days[k].date
    BY DEF IsCalendar
<1> HIDE DEF n
<1>2. ASSUME List!Summary.says = {"all is well"}, NEW k \in DOMAIN days, k <= 7
      PROVE  days[k].limit <= 0
    <2>1. List!Warnings = {}
        <3>1. "all is well" \notin List!Warnings
            BY DEF List!Warnings
        <3>2. List!Summary.says = IF List!Warnings = {} THEN {"all is well"} ELSE List!Warnings
            BY DEF List!Summary
        <3> QED BY <1>2, <3>1, <3>2
    <2> DEFINE Warned(w) ==
            \E j \in DOMAIN days :
                CASE w = "today's deadlines" -> j = 1 /\ ~List!InTime(days[j])
                  [] w = "today" -> j = 1 /\ ~List!Fits(days[j])
                  [] w = "new tasks" -> j = 1 /\ List!Fits(days[j]) /\ List!OverGoal(days[j]) > 0
                  [] w = "tomorrow's deadlines" -> j = 2 /\ ~List!InTime(days[j])
                  [] w = "tomorrow" -> j = 2 /\ ~List!Fits(days[j])
                  [] w = "the week's deadlines" -> j \in 3..7 /\ ~List!InTime(days[j])
                  [] w = "the week" -> j \in 3..7 /\ days[j].limit > 0
    <2>2. \A w \in {"today", "tomorrow", "the week"} : ~Warned(w)
        <3> HIDE DEF Warned
        <3>1. List!Warnings = {w \in {"today's deadlines", "today", "new tasks", "tomorrow's deadlines",
                                      "tomorrow", "the week's deadlines", "the week"} : Warned(w)}
            BY DEF List!Warnings, Warned
        <3> QED BY <2>1, <3>1
    <2>3. Warned("today") <=> \E j \in DOMAIN days : j = 1 /\ ~List!Fits(days[j])
        OBVIOUS
    <2>4. Warned("tomorrow") <=> \E j \in DOMAIN days : j = 2 /\ ~List!Fits(days[j])
        OBVIOUS
    <2>5. Warned("the week") <=> \E j \in DOMAIN days : j \in 3..7 /\ days[j].limit > 0
        OBVIOUS
    <2> HIDE DEF Warned
    <2>6. ASSUME NEW j \in 1..n, j \in {1, 2}, NEW b \in Int, b <= 0, days[j].limit = List!Limit(b, days[j])
          PROVE  days[j].limit <= 0
        <3>1. List!Fits(days[j])
            BY <1>1, <2>2, <2>3, <2>4, <2>6
        <3>2. IsDay(days[j]) /\ days[j].work - days[j].free \in Int /\ days[j].work - days[j].free <= 0
            BY <1>1, <3>1 DEF IsDay, List!Fits
        <3> DEFINE x == days[j].work - days[j].free
        <3>3. List!Whole(x) <= 0 /\ List!Whole(x) \in Int
            <4> HIDE DEF x
            <4> QED BY <3>2, WholeIs DEF x
        <3>4. List!Limit(b, days[j]) = (IF b >= -days[j].adjustable THEN b ELSE -days[j].adjustable) + List!Whole(x)
            BY <2>6, <3>2, LimitIs
        <3>5. days[j].adjustable \in Nat
            BY <3>2 DEF IsDay
        <3> HIDE DEF x
        <3> QED BY <2>6, <3>3, <3>4, <3>5
    <2>7. k \in 1..n
        BY <1>1
    <2>8. CASE k = 1
        BY <1>1, <2>6, <2>7, <2>8
    <2>9. CASE k = 2
        <3>1. 1 \in 1..n /\ 2 \in 1..n
            BY <1>1, <2>7, <2>9
        <3>2. days[1].limit <= 0 /\ days[1].limit \in Int
            BY <1>1, <2>6, <3>1
        <3>3. days[2].limit = List!Limit(days[1].limit, days[2])
            BY <1>1, <3>1
        <3> QED BY <2>6, <2>9, <3>1, <3>2, <3>3
    <2>10. CASE k \in 3..7
        <3>1. ~(days[k].limit > 0) /\ days[k].limit \in Int
            BY <1>1, <2>2, <2>5, <2>7, <2>10
        <3> QED BY <3>1
    <2>11. k = 1 \/ k = 2 \/ k \in 3..7
        <3>1. k \in Int /\ 1 <= k
            BY <1>1, <2>7
        <3>2. k <= 7
            BY <1>2, Zenon
        <3> QED BY <3>1, <3>2
    <2> QED BY <2>8, <2>9, <2>10, <2>11
<1>3. \A k \in List!HasLeeway : days[k].limit < 0
    BY <1>1 DEF List!HasLeeway
<1>4. ASSUME List!Summary.room # List!FarAhead, List!Summary.room # days[1].date
      PROVE  List!Summary.clear <= List!Summary.room
    <2> DEFINE R == List!HasLeeway
               C == List!CaughtUp
    <2>1. List!Summary.room = IF R = {} THEN List!FarAhead ELSE days[List!Min(R)].date
        BY DEF List!Summary
    <2>2. List!Summary.clear = IF C = {} THEN List!FarAhead ELSE days[List!Min(C)].date
        BY DEF List!Summary
    <2>3. R # {} /\ R \subseteq 1..n
        BY <1>1, <1>4, <2>1 DEF List!HasLeeway
    <2>4. PICK m \in R : List!Min(R) = m
        <3>1. PICK m \in R : \A j \in R : m <= j
            <4> HIDE DEF R
            <4>1. R \in SUBSET Nat
                BY <1>1, <2>3
            <4> QED BY <2>3, <4>1, LeastNatural
        <3>2. Min(R) = m
            <4> HIDE DEF R
            <4>1. R \subseteq Int
                BY <1>1, <2>3
            <4> QED BY <3>1, <4>1, MinIs
        <3> QED BY <3>1, <3>2, ListCounts
    <2>5. List!Summary.room = days[m].date /\ m # 1 /\ m \in 1..n
        BY <1>4, <2>1, <2>3, <2>4
    <2>6. m \in C /\ C \subseteq 1..n
        BY <1>1, <1>3, <2>4, <2>5 DEF List!CaughtUp
    <2> HIDE DEF R, C
    <2>7. PICK l \in C : List!Min(C) = l /\ l <= m
        <3>0. C \subseteq Int /\ C \in SUBSET Nat
            BY <1>1, <2>6
        <3>1. PICK l \in C : \A j \in C : l <= j
            BY <2>6, <3>0, LeastNatural
        <3>2. Min(C) = l
            BY <3>0, <3>1, MinIs
        <3> QED BY <2>6, <3>1, <3>2, ListCounts
    <2>8. List!Summary.clear = days[l].date
        BY <2>2, <2>6, <2>7
    <2>9. l \in 1..n /\ l \in Int /\ m \in Int /\ (l = m \/ l < m)
        BY <1>1, <2>5, <2>6, <2>7
    <2> QED BY <1>1, <2>5, <2>7, <2>8, <2>9
<1> QED BY <1>2, <1>3, <1>4 DEF List!QuietMeansCaughtUp

-----------------------------------------------------------------------------
(* Multiples are in the order of what they are multiples of.               *)
LEMMA MultiplesInOrder ==
    ASSUME NEW m \in Nat \ {0}, NEW a \in Int, NEW b \in Int
    PROVE  /\ a * m \in Int /\ b * m \in Int
           /\ a <= b <=> a * m <= b * m
           /\ a < b <=> a * m + m <= b * m
<1>1. m \in Int /\ m > 0 /\ a * m \in Int /\ b * m \in Int
    OBVIOUS
<1>2. ASSUME a <= b PROVE a * m <= b * m
    <2>1. b - a \in Nat /\ (b - a) * m \in Nat
        BY <1>1, <1>2
    <2>2. b * m = a * m + (b - a) * m
        BY <1>1
    <2> QED BY <1>1, <2>1, <2>2
<1>3. ASSUME a < b PROVE a * m + m <= b * m
    <2>1. b - a - 1 \in Nat /\ (b - a - 1) * m \in Nat
        BY <1>1, <1>3
    <2>2. b * m = a * m + m + (b - a - 1) * m
        BY <1>1
    <2> QED BY <1>1, <2>1, <2>2
<1>4. ASSUME b < a PROVE b * m + m <= a * m
    <2>1. a - b - 1 \in Nat /\ (a - b - 1) * m \in Nat
        BY <1>1, <1>4
    <2>2. a * m = b * m + m + (a - b - 1) * m
        BY <1>1
    <2> QED BY <1>1, <2>1, <2>2
<1>5. ASSUME b = a PROVE b * m = a * m
    BY <1>5
<1>6. a <= b \/ b < a
    OBVIOUS
<1>7. a < b \/ b < a \/ a = b
    OBVIOUS
<1> DEFINE x == a * m
           y == b * m
<1> HIDE DEF x, y
<1>8. x \in Int /\ y \in Int /\ (a <= b => x <= y) /\ (a < b => x + m <= y) /\ (b < a => y + m <= x) /\ (a = b => x = y)
    BY <1>1, <1>2, <1>3, <1>4, <1>5 DEF x, y
<1>9. (a <= b <=> x <= y) /\ (a < b <=> x + m <= y)
    BY <1>1, <1>6, <1>7, <1>8
<1> QED BY <1>8, <1>9 DEF x, y

(* The work of today is done in time exactly if there is time for it.      *)
LEMMA LoadIsLate ==
    ASSUME List!Assumption, ListedWorld, NEW S, IsCalendar(days, S)
    PROVE  List!LoadMeansLate
<1> DEFINE W == List!TodaysWork
           close == List!DateEnd(List!Today)
           x == close - world.now
           free == List!Available
<1>1. Minute \in Nat \ {0} /\ Minute \in Int /\ Minute > 0 /\ world.now \in Int /\ world.busy \in Nat
    BY ListNumbers DEF ListedWorld
<1>2. W \in Nat
    <2> DEFINE today == {k \in DOMAIN days : days[k].date = List!Today}
    <2>1. Len(days) \in Nat /\ DOMAIN days = 1..Len(days)
          /\ \A k \in 1..Len(days) : days[k].work \in Nat
        BY DEF IsCalendar, IsDay
    <2>2. W = IF today = {} THEN 0 ELSE days[List!Min(today)].work
        BY DEF List!TodaysWork
    <2>3. ASSUME today # {} PROVE Min(today) \in today
        <3>1. today \in SUBSET Nat /\ today \subseteq Int
            BY <2>1
        <3> HIDE DEF today
        <3>2. PICK l \in today : \A j \in today : l <= j
            BY <2>3, <3>1, LeastNatural
        <3> QED BY <3>1, <3>2, MinIs
    <2> QED BY <2>1, <2>2, <2>3, ListCounts
<1>3. x \in Int /\ close \in Int
    <2>1. List!Today \in Int
        BY <1>1, ListDates DEF List!Today
    <2>2. DayTicks \in Int /\ OffsetTicks \in Int
        BY ListNumbers
    <2> DEFINE y == (List!Today + 1) * DayTicks
    <2>3. y \in Int
        BY <2>1, <2>2
    <2>4. close = y + OffsetTicks
        BY DEF List!DateEnd
    <2> HIDE DEF y, close
    <2> QED BY <1>1, <2>2, <2>3, <2>4
<1>4. ASSUME free > 0
      PROVE  List!Overloaded <=> List!FinishTime > close
    <2> DEFINE q == x \div Minute
               r == x % Minute
               w == W + Minute - 1
               c == w \div Minute
               s == w % Minute
    <2>1. List!Whole(x) \in Int /\ free = List!LeftToday - world.busy * Minute
          /\ List!LeftToday = Max({0, List!Whole(x)})
        <3>1. List!Whole(x) \in Int
            BY <1>3, WholeIs
        <3> QED BY <3>1, ListCounts DEF List!Available, List!LeftToday
    <2>2. List!LeftToday = List!Whole(x) /\ List!Whole(x) > 0
        <3>1. List!LeftToday = IF 0 >= List!Whole(x) THEN 0 ELSE List!Whole(x)
            <4> HIDE DEF x
            <4>1. 0 \in Int
                OBVIOUS
            <4> QED BY <2>1, <4>1, MaxOfTwo
        <3>2. world.busy * Minute \in Nat
            BY <1>1
        <3> HIDE DEF x, free
        <3> QED BY <1>4, <2>1, <3>1, <3>2
    <2>3. x > 0
        <3> HIDE DEF x
        <3> QED BY <1>3, <2>1, <2>2, WholeIs
    <2>4. q \in Int /\ r \in 0..(Minute - 1) /\ x = q * Minute + r
        <3> HIDE DEF x
        <3> QED BY <1>1, <1>3, DayAndSlot
    <2>5. w \in Int /\ w >= 0
        <3> HIDE DEF W
        <3> QED BY <1>1, <1>2
    <2>6. c \in Int /\ s \in 0..(Minute - 1) /\ w = c * Minute + s
        <3> HIDE DEF w
        <3> QED BY <1>1, <2>5, DayAndSlot
    <2>7. List!Whole(x) = q * Minute
        <3> HIDE DEF x
        <3> QED BY <1>3, <2>3 DEF List!Whole
    <2>8. -List!Whole(-W - Minute + 1) = c * Minute
        <3> DEFINE z == -W - Minute + 1
        <3>1. z \in Int /\ -z = w /\ z <= 0
            <4> HIDE DEF W
            <4> QED BY <1>1, <1>2
        <3> HIDE DEF z, w
        <3>2. CASE z < 0
            <4>1. List!Whole(z) = -c * Minute
                BY <3>1, <3>2 DEF List!Whole
            <4> HIDE DEF c
            <4>2. -c * Minute = -(c * Minute) /\ c * Minute \in Int
                BY <1>1, <2>6
            <4>3. List!Whole(z) = -(c * Minute)
                BY <4>1, <4>2
            <4> DEFINE y == c * Minute
            <4> HIDE DEF y
            <4>4. List!Whole(z) = -y /\ y \in Int
                BY <4>2, <4>3 DEF y
            <4>5. -List!Whole(z) = y
                BY <4>4
            <4> QED BY <4>5 DEF z, y
        <3>3. CASE z = 0
            <4>1. w = 0
                BY <3>1, <3>3
            <4>2. List!Whole(z) = (0 \div Minute) * Minute
                BY <3>3 DEF List!Whole
            <4>3. c = 0 \div Minute
                BY <4>1
            <4> HIDE DEF c
            <4>4. c = 0
                <5>1. 0 \div Minute = 0
                    BY <1>1
                <5> QED BY <4>3, <5>1
            <4>5. List!Whole(z) = 0 /\ c * Minute = 0
                BY <1>1, <4>2, <4>3, <4>4
            <4> QED BY <4>5 DEF z
        <3> QED BY <3>1, <3>2, <3>3
    <2> DEFINE b == world.busy
               C == c * Minute
               Q == q * Minute
               B == b * Minute
    <2>9. List!FinishTime = world.now + C + B
        <3> DEFINE y == List!Whole(-W - Minute + 1)
        <3>1. List!FinishTime = world.now - y + B
            BY DEF List!FinishTime
        <3>2. y \in Int
            <4>1. -W - Minute + 1 \in Int
                <5> HIDE DEF W
                <5> QED BY <1>1, <1>2
            <4> QED BY <4>1, WholeIs
        <3>3. -y = C
            BY <2>8
        <3>4. B \in Int
            BY <1>1
        <3> HIDE DEF y, B, C
        <3> QED BY <1>1, <3>1, <3>2, <3>3, <3>4
    <2> HIDE DEF q, r, w, c, s
    <2>10. C \in Int /\ Q \in Int /\ B \in Int /\ (q - b) * Minute = Q - B /\ (c + b) * Minute = C + B
           /\ q - b \in Int /\ c + b \in Int /\ b \in Int
        BY <1>1, <2>4, <2>6
    <2>11. (c + b <= q <=> C + B <= Q) /\ (q < c + b <=> Q + Minute <= C + B)
        BY <1>1, <2>4, <2>10, MultiplesInOrder
    <2>12. free = Q - B
        BY <2>1, <2>2, <2>7
    <2>13. List!Overloaded <=> W > Q - B
        <3> HIDE DEF W, Q, B, free
        <3>1. List!Overloaded <=> free <= 0 \/ W > free
            BY DEF List!Overloaded, W, free
        <3>2. ~(free <= 0)
            BY <1>4, <2>10, <2>12
        <3> QED BY <2>12, <3>1, <3>2
    <2>14. close - world.now = Q + r /\ r \in Int /\ 0 <= r /\ r < Minute
        <3> HIDE DEF close, Q
        <3>1. r \in Int /\ 0 <= r /\ r < Minute
            BY <1>1, <2>4
        <3>2. close - world.now = Q + r
            <4>1. x = Q + r
                BY <2>4 DEF Q
            <4> QED BY <4>1
        <3> QED BY <3>1, <3>2
    <2>15. W = C + s - Minute + 1 /\ s \in Int /\ 0 <= s /\ s < Minute
        <3>1. s \in Int /\ 0 <= s /\ s < Minute
            BY <1>1, <2>6
        <3>2. W + Minute - 1 = C + s
            BY <2>6 DEF w
        <3> HIDE DEF W, C
        <3> QED BY <1>1, <1>2, <2>10, <3>1, <3>2
    <2> HIDE DEF W, close, C, Q, B, b
    <2>16. List!FinishTime > close <=> C + B > Q + r
        BY <1>1, <1>3, <2>9, <2>10, <2>14
    <2>17. CASE q < c + b
        <3>1. Q + Minute <= C + B
            BY <2>11, <2>17
        <3>2. C + B > Q + r
            BY <1>1, <2>10, <2>14, <3>1
        <3>3. W > Q - B
            BY <1>1, <2>10, <2>15, <3>1
        <3> QED BY <2>13, <2>16, <3>2, <3>3
    <2>18. CASE ~(q < c + b)
        <3>1. C + B <= Q
            BY <2>4, <2>10, <2>11, <2>18
        <3>2. ~(C + B > Q + r)
            BY <1>1, <2>10, <2>14, <3>1
        <3>3. ~(W > Q - B)
            BY <1>1, <2>10, <2>15, <3>1
        <3> QED BY <2>13, <2>16, <3>2, <3>3
    <2> QED BY <2>17, <2>18
<1> QED BY <1>4 DEF List!LoadMeansLate

-----------------------------------------------------------------------------
(***************************************************************************)
(* The band of a day                                                       *)
(***************************************************************************)
(* The sum of the first numbers of a sequence.                             *)
LEMMA SumToIs ==
    ASSUME NEW f, NEW n \in Nat \ {0}, \A i \in 1..n : f[i] \in Int
    PROVE  /\ List!SumTo(f, n) \in Int
           /\ List!SumTo(f, n) = (IF n = 1 THEN 0 ELSE List!SumTo(f, n - 1)) + f[n]
<1>1. ASSUME NEW m \in 1..n
      PROVE  List!SumTo(f, m) = SumOver(f, 1..m)
    <2> DEFINE g == [i \in 1..m |-> f[i]]
               T == 1..m
    <2>1. List!SumFunction(g) = SumOver(g, T)
        <3>1. DOMAIN g = T
            OBVIOUS
        <3> HIDE DEF g, T
        <3> QED BY <3>1, ListSums
    <2>2. IsFiniteSet(T)
        BY FS_Interval
    <2>3. \A i \in T : g[i] \in Int /\ g[i] = f[i]
        OBVIOUS
    <2>4. List!SumTo(f, m) = List!SumFunction(g)
        BY DEF List!SumTo
    <2> HIDE DEF g, T
    <2>5. SumOver(g, T) = SumOver(f, T)
        BY <2>2, <2>3, SumOfTheSame
    <2> QED BY <2>1, <2>4, <2>5 DEF T
<1> DEFINE m == n - 1
<1>2. m \in Int /\ 1 <= m + 1 /\ n = m + 1 /\ 1 \in Int
    OBVIOUS
<1> HIDE DEF m
<1>3. \A j \in 1..(m + 1) : f[j] \in Int
    BY <1>2
<1>4. SumOver(f, 1..m) \in Int /\ SumOver(f, 1..n) \in Int /\ SumOver(f, 1..n) = SumOver(f, 1..m) + f[n]
    BY <1>2, <1>3, SumGoesOn
<1>5. CASE n = 1
    <2>1. 1..m = {}
        BY <1>2, <1>5
    <2>2. SumOver(f, 1..m) = 0
        BY <2>1, SumOfNothing
    <2>3. n \in 1..n
        BY <1>5
    <2> QED BY <1>1, <1>4, <1>5, <2>2, <2>3
<1>6. CASE n # 1
    <2>1. m \in 1..n /\ n \in 1..n
        BY <1>2, <1>6
    <2> QED BY <1>1, <1>4, <1>6, <2>1 DEF m
<1> QED BY <1>5, <1>6

(* Rounding is by half a character at most, up or down.                    *)
LEMMA RoundedIs ==
    ASSUME List!Assumption, NEW x \in Int
    PROVE  /\ List!Rounded(x) \in Int /\ List!Rounded(x) * Character \in Int
           /\ Character \div 2 \in Nat /\ 2 * (Character \div 2) <= Character
           /\ List!Rounded(x) * Character <= x + Character \div 2
           /\ List!Rounded(x) * Character + Character > x + Character \div 2
<1> DEFINE h == Character \div 2
           y == x + h
           q == y \div Character
           r == y % Character
<1>1. Character \in Nat \ {0}
    BY ListNumbers
<1>2. h \in Nat /\ 2 * h <= Character
    BY <1>1
<1> HIDE DEF h
<1>3. y \in Int
    BY <1>2
<1>4. q \in Int /\ r \in 0..(Character - 1) /\ y = q * Character + r
    <2> HIDE DEF y
    <2> QED BY <1>1, <1>3, DayAndSlot
<1>5. List!Rounded(x) = q
    BY DEF List!Rounded, h
<1> HIDE DEF q, r
<1> DEFINE z == q * Character
<1>6. z \in Int
    BY <1>1, <1>4
<1>7. r \in Int /\ 0 <= r /\ r < Character /\ Character \in Int
    BY <1>1, <1>4
<1>8. x + h = z + r
    BY <1>4
<1> HIDE DEF z
<1>9. z <= x + h /\ z + Character > x + h
    BY <1>2, <1>6, <1>7, <1>8
<1> QED BY <1>2, <1>4, <1>5, <1>6, <1>9 DEF z, h

\* Rounding keeps the order.
LEMMA RoundedInOrder ==
    ASSUME List!Assumption, NEW x \in Int, NEW y \in Int, x <= y
    PROVE  List!Rounded(x) <= List!Rounded(y)
<1> DEFINE a == List!Rounded(x)
           b == List!Rounded(y)
           h == Character \div 2
<1>1. Character \in Nat \ {0}
    BY ListNumbers
<1>2. a \in Int /\ a * Character \in Int /\ h \in Nat /\ a * Character <= x + h
    BY RoundedIs
<1>3. b \in Int /\ b * Character \in Int /\ b * Character + Character > y + h
    BY RoundedIs
<1> HIDE DEF a, b, h
<1>4. b < a <=> b * Character + Character <= a * Character
    BY <1>1, <1>2, <1>3, MultiplesInOrder
<1> DEFINE u == a * Character
           v == b * Character
<1> HIDE DEF u, v
<1>5. u \in Int /\ v \in Int /\ u <= x + h /\ v + Character > y + h /\ (b < a <=> v + Character <= u)
    BY <1>2, <1>3, <1>4 DEF u, v
<1>6. ~(b < a)
    BY <1>1, <1>2, <1>5
<1>7. a <= b
    BY <1>2, <1>3, <1>6
<1> QED BY <1>7 DEF a, b

(* Whole characters are not rounded.                                       *)
LEMMA RoundedExactly ==
    ASSUME List!Assumption, NEW k \in Int
    PROVE  List!Rounded(k * Character) = k
<1> DEFINE x == k * Character
           a == List!Rounded(x)
           h == Character \div 2
<1>1. Character \in Nat \ {0} /\ Character \in Int /\ Character > 0
    BY ListNumbers
<1>2. x \in Int
    BY <1>1
<1>3. a \in Int /\ a * Character \in Int /\ h \in Nat /\ 2 * h <= Character /\ a * Character <= x + h
      /\ a * Character + Character > x + h
    <2> HIDE DEF x
    <2> QED BY <1>2, RoundedIs
<1> HIDE DEF a, h
<1>4. (a < k <=> a * Character + Character <= k * Character)
      /\ (k < a <=> k * Character + Character <= a * Character)
    BY <1>1, <1>3, MultiplesInOrder
<1> DEFINE u == a * Character
<1> HIDE DEF u, x
<1>5. u \in Int /\ u <= x + h /\ u + Character > x + h
    BY <1>3 DEF u
<1>6. (a < k <=> u + Character <= x) /\ (k < a <=> x + Character <= u)
    BY <1>4 DEF u, x
<1>7. ~(a < k)
    BY <1>1, <1>2, <1>3, <1>5, <1>6
<1>8. ~(k < a)
    BY <1>1, <1>2, <1>3, <1>5, <1>6
<1>9. a = k
    BY <1>3, <1>7, <1>8
<1> QED BY <1>9 DEF a, x

(* The parts of a day: what is not free of it, the work, and its leeway,   *)
(* which is part of what is free.                                          *)
LEMMA PartsOfDay ==
    ASSUME List!Assumption, ListedWorld, NEW S, S \subseteq List!Pieces,
           IsCalendar(days, S), NEW k \in DOMAIN days,
           NEW c, c = days[k], NEW p, p = List!Parts(c)
    PROVE  /\ \A i \in 1..5 : p[i] \in Nat
           /\ p[1] + p[2] = DayTicks - c.free
           /\ p[3] + p[4] = c.work
           /\ c.work > c.free => p[5] = 0
           /\ c.work <= c.free => p[5] <= c.free - c.work
<1> DEFINE W == world.whole[c.date] * Minute
           F == world.free[c.date] * Minute
           L == List!Leeway(c)
           q == (L + 5) \div 10
<1>1. /\ IsDay(c) /\ c.date \in DatesOf(S) /\ c.free = F /\ c.free <= DayTicks
    BY DEF IsCalendar
<1>2. c.date \in DOMAIN world.free
    <2>1. PICK e \in S : c.date = List!DateOf(e.from)
        BY <1>1 DEF DatesOf
    <2> QED BY <2>1 DEF ListedWorld
<1>3. Minute \in Nat \ {0} /\ DayTicks \in Nat
    BY ListNumbers
<1>4. /\ world.free[c.date] \in Nat /\ world.whole[c.date] \in Nat
      /\ world.free[c.date] <= world.whole[c.date] /\ W <= DayTicks
      /\ c.date # List!Today => W = F
    BY <1>2 DEF ListedWorld
<1>5. W \in Nat /\ F \in Nat /\ F <= W
    BY <1>3, <1>4, MultiplesInOrder
<1>6. /\ p[1] = DayTicks - W
      /\ p[2] = IF c.date = List!Today THEN W - c.free ELSE 0
      /\ p[3] = c.routine /\ p[4] = c.work - c.routine /\ p[5] = q
    BY DEF List!Parts
<1> HIDE DEF W, F
<1>7. c.work \in Nat /\ c.routine \in Nat /\ c.routine <= c.work /\ c.free \in Nat
    BY <1>1 DEF IsDay
<1>8. /\ p[1] \in Nat /\ p[2] \in Nat /\ p[3] \in Nat /\ p[4] \in Nat
      /\ p[1] + p[2] = DayTicks - c.free /\ p[3] + p[4] = c.work
    BY <1>1, <1>3, <1>4, <1>5, <1>6, <1>7
<1>9. L \in Nat /\ L = IF List!OverGoal(c) <= 0 THEN -List!OverGoal(c) ELSE 0
    BY <1>1, LeewayOfDay
<1>10. List!OverGoal(c) = IF c.free - c.routine <= 0 THEN 0
                          ELSE 10 * (c.work - c.routine) - 7 * (c.free - c.routine)
    BY DEF List!OverGoal
<1> HIDE DEF L
<1>11. q \in Nat /\ 10 * q <= L + 5
    BY <1>9
<1>12. /\ c.work > c.free => L = 0
       /\ c.work <= c.free => L = 0 \/ L + 5 < 10 * (c.free - c.work) + 10
    <2> DEFINE f == c.free
               w == c.work
               r == c.routine
               o == List!OverGoal(c)
    <2>1. f \in Nat /\ w \in Nat /\ r \in Nat /\ r <= w
        BY <1>7
    <2>2. L = IF o <= 0 THEN -o ELSE 0
        BY <1>9
    <2>3. o = IF f - r <= 0 THEN 0 ELSE 10 * (w - r) - 7 * (f - r)
        BY <1>10
    <2> HIDE DEF f, w, r, o
    <2>4. CASE f - r <= 0
        <3>1. o = 0
            BY <2>3, <2>4
        <3>2. o \in Int /\ o <= 0
            BY <3>1
        <3>3. L = -o
            BY <2>2, <3>2
        <3>4. L <= 0
            BY <3>1, <3>2, <3>3
        <3> QED BY <1>9, <3>4
    <2>5. CASE ~(f - r <= 0)
        <3>1. o = 10 * w - 7 * f - 3 * r /\ o \in Int
            BY <2>1, <2>3, <2>5
        <3>2. w > f => o > 0
            BY <2>1, <2>5, <3>1
        <3>3. w <= f => -o + 5 < 10 * (f - w) + 10
            BY <2>1, <2>5, <3>1
        <3>4. o > 0 => L = 0
            BY <2>2, <3>1
        <3>5. L = 0 \/ L = -o
            BY <2>2
        <3> QED BY <3>2, <3>3, <3>4, <3>5 DEF f, w
    <2> QED BY <2>4, <2>5
<1> HIDE DEF q
<1>13. L = 0 => q = 0
    BY <1>9, <1>11
<1>14. c.work <= c.free => q <= c.free - c.work
    BY <1>7, <1>9, <1>11, <1>12, <1>13
<1>15. \A i \in 1..5 : p[i] \in Nat
    <2> TAKE i \in 1..5
    <2>1. i = 1 \/ i = 2 \/ i = 3 \/ i = 4 \/ i = 5
        OBVIOUS
    <2>2. p[5] \in Nat
        BY <1>6, <1>11
    <2> QED BY <1>8, <2>1, <2>2
<1> QED BY <1>6, <1>8, <1>12, <1>13, <1>14, <1>15

(* The band of a day is as long as a day, and true to its parts.           *)
LEMMA BandIsOfDay ==
    ASSUME List!Assumption, ListedWorld, NEW S, S \subseteq List!Pieces, IsCalendar(days, S)
    PROVE  List!BandIsADay
<1> SUFFICES ASSUME NEW k \in DOMAIN days
             PROVE  LET band == List!Band(days[k])
                        parts == List!Parts(days[k])
                        excess == days[k].work - days[k].free
                    IN  /\ List!SumTo(band.cells, 6) = DayTicks \div Character
                        /\ \A i \in 1..6 : band.cells[i] >= 0
                        /\ excess <= 0 => \A i \in 1..5 : band.cells[i] * Character - parts[i]
                                                              \in (1 - Character)..(Character - 1)
                        /\ band.over > 0 <=> excess >= Character - Character \div 2
    BY DEF List!BandIsADay
<1> DEFINE c == days[k]
           p == List!Parts(c)
           band == List!Band(c)
           excess == c.work - c.free
           h == Character \div 2
           K == DayTicks \div Character
           S0(i) == IF i = 0 THEN 0 ELSE List!SumTo(p, i)
           R(x) == List!Rounded(x)
           bound(i) == IF i = 0 THEN 0 ELSE IF i = 6 THEN K
                       ELSE R(List!Min({List!SumTo(p, i), DayTicks}))
           cells == [i \in 1..6 |-> bound(i) - bound(i - 1)]
<1>1. /\ \A i \in 1..5 : p[i] \in Nat
      /\ p[1] + p[2] = DayTicks - c.free /\ p[3] + p[4] = c.work
      /\ c.work > c.free => p[5] = 0
      /\ c.work <= c.free => p[5] <= c.free - c.work
    BY PartsOfDay
<1>2. c.work \in Nat /\ c.free \in Nat /\ excess \in Int
    <2>1. IsDay(c)
        BY DEF IsCalendar
    <2> QED BY <2>1 DEF IsDay
<1>3. /\ band.cells = [i \in 1..6 |->
                          (IF i = 6 THEN DayTicks \div Character
                           ELSE List!Rounded(List!Min({List!SumTo(p, i), DayTicks})))
                          - (IF i = 1 THEN 0 ELSE IF i - 1 = 6 THEN DayTicks \div Character
                             ELSE List!Rounded(List!Min({List!SumTo(p, i - 1), DayTicks})))]
      /\ band.over = List!Rounded(List!Max({0, List!SumTo(p, 5) - DayTicks}))
    BY DEF List!Band
<1>4. band.cells = cells
    <2> DEFINE b(i) == R(List!Min({List!SumTo(p, i), DayTicks}))
               l(i) == (IF i = 6 THEN K ELSE b(i)) - (IF i = 1 THEN 0 ELSE IF i - 1 = 6 THEN K ELSE b(i - 1))
    <2>1. ASSUME NEW i \in 1..6 PROVE l(i) = bound(i) - bound(i - 1)
        <3>1. i # 0 /\ (i = 1 <=> i - 1 = 0)
            OBVIOUS
        <3>2. bound(i) = IF i = 6 THEN K ELSE b(i)
            BY <3>1
        <3>3. bound(i - 1) = IF i = 1 THEN 0 ELSE IF i - 1 = 6 THEN K ELSE b(i - 1)
            BY <3>1
        <3> HIDE DEF bound, b, K
        <3> QED BY <3>2, <3>3
    <2>2. band.cells = [i \in 1..6 |-> l(i)]
        BY <1>3
    <2> HIDE DEF bound, l
    <2> QED BY <2>1, <2>2
<1> HIDE DEF cells, band
<1>5. Character \in Nat \ {0} /\ Character \in Int /\ Character > 0 /\ DayTicks \in Nat \ {0}
      /\ DayTicks % Character = 0
    BY ListNumbers
<1>6. K \in Int /\ DayTicks = K * Character
    BY <1>5, DayAndSlot
<1>7. R(DayTicks) = K /\ R(0) = 0
    <2>1. R(K * Character) = K
        <3> HIDE DEF K
        <3> QED BY <1>6, RoundedExactly
    <2>2. R(0 * Character) = 0
        BY RoundedExactly
    <2>3. 0 * Character = 0
        BY <1>5
    <2> HIDE DEF R
    <2> QED BY <1>6, <2>1, <2>2, <2>3
<1>8. h \in Nat /\ 2 * h <= Character
    BY RoundedIs
<1> HIDE DEF h, K
<1>9. ASSUME NEW i \in 1..5
      PROVE  S0(i) \in Nat /\ S0(i - 1) \in Nat /\ S0(i) = S0(i - 1) + p[i]
    <2> DEFINE s(j) == List!SumTo(p, j)
    <2>1. \A j \in 1..5 : s(j) \in Int /\ s(j) = (IF j = 1 THEN 0 ELSE s(j - 1)) + p[j]
        <3> TAKE j \in 1..5
        <3>1. \A m \in 1..j : p[m] \in Int
            BY <1>1
        <3>2. j \in Nat \ {0}
            OBVIOUS
        <3> HIDE DEF p
        <3> QED BY <3>1, <3>2, SumToIs
    <2> HIDE DEF s, p
    <2>2. s(1) \in Nat /\ s(1) = p[1]
        BY <1>1, <2>1
    <2>3. s(2) \in Nat /\ s(2) = s(1) + p[2]
        BY <1>1, <2>1, <2>2
    <2>4. s(3) \in Nat /\ s(3) = s(2) + p[3]
        BY <1>1, <2>1, <2>3
    <2>5. s(4) \in Nat /\ s(4) = s(3) + p[4]
        BY <1>1, <2>1, <2>4
    <2>6. s(5) \in Nat /\ s(5) = s(4) + p[5]
        BY <1>1, <2>1, <2>5
    <2>7. \A j \in 1..5 : S0(j) = s(j)
        BY DEF s
    <2>8. S0(0) = 0
        OBVIOUS
    <2> HIDE DEF S0
    <2>9. i = 1 \/ i = 2 \/ i = 3 \/ i = 4 \/ i = 5
        OBVIOUS
    <2> QED BY <1>1, <2>2, <2>3, <2>4, <2>5, <2>6, <2>7, <2>8, <2>9
<1> DEFINE used == List!SumTo(p, 5)
<1>10. S0(5) = used
    OBVIOUS
<1>11. \A i \in 0..5 : S0(i) \in Nat
    <2>1. S0(0) = 0
        OBVIOUS
    <2> HIDE DEF S0
    <2> QED BY <1>9, <2>1
<1>12. \A i \in 1..5 : bound(i) = R(IF S0(i) <= DayTicks THEN S0(i) ELSE DayTicks)
    <2> TAKE i \in 1..5
    <2>1. S0(i) = List!SumTo(p, i)
        OBVIOUS
    <2>2. List!Min({S0(i), DayTicks}) = IF S0(i) <= DayTicks THEN S0(i) ELSE DayTicks
        <3> HIDE DEF S0
        <3>1. S0(i) \in Int /\ DayTicks \in Int
            BY <1>5, <1>11
        <3> QED BY <3>1, MinOfTwo, ListCounts
    <2>3. bound(i) = R(List!Min({S0(i), DayTicks}))
        <3> HIDE DEF R, p
        <3> QED BY <2>1
    <2> HIDE DEF S0, R
    <2> QED BY <2>2, <2>3
<1>13. bound(0) = 0 /\ bound(6) = K
    OBVIOUS
<1>14. S0(0) = 0
    OBVIOUS
<1> HIDE DEF bound, S0, used, p
<1>15. \A x \in Int : /\ R(x) \in Int /\ R(x) * Character \in Int
                      /\ R(x) * Character <= x + h /\ R(x) * Character + Character > x + h
    BY RoundedIs DEF h
<1>16. \A x, y \in Int : x <= y => R(x) <= R(y)
    BY RoundedInOrder
<1> HIDE DEF R
<1>17. \A i \in 0..6 : bound(i) \in Int
    <2> TAKE i \in 0..6
    <2>1. i = 0 \/ i = 6 \/ i \in 1..5
        OBVIOUS
    <2>2. ASSUME i \in 1..5 PROVE bound(i) \in Int
        <3>1. S0(i) \in Int /\ DayTicks \in Int
            BY <1>5, <1>11, <2>2
        <3> QED BY <1>12, <1>15, <2>2, <3>1
    <2> QED BY <1>6, <1>13, <2>1, <2>2
<1>18. ASSUME NEW i \in 1..6 PROVE bound(i - 1) <= bound(i)
    <2>1. CASE i \in 2..5
        <3>1. i \in 1..5 /\ i - 1 \in 1..5
            BY <2>1
        <3>2. S0(i) \in Nat /\ S0(i - 1) \in Nat /\ S0(i - 1) <= S0(i)
            BY <1>1, <1>9, <3>1
        <3> DEFINE x == IF S0(i - 1) <= DayTicks THEN S0(i - 1) ELSE DayTicks
                   y == IF S0(i) <= DayTicks THEN S0(i) ELSE DayTicks
        <3>3. x \in Int /\ y \in Int /\ x <= y
            BY <1>5, <3>2
        <3>4. bound(i - 1) = R(x) /\ bound(i) = R(y)
            BY <1>12, <3>1
        <3> HIDE DEF x, y
        <3> QED BY <1>16, <3>3, <3>4
    <2>2. CASE i = 1
        <3>1. 1 \in 1..5
            OBVIOUS
        <3>2. S0(1) \in Nat
            BY <1>9, <3>1
        <3> DEFINE y == IF S0(1) <= DayTicks THEN S0(1) ELSE DayTicks
        <3>3. y \in Int /\ 0 <= y /\ 0 \in Int
            BY <1>5, <3>2
        <3>4. bound(1) = R(y)
            BY <1>12, <3>1
        <3> HIDE DEF y
        <3>5. R(0) <= R(y)
            BY <1>16, <3>3
        <3> QED BY <1>7, <1>13, <2>2, <3>4, <3>5
    <2>3. CASE i = 6
        <3>1. 5 \in 1..5
            OBVIOUS
        <3>2. S0(5) \in Nat
            BY <1>9, <3>1
        <3> DEFINE y == IF S0(5) <= DayTicks THEN S0(5) ELSE DayTicks
        <3>3. y \in Int /\ y <= DayTicks /\ DayTicks \in Int
            BY <1>5, <3>2
        <3>4. bound(5) = R(y)
            BY <1>12, <3>1
        <3> HIDE DEF y
        <3>5. R(y) <= R(DayTicks)
            BY <1>16, <3>3
        <3> QED BY <1>7, <1>13, <2>3, <3>4, <3>5
    <2>4. i = 1 \/ i = 6 \/ i \in 2..5
        OBVIOUS
    <2> QED BY <2>1, <2>2, <2>3, <2>4
<1>19. \A i \in 1..6 : cells[i] = bound(i) - bound(i - 1)
    BY DEF cells
<1>20. \A i \in 1..6 : cells[i] \in Int /\ cells[i] >= 0
    <2> TAKE i \in 1..6
    <2>1. i \in 0..6 /\ i - 1 \in 0..6
        OBVIOUS
    <2> QED BY <1>17, <1>18, <1>19, <2>1
<1>21. List!SumTo(cells, 6) = K
    <2> DEFINE s(j) == List!SumTo(cells, j)
    <2>1. \A j \in 1..6 : s(j) \in Int /\ s(j) = (IF j = 1 THEN 0 ELSE s(j - 1)) + cells[j]
        <3> TAKE j \in 1..6
        <3>1. \A m \in 1..j : cells[m] \in Int
            BY <1>20
        <3>2. j \in Nat \ {0}
            OBVIOUS
        <3> QED BY <3>1, <3>2, SumToIs
    <2> HIDE DEF s
    <2>2. ASSUME NEW j \in 1..6, (IF j = 1 THEN 0 ELSE s(j - 1)) = bound(j - 1)
          PROVE  s(j) = bound(j)
        <3>1. bound(j) \in Int /\ bound(j - 1) \in Int
            <4>1. j \in 0..6 /\ j - 1 \in 0..6
                OBVIOUS
            <4> QED BY <1>17, <4>1
        <3>2. s(j) = bound(j - 1) + (bound(j) - bound(j - 1))
            BY <1>19, <2>1, <2>2
        <3> QED BY <3>1, <3>2
    <2>3. s(1) = bound(1)
        BY <1>13, <2>2
    <2>4. s(2) = bound(2)
        BY <2>2, <2>3
    <2>5. s(3) = bound(3)
        BY <2>2, <2>4
    <2>6. s(4) = bound(4)
        BY <2>2, <2>5
    <2>7. s(5) = bound(5)
        BY <2>2, <2>6
    <2>8. s(6) = bound(6)
        BY <2>2, <2>7
    <2> QED BY <1>13, <2>8 DEF s
<1>22. used \in Nat /\ used = DayTicks + excess + p[5] /\ p[5] \in Nat
    <2>1. S0(1) = p[1] /\ S0(2) = S0(1) + p[2] /\ S0(3) = S0(2) + p[3] /\ S0(4) = S0(3) + p[4]
          /\ S0(5) = S0(4) + p[5] /\ S0(5) \in Nat
        <3>1. /\ 1 \in 1..5 /\ 2 \in 1..5 /\ 3 \in 1..5 /\ 4 \in 1..5 /\ 5 \in 1..5
            OBVIOUS
        <3> QED BY <1>1, <1>9, <1>14, <3>1
    <2>2. p[1] \in Nat /\ p[2] \in Nat /\ p[3] \in Nat /\ p[4] \in Nat /\ p[5] \in Nat
        BY <1>1
    <2>3. S0(5) = (p[1] + p[2]) + (p[3] + p[4]) + p[5]
        BY <2>1, <2>2
    <2>4. (p[1] + p[2]) + (p[3] + p[4]) = DayTicks + excess
        BY <1>1, <1>2, <1>5, <2>2
    <2> QED BY <1>10, <2>1, <2>2, <2>3, <2>4
<1>23. excess \in Int /\ (excess > 0 => p[5] = 0) /\ (excess <= 0 => p[5] <= -excess)
    BY <1>1, <1>2, <1>22
<1> HIDE DEF excess
<1>24. ASSUME excess <= 0, NEW i \in 1..5
       PROVE  cells[i] * Character - p[i] \in (1 - Character)..(Character - 1)
    <2>1. \A j \in 1..5 : S0(j) <= S0(5)
        <3>1. S0(1) <= S0(2) /\ S0(2) <= S0(3) /\ S0(3) <= S0(4) /\ S0(4) <= S0(5)
              /\ \A j \in 1..5 : S0(j) \in Int
            <4>1. \A j \in 1..5 : S0(j - 1) <= S0(j) /\ S0(j) \in Int
                BY <1>1, <1>9
            <4>2. /\ 1 \in 1..5 /\ 2 \in 1..5 /\ 3 \in 1..5 /\ 4 \in 1..5 /\ 5 \in 1..5
                  /\ 2 - 1 = 1 /\ 3 - 1 = 2 /\ 4 - 1 = 3 /\ 5 - 1 = 4
                OBVIOUS
            <4> QED BY <4>1, <4>2
        <3> TAKE j \in 1..5
        <3>2. j = 1 \/ j = 2 \/ j = 3 \/ j = 4 \/ j = 5
            OBVIOUS
        <3> QED BY <3>1, <3>2
    <2>2. S0(5) <= DayTicks
        BY <1>5, <1>10, <1>22, <1>23, <1>24
    <2>3. \A j \in 1..5 : S0(j) <= DayTicks /\ S0(j) \in Int
        <3> TAKE j \in 1..5
        <3>1. S0(j) \in Nat /\ S0(5) \in Nat
            BY <1>11
        <3> QED BY <1>5, <2>1, <2>2, <3>1
    <2>4. \A j \in 0..5 : bound(j) = R(S0(j)) /\ S0(j) \in Int
        <3> TAKE j \in 0..5
        <3>1. j = 0 \/ j \in 1..5
            OBVIOUS
        <3> QED BY <1>7, <1>12, <1>13, <1>14, <2>3, <3>1
    <2> DEFINE x == S0(i)
               y == S0(i - 1)
               u == R(x) * Character
               v == R(y) * Character
    <2>5. x \in Int /\ y \in Int /\ p[i] = x - y /\ cells[i] = R(x) - R(y)
        <3>1. i \in 0..5 /\ i - 1 \in 0..5 /\ i \in 1..6
            OBVIOUS
        <3>2. p[i] \in Int /\ S0(i) = S0(i - 1) + p[i]
            BY <1>1, <1>9
        <3>3. S0(i) \in Int /\ S0(i - 1) \in Int /\ cells[i] = R(S0(i)) - R(S0(i - 1))
            BY <1>19, <2>4, <3>1
        <3> QED BY <3>2, <3>3
    <2> HIDE DEF x, y
    <2>6. /\ u \in Int /\ u <= x + h /\ u + Character > x + h
          /\ v \in Int /\ v <= y + h /\ v + Character > y + h
          /\ R(x) \in Int /\ R(y) \in Int
        BY <1>15, <2>5
    <2>7. cells[i] * Character = u - v
        BY <1>5, <2>5, <2>6
    <2> HIDE DEF u, v
    <2>8. (u - v) - (x - y) \in (1 - Character)..(Character - 1)
        BY <1>5, <1>8, <2>5, <2>6
    <2>9. cells[i] * Character - p[i] = (u - v) - (x - y)
        BY <2>5, <2>7
    <2> QED BY <2>8, <2>9
<1>25. band.over > 0 <=> excess >= Character - h
    <2> DEFINE x == IF 0 >= used - DayTicks THEN 0 ELSE used - DayTicks
    <2>1. List!Max({0, used - DayTicks}) = x
        <3>1. used - DayTicks \in Int /\ 0 \in Int
            BY <1>5, <1>22
        <3> QED BY <3>1, MaxOfTwo, ListCounts
    <2>2. band.over = R(x)
        <3>1. band.over = R(List!Max({0, used - DayTicks}))
            BY <1>3 DEF used, R
        <3> HIDE DEF x
        <3> QED BY <2>1, <3>1
    <2>3. CASE excess <= 0
        <3>1. x = 0
            BY <1>5, <1>22, <1>23, <2>3
        <3>2. band.over = 0
            BY <1>7, <2>2, <3>1
        <3>3. ~(excess >= Character - h)
            BY <1>5, <1>8, <1>23, <2>3
        <3> QED BY <3>2, <3>3
    <2>4. CASE excess > 0
        <3>1. x = excess
            <4>1. used - DayTicks = excess
                BY <1>5, <1>22, <1>23, <2>4
            <4> QED BY <1>23, <2>4, <4>1
        <3>2. band.over = R(excess)
            BY <2>2, <3>1
        <3> DEFINE a == R(excess)
                   u == a * Character
        <3>3. a \in Int /\ u \in Int /\ u <= excess + h /\ u + Character > excess + h
            BY <1>15, <1>23
        <3>4. (0 < a <=> 0 * Character + Character <= u) /\ (a <= 0 <=> u <= 0 * Character)
            BY <1>5, <3>3, MultiplesInOrder
        <3>5. 0 * Character = 0
            BY <1>5
        <3> HIDE DEF a, u
        <3>6. (0 < a <=> Character <= u) /\ (a <= 0 <=> u <= 0)
            BY <1>5, <3>4, <3>5
        <3>7. 0 < a <=> excess >= Character - h
            BY <1>5, <1>8, <1>23, <3>3, <3>6
        <3>8. band.over = a
            BY <3>2 DEF a
        <3> QED BY <3>3, <3>7, <3>8
    <2>5. excess <= 0 \/ excess > 0
        BY <1>23
    <2> QED BY <2>3, <2>4, <2>5
<1>26. /\ List!SumTo(band.cells, 6) = DayTicks \div Character
       /\ \A i \in 1..6 : band.cells[i] >= 0
       /\ excess <= 0 => \A i \in 1..5 : band.cells[i] * Character - p[i]
                                              \in (1 - Character)..(Character - 1)
       /\ band.over > 0 <=> excess >= Character - Character \div 2
    BY <1>4, <1>20, <1>21, <1>24, <1>25 DEF K, h
<1> QED BY <1>26 DEF band, p, excess

-----------------------------------------------------------------------------
(***************************************************************************)
(* What is selected                                                        *)
(***************************************************************************)
(* Some days from today there is one weekday to ask for, but for today.    *)
LEMMA WeekHasParts ==
    ASSUME List!Assumption, ListedWorld
    PROVE  List!WeekIsParted
<1> SUFFICES ASSUME NEW e \in List!Pieces, List!Ahead(e) \in 0..7
             PROVE  List!Cardinality({d \in 0..6 : List!Selected([is |-> "weekday", day |-> d], e)})
                        = IF List!Selected([is |-> "today"], e) THEN 0 ELSE 1
    BY DEF List!WeekIsParted
<1> DEFINE a == List!Ahead(e)
           w == List!Weekday(List!Today)
           T == {d \in 0..6 : List!Selected([is |-> "weekday", day |-> d], e)}
           c == IF w + a < 7 THEN w + a ELSE w + a - 7
           m(d) == (d - w) % 7
<1>1. a \in 0..7 /\ a \in Int
    OBVIOUS
<1>2. w \in 0..6
    <2>1. List!Today \in Int
        BY ListDates DEF List!Today, ListedWorld
    <2> QED BY <2>1 DEF List!Weekday
<1>3. List!Selected([is |-> "today"], e) <=> a = 0
    BY DEF List!Selected
<1>4. ASSUME NEW d \in 0..6
      PROVE  List!Selected([is |-> "weekday", day |-> d], e) <=> a = (IF m(d) = 0 THEN 7 ELSE m(d))
    BY DEF List!Selected
<1> HIDE DEF a, w
<1>5. \A d \in 0..6 : m(d) = IF d >= w THEN d - w ELSE d - w + 7
    BY <1>2
<1>6. \A d \in 0..6 : d \in T <=> a = (IF m(d) = 0 THEN 7 ELSE m(d))
    <2> HIDE DEF m
    <2> QED BY <1>4
<1>7. T \subseteq 0..6
    OBVIOUS
<1> HIDE DEF T, m
<1>8. CASE a = 0
    <2>1. \A d \in 0..6 : d \notin T
        <3> TAKE d \in 0..6
        <3>1. m(d) \in 0..6
            BY <1>2, <1>5
        <3> QED BY <1>6, <1>8, <3>1
    <2>2. T = {}
        BY <1>7, <2>1
    <2> QED BY <1>3, <1>8, <2>2, FS_EmptySet, ListCounts DEF T
<1>9. CASE a # 0
    <2>1. c \in 0..6 /\ a \in 1..7
        BY <1>1, <1>2, <1>9
    <2>2. \A d \in 0..6 : d \in T <=> d = c
        <3> TAKE d \in 0..6
        <3>1. m(d) = IF d >= w THEN d - w ELSE d - w + 7
            BY <1>5
        <3>2. d \in T <=> a = (IF m(d) = 0 THEN 7 ELSE m(d))
            BY <1>6
        <3>3. a = (IF m(d) = 0 THEN 7 ELSE m(d)) <=> d = c
            BY <1>2, <2>1, <3>1
        <3> QED BY <3>2, <3>3
    <2> HIDE DEF c
    <2>3. T = {c}
        BY <1>7, <2>1, <2>2
    <2> QED BY <1>3, <1>9, <2>3, FS_Singleton, ListCounts DEF T
<1> QED BY <1>8, <1>9

-----------------------------------------------------------------------------
(***************************************************************************)
(* What the calendar counts                                                *)
(***************************************************************************)
(* The days of a calendar that has all of them count all the work there is.*)
LEMMA DaysHaveAllWork ==
    ASSUME List!Assumption, ListedWorld, IsCalendar(days, List!Pieces), Len(days) < SummaryDays
    PROVE  List!SumFunction([k \in DOMAIN days |-> days[k].work])
               = List!SumFunction([t \in DOMAIN world.plan |-> world.plan[t].work])
<1> DEFINE n == Len(days)
           S == List!Pieces
           L == LengthOf(S)
           T == 1..n
           g == [k \in DOMAIN days |-> days[k].work]
           p == [e \in S |-> CHOOSE k \in T : days[k].date = List!DateOf(e.from)]
           h == PartSums(L, S, p, T)
<1>1. /\ n \in Nat /\ DOMAIN days = T /\ n < SummaryDays
      /\ \A k \in T : days[k].work \in Nat /\ days[k].work = List!WorkOf(OnDate(S, days[k].date))
                      /\ days[k].date \in Int
      /\ \A j, k \in T : j < k => days[j].date < days[k].date
      /\ \A t \in DatesOf(S) : \E k \in T : days[k].date = t
    <2>1. n \in Nat /\ n < SummaryDays /\ SummaryDays \in Nat
        BY ListNumbers DEF IsCalendar
    <2>2. n # SummaryDays
        BY <2>1
    <2>3. \A k \in T : IsDay(days[k])
        BY DEF IsCalendar
    <2> QED BY <2>1, <2>2, <2>3 DEF IsCalendar, IsDay
<1>2. /\ IsFiniteSet(S) /\ \A e \in S : IsPiece(e)
      /\ SumOver(L, S) = SumOver(WorkOfTasks(world.plan), DOMAIN world.plan)
    BY PiecesAreOfPlan
<1>3. IsFiniteSet(T)
    BY <1>1, FS_Interval
<1>4. \A j, k \in T : days[j].date = days[k].date => j = k
    <2> TAKE j, k \in T
    <2>1. j \in Int /\ k \in Int /\ days[j].date \in Int /\ days[k].date \in Int
        BY <1>1
    <2>2. j < k \/ k < j \/ j = k
        BY <2>1
    <2> QED BY <1>1, <2>1, <2>2
<1>5. TakeTime(S)
    BY <1>2 DEF TakeTime, IsPiece
<1>6. \A e \in S : L[e] \in Int
    BY <1>2 DEF LengthOf, IsPiece
<1> HIDE DEF n, S, L, T
<1>7. ASSUME NEW e \in S PROVE p[e] \in T /\ days[p[e]].date = List!DateOf(e.from)
    <2>1. List!DateOf(e.from) \in DatesOf(S)
        BY DEF DatesOf
    <2>2. \E k \in T : days[k].date = List!DateOf(e.from)
        BY <1>1, <2>1
    <2> QED BY <2>2
<1> HIDE DEF p
<1>8. SumOver(L, S) = SumOver(h, T)
    BY <1>2, <1>3, <1>6, <1>7, SumOfParts
<1>9. ASSUME NEW k \in T PROVE h[k] \in Int /\ h[k] = g[k]
    <2> DEFINE R == {e \in S : p[e] = k}
    <2>1. R = OnDate(S, days[k].date)
        <3>1. \A e \in S : p[e] = k <=> List!DateOf(e.from) = days[k].date
            BY <1>4, <1>7
        <3> QED BY <3>1 DEF OnDate
    <2>2. h[k] = SumOver(L, R)
        BY DEF PartSums
    <2>3. R \subseteq S
        OBVIOUS
    <2> HIDE DEF R
    <2>4. List!WorkOf(R) = SumOver(L, R) /\ List!WorkOf(R) \in Nat
        BY <1>5, <2>3, WorkOfPart DEF L
    <2>5. g[k] = List!WorkOf(R)
        BY <1>1, <2>1
    <2> QED BY <2>2, <2>4, <2>5
<1> HIDE DEF h
<1>10. SumOver(h, T) = SumOver(g, T)
    <2> HIDE DEF g
    <2> QED BY <1>3, <1>9, SumOfTheSame
<1>11. List!SumFunction(g) = SumOver(g, T)
    <2>1. DOMAIN g = T
        BY <1>1
    <2> HIDE DEF g
    <2> QED BY <2>1, ListSums
<1>12. List!SumFunction([t \in DOMAIN world.plan |-> world.plan[t].work])
           = SumOver(WorkOfTasks(world.plan), DOMAIN world.plan)
    <2> DEFINE w == [t \in DOMAIN world.plan |-> world.plan[t].work]
    <2>1. w = WorkOfTasks(world.plan) /\ DOMAIN w = DOMAIN world.plan
        BY DEF WorkOfTasks
    <2> HIDE DEF w
    <2>2. List!SumFunction(w) = SumOver(w, DOMAIN w)
        BY ListSums
    <2> QED BY <2>1, <2>2 DEF w
<1> QED BY <1>2, <1>8, <1>10, <1>11, <1>12

\* The calendar says the work of all tasks: no work is lost between the days.
LEMMA CalendarCounts ==
    ASSUME List!Assumption, ListedWorld, NEW S, IsCalendar(days, S),
           asked # << >> /\ asked.pattern.is \in {"all", "leaves"} => S = List!Pieces
    PROVE  List!CalendarCountsAll
<1>1. ASSUME List!Asked({"all", "leaves", "calendar"}), Len(days) < SummaryDays, asked.pattern.is # "calendar"
      PROVE  List!SumFunction([k \in DOMAIN days |-> days[k].work])
                 = List!SumFunction([t \in DOMAIN world.plan |-> world.plan[t].work])
    <2>1. S = List!Pieces
        BY <1>1 DEF List!Asked, List!Shown
    <2> QED BY <1>1, <2>1, DaysHaveAllWork
<1>2. \A k \in DOMAIN days : days[k].routine <= days[k].work /\ days[k].count > 0
    BY DEF IsCalendar, IsDay
<1>3. \A j, k \in DOMAIN days : j < k => days[j].date < days[k].date
    BY DEF IsCalendar
<1> QED BY <1>1, <1>2, <1>3 DEF List!CalendarCountsAll

-----------------------------------------------------------------------------
(***************************************************************************)
(* The rows                                                                *)
(***************************************************************************)
\* Pieces of work, each once and none before one that begins earlier.
InTurn(s, n) ==
    /\ n \in Nat /\ DOMAIN s = 1..n /\ Len(s) = n
    /\ \A i \in 1..n : s[i] \in List!Pieces
    /\ \A i, j \in 1..n : s[i] = s[j] => i = j
    /\ \A i, j \in 1..n : i < j => s[i].from <= s[j].from

\* The pieces in reach are listed once each, by when they begin.
LEMMA ConsideredInTurn ==
    ASSUME List!Assumption, ListedWorld, NEW p, NEW s, s = List!Considered(p)
    PROVE  InTurn(s, Cardinality(ReachedBy(p))) /\ Has(s) = ReachedBy(p) /\ ReachedBy(p) \subseteq List!Pieces
<1> DEFINE n == Cardinality(ReachedBy(p))
<1>1. /\ n \in Nat /\ DOMAIN s = 1..n /\ s \in Seq(ReachedBy(p)) /\ Len(s) = n
      /\ Has(s) = ReachedBy(p) /\ HasOnce(s)
      /\ \A i, j \in 1..n : i < j => s[i].from <= s[j].from
    BY ConsideredIs
<1>2. ReachedBy(p) \subseteq List!Pieces
    BY DEF ReachedBy
<1>3. \A i \in 1..n : s[i] \in Has(s)
    BY <1>1 DEF Has
<1> QED BY <1>1, <1>2, <1>3 DEF InTurn, HasOnce

(* Up to some piece the time is taken by one before it, or it is now.      *)
LEMMA CursorIs ==
    ASSUME List!Assumption, ListedWorld, NEW s, NEW n, InTurn(s, n), NEW i \in 1..n
    PROVE  LET c == List!Cursor(s, i)
           IN  /\ c \in Int /\ world.now <= c
               /\ \A j \in 1..(i - 1) : s[j].to <= c
               /\ c = world.now \/ \E j \in 1..(i - 1) : s[j].to = c
<1> DEFINE I == 1..(i - 1)
           to == [j \in I |-> s[j].to]
           X == {world.now} \cup {to[j] : j \in I}
           c == List!Cursor(s, i)
<1>1. n \in Nat /\ i \in Int /\ world.now \in Int /\ \A j \in I : j \in 1..n
    BY DEF InTurn, ListedWorld
<1>2. \A j \in I : to[j] \in Int /\ to[j] = s[j].to
    <2> TAKE j \in I
    <2>1. s[j] \in List!Pieces
        BY <1>1 DEF InTurn
    <2> QED BY <2>1, PiecesAreOfPlan DEF IsPiece
<1>3. c = Max(X)
    <2>1. X = {world.now} \cup {s[j].to : j \in I}
        BY <1>2
    <2> QED BY <2>1, ListCounts DEF List!Cursor
<1>4. IsFiniteSet(X) /\ X # {} /\ X \subseteq Int
    <2>1. IsFiniteSet(I)
        BY <1>1, FS_Interval
    <2> HIDE DEF I, to
    <2>2. IsFiniteSet({to[j] : j \in I})
        BY <2>1, ImageOfFinite
    <2>3. IsFiniteSet({world.now})
        BY FS_Singleton
    <2>4. IsFiniteSet(X)
        BY <2>2, <2>3, FS_Union
    <2> QED BY <1>1, <1>2, <2>4
<1> HIDE DEF X
<1>5. c \in X /\ \A y \in X : c >= y
    BY <1>3, <1>4, MaxIsGreatest
<1> HIDE DEF c, to
<1>6. c \in Int /\ world.now <= c
    BY <1>1, <1>4, <1>5 DEF X
<1>7. \A j \in I : s[j].to <= c
    BY <1>2, <1>5, <1>6 DEF X
<1>8. c = world.now \/ \E j \in I : s[j].to = c
    BY <1>2, <1>5 DEF X
<1> QED BY <1>6, <1>7, <1>8 DEF c

\* A row of a piece, marked or not, and the row of a gap.
RowOf(e, u) == [gap |-> FALSE, task |-> e.task, from |-> e.from, to |-> e.to, up |-> u]
GapOf(a, b) == [gap |-> TRUE, task |-> NoRow, from |-> a, to |-> b, up |-> FALSE]

\* Pieces as rows, and those of them that are in Up as marked ones.
MarkedAs(A, Up) == {RowOf(e, e \in Up) : e \in A}
GapsOf(s, I) == {GapOf(List!Cursor(s, i), s[i].from) : i \in I}

\* The rows of the pieces P and of the gaps before the places in I of s.
AreRows(L, P, Up, s, I) ==
    /\ L \in Seq(Has(L)) /\ HasOnce(L)
    /\ Has(L) = MarkedAs(P, Up) \cup GapsOf(s, I)

\* The gaps that are shown, and what is selected.
ShownGaps(p, s) == IF p.is = "minutes" THEN {} ELSE {i \in DOMAIN s : List!GapIsShown(p, s, i)}
ShownPieces(p, s) ==
    IF p.is = "minutes" THEN {e \in Has(s) : List!Row(e) \in Has(List!Rows(p, s))}
    ELSE {e \in Has(s) : List!Selected(p, e)}

(* Gaps are as long as a minute, and they begin one after the other.       *)
LEMMA GapsAre ==
    ASSUME List!Assumption, ListedWorld, NEW s, NEW n, InTurn(s, n), NEW p, NEW i \in 1..n,
           List!GapIsShown(p, s, i)
    PROVE  /\ List!Cursor(s, i) \in Int /\ s[i].from \in Int /\ List!Cursor(s, i) < s[i].from
           /\ \A j \in 1..n : i < j => List!Cursor(s, i) < List!Cursor(s, j)
<1>1. n \in Nat /\ s[i] \in List!Pieces
    BY DEF InTurn
<1>2. s[i].from \in Int /\ s[i].to \in Int /\ s[i].from <= s[i].to
    BY <1>1, PiecesAreOfPlan DEF IsPiece
<1> DEFINE c(j) == List!Cursor(s, j)
<1>3. c(i) \in Int
    BY CursorIs
<1>4. s[i].from - c(i) >= Minute /\ Minute \in Nat /\ Minute # 0
    BY ListNumbers DEF List!GapIsShown
<1>5. ASSUME NEW j \in 1..n, i < j PROVE c(i) < c(j)
    <2>1. c(j) \in Int /\ \A m \in 1..(j - 1) : s[m].to <= c(j)
        BY CursorIs
    <2>2. i \in 1..(j - 1)
        BY <1>1, <1>5
    <2>3. s[i].to <= c(j)
        BY <2>1, <2>2
    <2> HIDE DEF c
    <2> QED BY <1>2, <1>3, <1>4, <2>1, <2>3
<1>6. c(i) < s[i].from
    <2> HIDE DEF c
    <2> QED BY <1>2, <1>3, <1>4
<1> QED BY <1>2, <1>3, <1>5, <1>6

\* The sequence of one element, and of none.
LEMMA OneHas ==
    ASSUME NEW T, NEW x \in T
    PROVE  /\ <<x>> \in Seq(T) /\ Has(<<x>>) = {x} /\ HasOnce(<<x>>)
           /\ << >> \in Seq(T) /\ Has(<< >>) = {} /\ HasOnce(<< >>)
BY DEF Has, HasOnce

(* What is flattened is what its parts have.                               *)
LEMMA FlattenHas ==
    ASSUME NEW T, NEW n \in Nat, NEW seqs \in Seq(Seq(T)), Len(seqs) = n,
           \A i \in 1..n : HasOnce(seqs[i]),
           \A i, j \in 1..n : i # j => Has(seqs[i]) \cap Has(seqs[j]) = {},
           NEW L, L = List!FlattenSeq(seqs)
    PROVE  L \in Seq(T) /\ HasOnce(L) /\ Has(L) = UNION {Has(seqs[j]) : j \in 1..n}
<1>1. DOMAIN seqs = 1..n /\ \A i \in 1..n : seqs[i] \in Seq(T)
    OBVIOUS
<1>2. CASE n = 0
    <2>1. L = seqs
        BY <1>2 DEF List!FlattenSeq
    <2>2. L = << >> /\ DOMAIN L = {}
        BY <1>1, <1>2, <2>1
    <2>3. L \in Seq(T)
        BY <2>2
    <2>4. HasOnce(L) /\ Has(L) = {}
        BY <2>2 DEF Has, HasOnce
    <2>5. 1..n = {}
        BY <1>2
    <2> QED BY <2>3, <2>4, <2>5
<1>3. CASE n # 0
    <2>0. n \in Nat \ {0}
        BY <1>3
    <2> DEFINE IsIt(g) == g = [i \in 1..n |-> IF i = 1 THEN seqs[i] ELSE g[i - 1] \o seqs[i]]
               f == CHOOSE g : IsIt(g)
    <2>1. \E g : IsJoin(g, seqs, n)
        BY <1>1, <2>0, JoinsExist
    <2>2. IsIt(f)
        <3>1. \E g : IsIt(g)
            BY <2>1 DEF IsJoin
        <3> HIDE DEF IsIt
        <3> QED BY <3>1
    <2>3. L = f[n]
        BY <2>0 DEF List!FlattenSeq
    <2> HIDE DEF f
    <2>4. Joins(f, seqs, n)
        BY <2>2 DEF Joins
    <2> HIDE DEF IsIt
    <2>5. f[n] \in Seq(T) /\ Has(f[n]) = UNION {Has(seqs[j]) : j \in 1..n}
        BY <1>1, <2>0, <2>4, ManyJoined
    <2>6. HasOnce(f[n])
        BY <1>1, <2>0, <2>4, ManyJoined
    <2> QED BY <2>3, <2>5, <2>6
<1> QED BY <1>2, <1>3

\* A sequence is one of what is in it.
LEMMA SeqOfHas ==
    ASSUME NEW T, NEW L \in Seq(T)
    PROVE  L \in Seq(Has(L)) /\ Has(L) \subseteq T
<1>1. /\ Len(L) \in Nat /\ DOMAIN L = 1..Len(L) /\ \A i \in 1..Len(L) : L[i] \in T
      /\ L = [i \in 1..Len(L) |-> L[i]]
    OBVIOUS
<1>2. \A i \in 1..Len(L) : L[i] \in Has(L)
    BY <1>1 DEF Has
<1>3. L \in [1..Len(L) -> Has(L)]
    BY <1>1, <1>2
<1>4. L \in Seq(Has(L))
    BY <1>1, <1>3
<1>5. Has(L) \subseteq T
    BY <1>1 DEF Has
<1> QED BY <1>4, <1>5

(* For so many minutes one piece is offered, or none.                      *)
LEMMA OfferIs ==
    ASSUME List!Assumption, ListedWorld, NEW s, NEW n, InTurn(s, n), NEW p
    PROVE  \/ List!Offer(p, s) = << >>
           \/ \E i \in 1..n : List!Offer(p, s) = <<List!Row(s[i])>>
<1> DEFINE CanDo(i) == /\ s[i].from <= List!Tomorrow /\ List!Task(s[i]).start <= world.now
                      /\ List!Rank(s[i]) = 0 /\ ~List!Task(s[i]).waits
                      /\ 0 < List!Work(s[i]) /\ List!Work(s[i]) < p.minutes * Minute
           fits == {i \in DOMAIN s : CanDo(i)}
           biggest == {i \in fits : \A j \in fits : List!Work(s[j]) <= List!Work(s[i])}
           w == [i \in fits |-> List!Work(s[i])]
<1>1. List!Offer(p, s) = IF fits = {} THEN << >> ELSE <<List!Row(s[List!Min(biggest)])>>
    BY DEF List!Offer
<1> HIDE DEF CanDo
<1>2. n \in Nat /\ DOMAIN s = 1..n /\ fits \subseteq 1..n
    BY DEF InTurn
<1>3. \A i \in fits : w[i] \in Int /\ w[i] = List!Work(s[i])
    <2> TAKE i \in fits
    <2>1. s[i] \in List!Pieces
        BY <1>2 DEF InTurn
    <2> QED BY <2>1, PiecesAreOfPlan DEF IsPiece
<1>4. biggest \subseteq fits
    OBVIOUS
<1>5. ASSUME fits # {} PROVE biggest # {}
    <2>1. IsFiniteSet(fits)
        <3>1. IsFiniteSet(1..n)
            BY <1>2, FS_Interval
        <3> HIDE DEF fits
        <3> QED BY <1>2, <3>1, FS_Subset
    <2> DEFINE X == {w[i] : i \in fits}
    <2>2. IsFiniteSet(X) /\ X # {} /\ X \subseteq Int
        <3>1. X # {} /\ X \subseteq Int
            BY <1>3, <1>5
        <3> HIDE DEF w, fits
        <3> QED BY <2>1, <3>1, ImageOfFinite
    <2>3. PICK x \in X : \A y \in X : x >= y
        <3> HIDE DEF X
        <3> QED BY <2>2, MaxIsGreatest
    <2>4. PICK i \in fits : w[i] = x
        OBVIOUS
    <2>5. ASSUME NEW j \in fits PROVE List!Work(s[j]) <= List!Work(s[i])
        <3>1. w[j] \in X /\ w[j] \in Int /\ w[i] \in Int
            BY <1>3
        <3> HIDE DEF X, w
        <3>2. x >= w[j]
            BY <2>3, <3>1
        <3> QED BY <1>3, <2>4, <3>1, <3>2
    <2> HIDE DEF fits
    <2> QED BY <2>5
<1>6. ASSUME fits # {} PROVE List!Min(biggest) \in 1..n
    <2>1. biggest \in SUBSET Nat /\ biggest \subseteq Int /\ biggest # {} /\ biggest \subseteq 1..n
        <3> HIDE DEF biggest, fits
        <3> QED BY <1>2, <1>4, <1>5, <1>6
    <2> HIDE DEF biggest, fits
    <2>2. PICK l \in biggest : \A j \in biggest : l <= j
        BY <2>1, LeastNatural
    <2>3. Min(biggest) = l
        BY <2>1, <2>2, MinIs
    <2> QED BY <2>1, <2>3, ListCounts
<1> HIDE DEF biggest, fits
<1> QED BY <1>1, <1>6

\* A row that is not marked is the row of its piece.
LEMMA UnmarkedRows ==
    ASSUME NEW P
    PROVE  {RowOf(e, e \in {}) : e \in P} = {List!Row(e) : e \in P}
<1>1. ASSUME NEW e \in P PROVE RowOf(e, e \in {}) = List!Row(e)
    <2> DEFINE u == e \in {}
    <2>1. u = FALSE
        OBVIOUS
    <2> HIDE DEF u
    <2>2. RowOf(e, u) = RowOf(e, FALSE)
        BY <2>1, Zenon
    <2>3. RowOf(e, FALSE) = List!Row(e)
        BY DEF RowOf, List!Row
    <2> QED BY <2>2, <2>3 DEF u
<1> QED BY <1>1

\* Asked what fits some minutes, the list has the piece offered, or nothing.
LEMMA OfferedRows ==
    ASSUME List!Assumption, ListedWorld, NEW s, NEW n, InTurn(s, n), NEW p, p.is = "minutes"
    PROVE  AreRows(List!Rows(p, s), ShownPieces(p, s), {}, s, ShownGaps(p, s))
<1> DEFINE L == List!Rows(p, s)
           P == ShownPieces(p, s)
           I == ShownGaps(p, s)
<1>1. L = List!Offer(p, s) /\ I = {} /\ P = {e \in Has(s) : List!Row(e) \in Has(L)}
    BY DEF List!Rows, ShownGaps, ShownPieces
<1> HIDE DEF L, P, I
<1>2. {RowOf(e, e \in {}) : e \in P} = {List!Row(e) : e \in P}
    BY UnmarkedRows
<1>3. {GapOf(List!Cursor(s, i), s[i].from) : i \in I} = {}
    BY <1>1
<1>4. L \in Seq(Has(L)) /\ HasOnce(L) /\ Has(L) = {List!Row(e) : e \in P}
    <2>1. CASE L = << >>
        <3>1. DOMAIN L = {}
            BY <2>1
        <3>2. L \in Seq(Has(L))
            BY <2>1
        <3>3. HasOnce(L) /\ Has(L) = {}
            BY <3>1 DEF HasOnce, Has
        <3>4. P = {}
            BY <1>1, <3>3
        <3> QED BY <3>2, <3>3, <3>4
    <2>2. ASSUME NEW i \in 1..n, L = <<List!Row(s[i])>>
          PROVE  L \in Seq(Has(L)) /\ HasOnce(L) /\ Has(L) = {List!Row(e) : e \in P}
        <3> DEFINE x == List!Row(s[i])
        <3>1. Has(L) = {x} /\ HasOnce(L) /\ L \in Seq({x})
            <4> HIDE DEF x
            <4>1. L = <<x>> /\ x \in {x}
                BY <2>2 DEF x
            <4> QED BY <4>1, OneHas
        <3>2. s[i] \in Has(s)
            BY DEF Has, InTurn
        <3>3. s[i] \in P
            BY <1>1, <3>1, <3>2
        <3>4. \A e \in P : List!Row(e) = x
            BY <1>1, <3>1
        <3>5. {List!Row(e) : e \in P} = {x}
            <4> HIDE DEF P
            <4> QED BY <3>3, <3>4
        <3> HIDE DEF x
        <3> QED BY <3>1, <3>5
    <2> QED BY <1>1, <2>1, <2>2, OfferIs
<1>5. Has(L) = {RowOf(e, e \in {}) : e \in P} \cup {GapOf(List!Cursor(s, i), s[i].from) : i \in I}
    BY <1>2, <1>3, <1>4
<1> QED BY <1>4, <1>5 DEF AreRows, MarkedAs, GapsOf, L, P, I

(* Otherwise the rows are those of what is selected, and the gaps.         *)
LEMMA SelectedRows ==
    ASSUME List!Assumption, ListedWorld, NEW s, NEW n, InTurn(s, n), NEW p, p.is # "minutes"
    PROVE  AreRows(List!Rows(p, s), ShownPieces(p, s), {}, s, ShownGaps(p, s))
<1> DEFINE L == List!Rows(p, s)
           P == ShownPieces(p, s)
           I == ShownGaps(p, s)
           gap(i) == List!Gap(s, i)
           row(i) == List!Row(s[i])
           T == {gap(i) : i \in 1..n} \cup {row(i) : i \in 1..n}
           g(i) == IF List!GapIsShown(p, s, i) THEN <<gap(i)>> ELSE << >>
           r(i) == IF List!Selected(p, s[i]) THEN <<row(i)>> ELSE << >>
           seqs == [i \in 1..n |-> g(i) \o r(i)]
           Of(i) == Has(seqs[i])
<1>1. n \in Nat /\ DOMAIN s = 1..n /\ (\A i \in 1..n : s[i] \in List!Pieces)
      /\ \A i, j \in 1..n : s[i] = s[j] => i = j
    BY DEF InTurn
<1>2. L = List!FlattenSeq(seqs)
    BY <1>1 DEF List!Rows
<1>3. I = {i \in 1..n : List!GapIsShown(p, s, i)} /\ P = {e \in Has(s) : List!Selected(p, e)}
    BY <1>1 DEF ShownGaps, ShownPieces
<1>4. \A i \in 1..n : gap(i).gap = TRUE /\ row(i).gap = FALSE
    BY DEF List!Gap, List!Row
<1>5. ASSUME NEW i \in 1..n, NEW j \in 1..n, row(i) = row(j) PROVE i = j
    <2>1. row(i).task = s[i].task /\ row(i).from = s[i].from /\ row(j).task = s[j].task /\ row(j).from = s[j].from
        BY DEF List!Row
    <2>2. s[i].task = s[j].task /\ s[i].from = s[j].from
        <3> HIDE DEF row
        <3> QED BY <1>5, <2>1
    <2>3. s[i] = s[j]
        BY <1>1, <2>2, PiecesAreOfPlan
    <2> QED BY <1>1, <2>3
<1>6. ASSUME NEW i \in I, NEW j \in I, gap(i) = gap(j) PROVE i = j
    <2> DEFINE c(k) == List!Cursor(s, k)
    <2>1. gap(i).from = c(i) /\ gap(j).from = c(j)
        BY DEF List!Gap
    <2>2. c(i) = c(j)
        <3> HIDE DEF gap, c
        <3> QED BY <1>6, <2>1
    <2>3. i \in 1..n /\ j \in 1..n /\ List!GapIsShown(p, s, i) /\ List!GapIsShown(p, s, j)
        BY <1>3
    <2>4. c(i) \in Int /\ c(j) \in Int /\ (i < j => c(i) < c(j)) /\ (j < i => c(j) < c(i))
        BY <2>3, GapsAre
    <2> HIDE DEF c
    <2>5. ~(i < j) /\ ~(j < i)
        BY <2>2, <2>4
    <2> QED BY <1>1, <2>3, <2>5
<1> HIDE DEF L, I, P, gap, row
<1>7. ASSUME NEW i \in 1..n
      PROVE  /\ seqs[i] \in Seq(T) /\ HasOnce(seqs[i])
             /\ \A x : x \in Of(i) <=> \/ i \in I /\ x = gap(i)
                                       \/ List!Selected(p, s[i]) /\ x = row(i)
    <2>1. gap(i) \in T /\ row(i) \in T
        OBVIOUS
    <2> HIDE DEF T
    <2>2. g(i) \in Seq(T) /\ HasOnce(g(i)) /\ Has(g(i)) = IF i \in I THEN {gap(i)} ELSE {}
        <3>1. CASE List!GapIsShown(p, s, i)
            <4>1. g(i) = <<gap(i)>> /\ i \in I
                BY <1>3, <3>1
            <4> HIDE DEF g
            <4> QED BY <2>1, <4>1, OneHas
        <3>2. CASE ~List!GapIsShown(p, s, i)
            <4>1. g(i) = << >> /\ i \notin I
                BY <1>3, <3>2
            <4> HIDE DEF g
            <4> QED BY <2>1, <4>1, OneHas
        <3> QED BY <3>1, <3>2
    <2>3. r(i) \in Seq(T) /\ HasOnce(r(i)) /\ Has(r(i)) = IF List!Selected(p, s[i]) THEN {row(i)} ELSE {}
        <3>1. CASE List!Selected(p, s[i])
            <4>1. r(i) = <<row(i)>>
                BY <3>1
            <4> HIDE DEF r
            <4> QED BY <2>1, <3>1, <4>1, OneHas
        <3>2. CASE ~List!Selected(p, s[i])
            <4>1. r(i) = << >>
                BY <3>2
            <4> HIDE DEF r
            <4> QED BY <2>1, <3>2, <4>1, OneHas
        <3> QED BY <3>1, <3>2
    <2>4. gap(i) # row(i)
        BY <1>4
    <2>5. Has(g(i)) \cap Has(r(i)) = {}
        <3> HIDE DEF g, r
        <3> QED BY <2>2, <2>3, <2>4
    <2>6. seqs[i] = g(i) \o r(i)
        OBVIOUS
    <2> HIDE DEF g, r, seqs
    <2>7. seqs[i] \in Seq(T) /\ Has(seqs[i]) = Has(g(i)) \cup Has(r(i)) /\ HasOnce(seqs[i])
        BY <2>2, <2>3, <2>5, <2>6, JoinedHas
    <2>8. \A x : x \in Has(seqs[i]) <=> \/ i \in I /\ x = gap(i)
                                        \/ List!Selected(p, s[i]) /\ x = row(i)
        BY <2>2, <2>3, <2>7
    <2> QED BY <2>7, <2>8
<1>8. seqs \in Seq(Seq(T)) /\ Len(seqs) = n
    <2>1. seqs \in [1..n -> Seq(T)]
        <3> HIDE DEF T, g, r
        <3>1. \A i \in 1..n : seqs[i] \in Seq(T)
            BY <1>7
        <3>2. seqs = [i \in 1..n |-> seqs[i]]
            OBVIOUS
        <3> HIDE DEF seqs
        <3> QED BY <3>1, <3>2
    <2> HIDE DEF T, seqs
    <2> QED BY <1>1, <2>1
<1> HIDE DEF T, seqs
<1>9. ASSUME NEW i \in 1..n, NEW j \in 1..n, i # j PROVE Of(i) \cap Of(j) = {}
    <2>1. ASSUME NEW x \in Of(i), x \in Of(j) PROVE FALSE
        <3>1. (i \in I /\ x = gap(i)) \/ x = row(i)
            BY <1>7
        <3>2. (j \in I /\ x = gap(j)) \/ x = row(j)
            BY <1>7, <2>1
        <3>3. CASE i \in I /\ x = gap(i) /\ j \in I /\ x = gap(j)
            BY <1>6, <1>9, <3>3
        <3>4. CASE x = row(i) /\ x = row(j)
            BY <1>5, <1>9, <3>4
        <3>5. CASE x = gap(i) /\ x = row(j)
            BY <1>4, <3>5
        <3>6. CASE x = row(i) /\ x = gap(j)
            BY <1>4, <3>6
        <3> QED BY <3>1, <3>2, <3>3, <3>4, <3>5, <3>6
    <2> QED BY <2>1
<1>10. L \in Seq(T) /\ HasOnce(L) /\ Has(L) = UNION {Has(seqs[j]) : j \in 1..n}
    <2>1. \A i \in 1..n : HasOnce(seqs[i])
        BY <1>7
    <2>2. \A i, j \in 1..n : i # j => Has(seqs[i]) \cap Has(seqs[j]) = {}
        BY <1>9
    <2>3. n \in Nat
        BY <1>1
    <2> QED BY <1>2, <1>8, <2>1, <2>2, <2>3, FlattenHas
<1>11. \A x : x \in Has(L) <=> (\E i \in I : x = gap(i)) \/ (\E e \in P : x = List!Row(e))
    <2> TAKE x
    <2>1. x \in Has(L) <=> \E i \in 1..n : x \in Of(i)
        BY <1>10
    <2>2. \A i \in 1..n : x \in Of(i) <=> (i \in I /\ x = gap(i)) \/ (List!Selected(p, s[i]) /\ x = row(i))
        BY <1>7
    <2>3. (\E e \in P : x = List!Row(e)) <=> \E i \in 1..n : List!Selected(p, s[i]) /\ x = row(i)
        <3>1. \A e : e \in Has(s) <=> \E i \in 1..n : e = s[i]
            BY <1>1 DEF Has
        <3> QED BY <1>3, <3>1 DEF row
    <2>4. I \subseteq 1..n
        BY <1>3
    <2> HIDE DEF Of
    <2> QED BY <2>1, <2>2, <2>3, <2>4
<1>12. L \in Seq(Has(L))
    BY <1>10, SeqOfHas
<1>13. \A i \in I : gap(i) = GapOf(List!Cursor(s, i), s[i].from)
    BY DEF gap, List!Gap, GapOf
<1>14. {RowOf(e, e \in {}) : e \in P} = {List!Row(e) : e \in P}
    BY UnmarkedRows
<1>15. Has(L) = {RowOf(e, e \in {}) : e \in P} \cup {GapOf(List!Cursor(s, i), s[i].from) : i \in I}
    BY <1>11, <1>13, <1>14
<1> QED BY <1>10, <1>12, <1>15 DEF AreRows, MarkedAs, GapsOf, L, P, I

-----------------------------------------------------------------------------
(***************************************************************************)
(* What has to be given up                                                 *)
(***************************************************************************)
\* The pieces of a day that take time, those that give way before each, and
\* the ones that are given up.
CouldGiveUp(P, t) == {e \in P : List!Work(e) > 0 /\ List!DateOf(e.from) = t}
GivesWay(C) == [e \in C |-> {f \in C : List!GivenUpFirst(f, e)}]
UpOn(C, limit) == {e \in C : List!WorkOf(GivesWay(C)[e]) < limit}
UpOf(P, d) == {e \in P : \E k \in DOMAIN d : e \in UpOn(CouldGiveUp(P, d[k].date), d[k].limit)}

(* A row has what its piece has.                                           *)
LEMMA RowIsOf ==
    ASSUME NEW e, NEW u
    PROVE  LET r == RowOf(e, u)
           IN  /\ ~r.gap /\ r.task = e.task /\ r.from = e.from /\ r.to = e.to /\ r.up = u
               /\ List!Work(r) = List!Work(e) /\ List!Task(r) = List!Task(e) /\ List!Rank(r) = List!Rank(e)
BY DEF RowOf, List!Work, List!Task, List!Rank

\* A gap is from its beginning to its end, and never given up.
LEMMA GapIsOf ==
    ASSUME NEW a, NEW b
    PROVE  GapOf(a, b).gap /\ GapOf(a, b).from = a /\ GapOf(a, b).to = b /\ ~GapOf(a, b).up
BY DEF GapOf

\* Rows give way to each other as their pieces do.
LEMMA RowsGiveWay ==
    ASSUME NEW e, NEW f, NEW u, NEW v
    PROVE  List!GivenUpFirst(RowOf(f, v), RowOf(e, u)) <=> List!GivenUpFirst(f, e)
<1> DEFINE key(x) == <<List!Task(x).prio, -x.from, -List!Rank(x), -x.task>>
           comesBefore(k, l) == \E i \in 1..4 : k[i] < l[i] /\ \A j \in 1..(i - 1) : k[j] = l[j]
<1>1. \A x, y : List!GivenUpFirst(x, y) <=> comesBefore(key(x), key(y))
    BY DEF List!GivenUpFirst
<1> HIDE DEF comesBefore
<1>2. \A x, w : key(RowOf(x, w)) = key(x)
    <2> TAKE x, w
    <2> DEFINE r == RowOf(x, w)
    <2>1. r.task = x.task /\ r.from = x.from /\ List!Task(r) = List!Task(x) /\ List!Rank(r) = List!Rank(x)
        BY RowIsOf
    <2> HIDE DEF r
    <2>2. key(r) = key(x)
        BY <2>1
    <2> QED BY <2>2 DEF r
<1> HIDE DEF key
<1> QED BY <1>1, <1>2

(* Rows and pieces are as many, and take the same time.                    *)
LEMMA RowsOfPieces ==
    ASSUME List!Assumption, ListedWorld, NEW A, A \subseteq List!Pieces, NEW Up
    PROVE  /\ IsFiniteSet(MarkedAs(A, Up)) /\ List!WorkOf(MarkedAs(A, Up)) = List!WorkOf(A)
           /\ \A e, f \in A : RowOf(e, e \in Up) = RowOf(f, f \in Up) => e = f
<1> DEFINE T == MarkedAs(A, Up)
           p == [e \in A |-> RowOf(e, e \in Up)]
           f == LengthOf(A)
           g == LengthOf(T)
<1>1. IsFiniteSet(A) /\ \A e \in A : IsPiece(e)
    BY PiecesAreOfPlan, FS_Subset
<1>2. ASSUME NEW x \in A, NEW y \in A, NEW u, NEW v, RowOf(x, u) = RowOf(y, v) PROVE x = y
    <2>1. x.task = y.task /\ x.from = y.from
        BY <1>2, RowIsOf
    <2>2. x \in List!Pieces /\ y \in List!Pieces
        OBVIOUS
    <2> QED BY <2>1, <2>2, PiecesAreOfPlan
<1>3. \A x \in A : p[x] = RowOf(x, x \in Up)
    OBVIOUS
<1>4. T = {p[x] : x \in A}
    BY DEF MarkedAs
<1> HIDE DEF p, T
<1>5. \A x \in A : f[x] \in Int /\ p[x] \in T /\ f[x] = g[p[x]]
    <2> TAKE x \in A
    <2>1. p[x] \in T
        BY <1>4
    <2>2. p[x].to = x.to /\ p[x].from = x.from
        BY <1>3, RowIsOf
    <2>3. f[x] = x.to - x.from /\ g[p[x]] = p[x].to - p[x].from
        BY <2>1 DEF LengthOf
    <2>4. x.to \in Int /\ x.from \in Int
        BY <1>1 DEF IsPiece
    <2> QED BY <2>1, <2>2, <2>3, <2>4
<1>6. \A t \in T : \E x \in A : p[x] = t
    BY <1>4
<1>7. \A x, y \in A : p[x] = p[y] => x = y
    BY <1>2, <1>3
<1> HIDE DEF f, g
<1>8. IsFiniteSet(T) /\ SumOver(f, A) = SumOver(g, T)
    BY <1>1, <1>5, <1>6, <1>7, SumOfPairs
<1>9. List!WorkOf(A) = SumOver(f, A) /\ List!WorkOf(T) = SumOver(g, T)
    BY ListWork DEF f, g
<1> QED BY <1>3, <1>7, <1>8, <1>9 DEF T

(* The rows that could be given up are those of the pieces that could.     *)
LEMMA CandidatesAre ==
    ASSUME NEW P, NEW Up, NEW s, NEW I, NEW R, R = MarkedAs(P, Up) \cup GapsOf(s, I), NEW t
    PROVE  List!GiveUpCandidates(R, t) = MarkedAs(CouldGiveUp(P, t), Up)
<1>1. ASSUME NEW e \in P
      PROVE  /\ ~RowOf(e, e \in Up).gap /\ RowOf(e, e \in Up).from = e.from
             /\ List!Work(RowOf(e, e \in Up)) = List!Work(e)
    BY RowIsOf
<1>2. \A r \in GapsOf(s, I) : r.gap
    BY GapIsOf DEF GapsOf
<1>3. List!GiveUpCandidates(R, t) = {r \in R : ~r.gap /\ List!Work(r) > 0 /\ List!DateOf(r.from) = t}
    BY DEF List!GiveUpCandidates
<1>4. ASSUME NEW r \in R, ~r.gap PROVE \E e \in P : r = RowOf(e, e \in Up)
    BY <1>2, <1>4 DEF MarkedAs
<1>5. ASSUME NEW e \in P PROVE RowOf(e, e \in Up) \in R
    BY DEF MarkedAs
<1>6. ASSUME NEW r \in List!GiveUpCandidates(R, t) PROVE r \in MarkedAs(CouldGiveUp(P, t), Up)
    <2>1. r \in R /\ ~r.gap /\ List!Work(r) > 0 /\ List!DateOf(r.from) = t
        BY <1>3
    <2>2. PICK e \in P : r = RowOf(e, e \in Up)
        BY <1>4, <2>1
    <2>3. e \in CouldGiveUp(P, t)
        BY <1>1, <2>1, <2>2 DEF CouldGiveUp
    <2> QED BY <2>2, <2>3 DEF MarkedAs
<1>7. ASSUME NEW r \in MarkedAs(CouldGiveUp(P, t), Up) PROVE r \in List!GiveUpCandidates(R, t)
    <2>1. PICK e \in CouldGiveUp(P, t) : r = RowOf(e, e \in Up)
        BY DEF MarkedAs
    <2>2. e \in P /\ List!Work(e) > 0 /\ List!DateOf(e.from) = t
        BY DEF CouldGiveUp
    <2>3. r \in R
        BY <1>5, <2>1, <2>2
    <2> QED BY <1>1, <1>3, <2>1, <2>2, <2>3
<1> QED BY <1>6, <1>7

(* What gives way before a row are the rows of what gives way to its piece.*)
LEMMA RowsBefore ==
    ASSUME NEW C, NEW Up, NEW e \in C, NEW u
    PROVE  {r \in MarkedAs(C, Up) : List!GivenUpFirst(r, RowOf(e, u))} = MarkedAs(GivesWay(C)[e], Up)
<1> DEFINE B == GivesWay(C)[e]
           W == {r \in MarkedAs(C, Up) : List!GivenUpFirst(r, RowOf(e, u))}
<1>1. B = {f \in C : List!GivenUpFirst(f, e)}
    BY DEF GivesWay
<1> HIDE DEF B
<1>2. ASSUME NEW r \in W PROVE r \in MarkedAs(B, Up)
    <2>1. PICK f \in C : r = RowOf(f, f \in Up)
        BY DEF MarkedAs
    <2>2. List!GivenUpFirst(f, e)
        BY <2>1, RowsGiveWay
    <2>3. f \in B
        BY <1>1, <2>2
    <2> QED BY <2>1, <2>3 DEF MarkedAs
<1>3. ASSUME NEW r \in MarkedAs(B, Up) PROVE r \in W
    <2>1. PICK f \in B : r = RowOf(f, f \in Up)
        BY DEF MarkedAs
    <2>2. f \in C /\ List!GivenUpFirst(f, e)
        BY <1>1
    <2>3. List!GivenUpFirst(r, RowOf(e, u))
        BY <2>1, <2>2, RowsGiveWay
    <2>4. r \in MarkedAs(C, Up)
        BY <2>1, <2>2 DEF MarkedAs
    <2> QED BY <2>3, <2>4
<1> QED BY <1>2, <1>3 DEF B

(* A row is given up exactly if its piece is.                              *)
LEMMA GivenUpAre ==
    ASSUME List!Assumption, ListedWorld, NEW P, P \subseteq List!Pieces, NEW s, NEW I,
           NEW R, R = MarkedAs(P, {}) \cup GapsOf(s, I), NEW d
    PROVE  /\ \A e \in P : RowOf(e, e \in {}) \in List!GivenUp(R, d) <=> e \in UpOf(P, d)
           /\ \A r \in GapsOf(s, I) : r \notin List!GivenUp(R, d)
<1> DEFINE C(k) == CouldGiveUp(P, d[k].date)
           of(k) == List!GiveUpCandidates(R, d[k].date)
           In(r, k) == r \in of(k) /\ List!WorkOf({q \in of(k) : List!GivenUpFirst(q, r)}) < d[k].limit
<1>1. \A r : r \in List!GivenUp(R, d) <=> \E k \in DOMAIN d : In(r, k)
    <2> DEFINE OfDay(k) ==
                  LET of1 == List!GiveUpCandidates(R, d[k].date)
                  IN  {r \in of1 : List!WorkOf({q \in of1 : List!GivenUpFirst(q, r)}) < d[k].limit}
    <2>1. List!GivenUp(R, d) = UNION {OfDay(k) : k \in DOMAIN d}
        BY DEF List!GivenUp
    <2>2. \A k, r : r \in OfDay(k) <=> In(r, k)
        OBVIOUS
    <2> HIDE DEF OfDay, In
    <2> QED BY <2>1, <2>2
<1>2. ASSUME NEW k PROVE of(k) = MarkedAs(C(k), {})
    BY CandidatesAre
<1>3. ASSUME NEW k PROVE C(k) \subseteq P /\ C(k) \subseteq List!Pieces
    BY DEF CouldGiveUp
<1>4. ASSUME NEW r \in GapsOf(s, I), NEW k PROVE ~In(r, k)
    <2>1. r.gap
        BY GapIsOf DEF GapsOf
    <2>2. r \notin of(k)
        BY <2>1 DEF List!GiveUpCandidates
    <2> QED BY <2>2
<1> HIDE DEF C, of
<1>5. ASSUME NEW e \in P, NEW k
      PROVE  In(RowOf(e, e \in {}), k) <=> e \in UpOn(C(k), d[k].limit)
    <2> DEFINE r == RowOf(e, e \in {})
    <2>1. r \in of(k) <=> e \in C(k)
        <3>1. ASSUME e \in C(k) PROVE r \in of(k)
            BY <1>2, <3>1 DEF MarkedAs
        <3>2. ASSUME r \in of(k) PROVE e \in C(k)
            <4>1. PICK f \in C(k) : r = RowOf(f, f \in {})
                BY <1>2, <3>2 DEF MarkedAs
            <4>2. f \in P
                BY <1>3
            <4>3. e = f
                BY <4>1, <4>2, RowsOfPieces
            <4> QED BY <4>3
        <3> QED BY <3>1, <3>2
    <2>2. ASSUME e \in C(k)
          PROVE  List!WorkOf({q \in of(k) : List!GivenUpFirst(q, r)}) = List!WorkOf(GivesWay(C(k))[e])
        <3>1. {q \in MarkedAs(C(k), {}) : List!GivenUpFirst(q, r)} = MarkedAs(GivesWay(C(k))[e], {})
            BY <2>2, RowsBefore
        <3>2. GivesWay(C(k))[e] \subseteq List!Pieces
            BY <1>3, <2>2 DEF GivesWay
        <3>3. List!WorkOf(MarkedAs(GivesWay(C(k))[e], {})) = List!WorkOf(GivesWay(C(k))[e])
            BY <3>2, RowsOfPieces
        <3> HIDE DEF r
        <3> QED BY <1>2, <3>1, <3>3
    <2> HIDE DEF r
    <2> QED BY <2>1, <2>2 DEF UpOn, r
<1> HIDE DEF In
<1>6. ASSUME NEW e \in P PROVE RowOf(e, e \in {}) \in List!GivenUp(R, d) <=> e \in UpOf(P, d)
    <2>1. RowOf(e, e \in {}) \in List!GivenUp(R, d) <=> \E k \in DOMAIN d : In(RowOf(e, e \in {}), k)
        BY <1>1
    <2>2. e \in UpOf(P, d) <=> \E k \in DOMAIN d : e \in UpOn(C(k), d[k].limit)
        BY DEF UpOf, C
    <2> QED BY <1>5, <2>1, <2>2
<1> QED BY <1>1, <1>4, <1>6

RowRecord(a, b, c, d, e) == [gap |-> a, task |-> b, from |-> c, to |-> d, up |-> e]

\* Marking a row changes nothing else of it.
LEMMA MarkedRow ==
    /\ \A e, u, v : [RowOf(e, u) EXCEPT !.up = v] = RowOf(e, v)
    /\ \A a, b : [GapOf(a, b) EXCEPT !.up = FALSE] = GapOf(a, b)
<1>4. ASSUME NEW e, NEW u, NEW v PROVE [RowOf(e, u) EXCEPT !.up = v] = RowOf(e, v)
    <2>1. [RowRecord(FALSE, e.task, e.from, e.to, u) EXCEPT !.up = v] = RowRecord(FALSE, e.task, e.from, e.to, v)
        <3>1. \A a : [RowRecord(a, e.task, e.from, e.to, u) EXCEPT !.up = v] = RowRecord(a, e.task, e.from, e.to, v)
            BY DEF RowRecord
        <3> QED BY <3>1
    <2>2. RowOf(e, u) = RowRecord(FALSE, e.task, e.from, e.to, u)
        BY DEF RowOf, RowRecord
    <2>3. RowOf(e, v) = RowRecord(FALSE, e.task, e.from, e.to, v)
        BY DEF RowOf, RowRecord
    <2> QED BY <2>1, <2>2, <2>3
<1>5. ASSUME NEW a, NEW b PROVE [GapOf(a, b) EXCEPT !.up = FALSE] = GapOf(a, b)
    <2>1. [RowRecord(TRUE, NoRow, a, b, FALSE) EXCEPT !.up = FALSE] = RowRecord(TRUE, NoRow, a, b, FALSE)
        <3>1. \A g, u : [RowRecord(g, NoRow, a, b, u) EXCEPT !.up = u] = RowRecord(g, NoRow, a, b, u)
            BY DEF RowRecord
        <3> QED BY <3>1
    <2>2. GapOf(a, b) = RowRecord(TRUE, NoRow, a, b, FALSE)
        BY DEF GapOf, RowRecord
    <2> QED BY <2>1, <2>2
<1> QED BY <1>4, <1>5

(* Marked are the rows of the pieces that are given up.                    *)
LEMMA MarkedRowsAre ==
    ASSUME List!Assumption, ListedWorld, NEW P, P \subseteq List!Pieces, NEW s, NEW I,
           NEW L, AreRows(L, P, {}, s, I), NEW d, NEW M, M = List!Marked(L, d)
    PROVE  AreRows(M, P, UpOf(P, d), s, I)
<1> DEFINE G == List!GivenUp(Has(L), d)
           Up == UpOf(P, d)
           n == Len(L)
<1>1. /\ L \in Seq(Has(L)) /\ HasOnce(L)
      /\ Has(L) = MarkedAs(P, {}) \cup GapsOf(s, I)
    BY DEF AreRows
<1>2. DOMAIN L = 1..n /\ n \in Nat
    BY <1>1
<1>3. M = [i \in DOMAIN L |-> [L[i] EXCEPT !.up = L[i] \in G]]
    BY ListCounts DEF List!Marked
<1>4. /\ \A e \in P : RowOf(e, e \in {}) \in G <=> e \in Up
      /\ \A r \in GapsOf(s, I) : r \notin G
    <2> DEFINE R == Has(L)
    <2>1. R = MarkedAs(P, {}) \cup GapsOf(s, I)
        BY <1>1
    <2> HIDE DEF R
    <2> QED BY <2>1, GivenUpAre DEF R
<1> HIDE DEF G, Up, n
<1>5. ASSUME NEW i \in 1..n, NEW e \in P, L[i] = RowOf(e, e \in {})
      PROVE  M[i] = RowOf(e, e \in Up)
    <2> DEFINE u == e \in {}
               v == L[i] \in G
               w == e \in Up
    <2>1. M[i] = [L[i] EXCEPT !.up = v]
        BY <1>2, <1>3
    <2>2. v = w
        BY <1>4, <1>5
    <2>3. L[i] = RowOf(e, u)
        BY <1>5
    <2> HIDE DEF u, v, w
    <2>4. [RowOf(e, u) EXCEPT !.up = v] = RowOf(e, v)
        BY MarkedRow
    <2>5. M[i] = RowOf(e, v)
        BY <2>1, <2>3, <2>4
    <2>6. M[i] = RowOf(e, w)
        BY <2>2, <2>5
    <2> QED BY <2>6 DEF w
<1>6. ASSUME NEW i \in 1..n, L[i] \in GapsOf(s, I)
      PROVE  M[i] = L[i]
    <2> DEFINE v == L[i] \in G
    <2>1. M[i] = [L[i] EXCEPT !.up = v]
        BY <1>2, <1>3
    <2>2. v = FALSE
        BY <1>4, <1>6
    <2> HIDE DEF v
    <2>3. PICK j \in I : L[i] = GapOf(List!Cursor(s, j), s[j].from)
        BY <1>6 DEF GapsOf
    <2>4. [L[i] EXCEPT !.up = FALSE] = L[i]
        BY <2>3, MarkedRow
    <2> QED BY <2>1, <2>2, <2>4
<1>7. \A i \in 1..n : \/ L[i] \in GapsOf(s, I)
                      \/ \E e \in P : L[i] = RowOf(e, e \in {})
    <2>1. \A i \in 1..n : L[i] \in Has(L)
        BY <1>2 DEF Has
    <2> QED BY <1>1, <2>1 DEF MarkedAs
<1>8. \A r \in Has(L) : \E i \in 1..n : L[i] = r
    BY <1>2 DEF Has
<1>9. DOMAIN M = 1..n /\ M = [i \in 1..n |-> M[i]]
    BY <1>2, <1>3
<1>10. Has(M) = MarkedAs(P, Up) \cup GapsOf(s, I)
    <2>1. ASSUME NEW i \in 1..n PROVE M[i] \in MarkedAs(P, Up) \cup GapsOf(s, I)
        <3>1. CASE L[i] \in GapsOf(s, I)
            BY <1>6, <3>1
        <3>2. ASSUME NEW e \in P, L[i] = RowOf(e, e \in {})
              PROVE  M[i] \in MarkedAs(P, Up)
            BY <1>5, <3>2 DEF MarkedAs
        <3> QED BY <1>7, <3>1, <3>2
    <2>2. ASSUME NEW e \in P PROVE \E i \in 1..n : M[i] = RowOf(e, e \in Up)
        <3>1. RowOf(e, e \in {}) \in Has(L)
            BY <1>1 DEF MarkedAs
        <3>2. PICK i \in 1..n : L[i] = RowOf(e, e \in {})
            BY <1>8, <3>1
        <3> QED BY <1>5, <3>2
    <2>3. ASSUME NEW r \in GapsOf(s, I) PROVE \E i \in 1..n : M[i] = r
        <3>1. r \in Has(L)
            BY <1>1
        <3>2. PICK i \in 1..n : L[i] = r
            BY <1>8, <3>1
        <3> QED BY <1>6, <3>2
    <2>4. ASSUME NEW r \in MarkedAs(P, Up) PROVE \E i \in 1..n : M[i] = r
        BY <2>2 DEF MarkedAs
    <2>5. Has(M) = {M[i] : i \in 1..n}
        BY <1>9 DEF Has
    <2> QED BY <2>1, <2>3, <2>4, <2>5
<1>11. HasOnce(M)
    <2> SUFFICES ASSUME NEW i \in 1..n, NEW j \in 1..n, M[i] = M[j] PROVE i = j
        BY <1>9 DEF HasOnce
    <2>1. ASSUME NEW m \in 1..n PROVE /\ L[m].gap <=> M[m].gap
                                      /\ L[m] \in GapsOf(s, I) <=> L[m].gap
        <3>1. CASE L[m] \in GapsOf(s, I)
            <4>1. L[m].gap
                BY <3>1, GapIsOf DEF GapsOf
            <4> QED BY <1>6, <3>1, <4>1
        <3>2. ASSUME NEW e \in P, L[m] = RowOf(e, e \in {})
              PROVE  ~L[m].gap /\ ~M[m].gap /\ L[m] \notin GapsOf(s, I)
            <4>1. ~L[m].gap /\ ~M[m].gap
                BY <1>5, <3>2, RowIsOf
            <4>2. \A r \in GapsOf(s, I) : r.gap
                BY GapIsOf DEF GapsOf
            <4> QED BY <4>1, <4>2
        <3> QED BY <1>7, <3>1, <3>2
    <2>2. CASE L[i] \in GapsOf(s, I)
        <3>1. L[j] \in GapsOf(s, I)
            BY <2>1, <2>2
        <3>2. L[i] = L[j]
            BY <1>6, <2>2, <3>1
        <3> QED BY <1>1, <1>2, <3>2 DEF HasOnce
    <2>3. CASE L[i] \notin GapsOf(s, I)
        <3>1. L[j] \notin GapsOf(s, I)
            BY <2>1, <2>3
        <3>2. PICK e \in P : L[i] = RowOf(e, e \in {})
            BY <1>7, <2>3
        <3>3. PICK f \in P : L[j] = RowOf(f, f \in {})
            BY <1>7, <3>1
        <3>4. RowOf(e, e \in Up) = RowOf(f, f \in Up)
            BY <1>5, <3>2, <3>3
        <3>5. e = f
            BY <3>4, RowsOfPieces
        <3>6. L[i] = L[j]
            BY <3>2, <3>3, <3>5
        <3> QED BY <1>1, <1>2, <3>6 DEF HasOnce
    <2> QED BY <2>2, <2>3
<1>12. M \in Seq(Has(M))
    <2>1. M \in [1..n -> Has(M)]
        BY <1>9 DEF Has
    <2> QED BY <1>2, <2>1
<1> QED BY <1>10, <1>11, <1>12 DEF AreRows, Up

-----------------------------------------------------------------------------
(***************************************************************************)
(* The order of the rows                                                   *)
(***************************************************************************)
\* Places of a sequence in another order.
Reorders(o, n) ==
    /\ n \in Nat /\ \A i \in 1..n : o[i] \in 1..n
    /\ \A i, j \in 1..n : o[i] = o[j] => i = j
    /\ \A j \in 1..n : \E i \in 1..n : o[i] = j

\* Rows in another order are the same rows.
LEMMA ReorderedRows ==
    ASSUME NEW L, NEW P, NEW Up, NEW s, NEW I, AreRows(L, P, Up, s, I), NEW o, Reorders(o, Len(L)),
           NEW R, R = [i \in 1..Len(L) |-> L[o[i]]]
    PROVE  AreRows(R, P, Up, s, I)
<1> DEFINE n == Len(L)
<1>1. n \in Nat /\ DOMAIN L = 1..n /\ HasOnce(L) /\ Has(L) = MarkedAs(P, Up) \cup GapsOf(s, I)
    BY DEF AreRows
<1> HIDE DEF n
<1>2. /\ \A i \in 1..n : o[i] \in 1..n
      /\ \A i, j \in 1..n : o[i] = o[j] => i = j
      /\ \A j \in 1..n : \E i \in 1..n : o[i] = j
    BY DEF Reorders, n
<1>3. DOMAIN R = 1..n /\ (\A i \in 1..n : R[i] = L[o[i]]) /\ R = [i \in 1..n |-> R[i]]
    BY DEF n
<1>4. Has(R) = Has(L)
    <2>1. \A r \in Has(R) : \E i \in 1..n : r = L[o[i]]
        BY <1>3, Zenon DEF Has
    <2>2. \A i \in 1..n : L[i] \in Has(L)
        BY <1>1, Zenon DEF Has
    <2>3. \A r \in Has(L) : \E j \in 1..n : r = L[j]
        BY <1>1, Zenon DEF Has
    <2>4. \A i \in 1..n : R[i] \in Has(R)
        BY <1>3, Zenon DEF Has
    <2>5. ASSUME NEW r \in Has(R) PROVE r \in Has(L)
        <3>1. PICK i \in 1..n : r = L[o[i]]
            BY <2>1
        <3>2. L[o[i]] \in Has(L)
            BY <1>2, <2>2, Zenon
        <3> QED BY <3>1, <3>2
    <2>6. ASSUME NEW r \in Has(L) PROVE r \in Has(R)
        <3>1. PICK j \in 1..n : r = L[j]
            BY <2>3
        <3>2. PICK i \in 1..n : o[i] = j
            BY <1>2
        <3> QED BY <1>3, <2>4, <3>1, <3>2, Zenon
    <2> QED BY <2>5, <2>6
<1>5. HasOnce(R)
    <2>1. ASSUME NEW i \in 1..n, NEW j \in 1..n, R[i] = R[j] PROVE i = j
        <3>1. L[o[i]] = L[o[j]] /\ o[i] \in DOMAIN L /\ o[j] \in DOMAIN L
            BY <1>1, <1>2, <1>3, <2>1, Zenon
        <3>2. o[i] = o[j]
            BY <1>1, <3>1, Zenon DEF HasOnce
        <3> QED BY <1>2, <3>2, Zenon
    <2> QED BY <1>3, <2>1, Zenon DEF HasOnce
<1>6. R \in Seq(Has(R))
    <2>1. R \in [1..n -> Has(R)]
        BY <1>3 DEF Has
    <2> QED BY <1>1, <2>1
<1> QED BY <1>1, <1>4, <1>5, <1>6 DEF AreRows

\* And so are rows backwards.
LEMMA ReversedRows ==
    ASSUME NEW L, NEW P, NEW Up, NEW s, NEW I, AreRows(L, P, Up, s, I)
    PROVE  AreRows(List!Reverse(L), P, Up, s, I)
<1> DEFINE n == Len(L)
           o == [i \in 1..n |-> (n - i) + 1]
           R == List!Reverse(L)
<1>1. n \in Nat
    BY DEF AreRows
<1>2. R = [i \in 1..n |-> L[o[i]]]
    BY DEF List!Reverse
<1>3. Reorders(o, n)
    <2>1. \A j \in 1..n : (n - j) + 1 \in 1..n /\ (n - ((n - j) + 1)) + 1 = j
        BY <1>1
    <2>2. \A j \in 1..n : o[j] \in 1..n /\ o[o[j]] = j
        BY <2>1
    <2> HIDE DEF o, n
    <2> QED BY <1>1, <2>2 DEF Reorders
<1> HIDE DEF o, R
<1> QED BY <1>2, <1>3, ReorderedRows DEF R

\* What the rows of a list are put in order by.
TailKey(r, gapId) ==
    IF r.gap THEN <<0, r.from, 0, gapId>> ELSE <<-List!Task(r).prio, r.from, List!Rank(r), r.task>>

\* The keys of the tail tell the rows apart, and are in the order in which
\* the pieces give way.
LEMMA TailKeys ==
    ASSUME List!Assumption, ListedWorld, NEW p, NEW s, NEW n, InTurn(s, n), NEW gapId \in GapIds,
           NEW P, P \subseteq List!Pieces, NEW Up, NEW I, I = ShownGaps(p, s),
           NEW T, T = MarkedAs(P, Up) \cup GapsOf(s, I)
    PROVE  /\ \A r \in T : TailKey(r, gapId) \in [1..4 -> Int]
           /\ \A q, r \in T : (\A i \in 1..4 : TailKey(q, gapId)[i] = TailKey(r, gapId)[i]) => q = r
           /\ \A q, r \in T : ~q.gap /\ ~r.gap /\ List!GivenUpFirst(q, r)
                                 => KeyBefore(TailKey(r, gapId), TailKey(q, gapId), 4)
<1> DEFINE key(r) == TailKey(r, gapId)
<1>1. gapId \in Int
    BY ListNumbers
<1>2. ASSUME NEW r \in T, ~r.gap
      PROVE  \E e \in P : /\ r = RowOf(e, e \in Up) /\ r.task = e.task /\ r.from = e.from
                          /\ r.task \in Int /\ r.from \in Int /\ r.task \in DOMAIN world.tasks
                          /\ List!Task(r).prio \in Int /\ List!Rank(r) \in Int
                          /\ key(r) = <<-List!Task(r).prio, r.from, List!Rank(r), r.task>>
    <2>1. r \notin GapsOf(s, I)
        BY <1>2, GapIsOf DEF GapsOf
    <2>2. PICK e \in P : r = RowOf(e, e \in Up)
        BY <2>1 DEF MarkedAs
    <2>3. IsPiece(e)
        BY PiecesAreOfPlan
    <2>4. r.task = e.task /\ r.from = e.from /\ List!Task(r) = List!Task(e) /\ List!Rank(r) = List!Rank(e)
        BY <2>2, RowIsOf
    <2>5. key(r) = <<-List!Task(r).prio, r.from, List!Rank(r), r.task>>
        BY <1>2 DEF TailKey
    <2> QED BY <2>2, <2>3, <2>4, <2>5 DEF IsPiece
<1>3. ASSUME NEW r \in T, r.gap
      PROVE  \E i \in I : /\ r = GapOf(List!Cursor(s, i), s[i].from) /\ r.from = List!Cursor(s, i)
                          /\ r.from \in Int /\ i \in 1..n /\ List!GapIsShown(p, s, i)
                          /\ key(r) = <<0, r.from, 0, gapId>>
    <2>1. r \notin MarkedAs(P, Up)
        BY <1>3, RowIsOf DEF MarkedAs
    <2>2. PICK i \in I : r = GapOf(List!Cursor(s, i), s[i].from)
        BY <2>1 DEF GapsOf
    <2>3. i \in 1..n /\ List!GapIsShown(p, s, i)
        BY DEF ShownGaps, InTurn
    <2>4. r.from = List!Cursor(s, i)
        BY <2>2, GapIsOf
    <2>5. List!Cursor(s, i) \in Int
        BY <2>3, CursorIs
    <2>6. key(r) = <<0, r.from, 0, gapId>>
        BY <1>3 DEF TailKey
    <2> QED BY <2>2, <2>3, <2>4, <2>5, <2>6
<1> HIDE DEF key
<1>4. ASSUME NEW r \in T PROVE key(r) \in [1..4 -> Int]
    <2>1. CASE r.gap
        <3>1. r.from \in Int /\ key(r) = <<0, r.from, 0, gapId>>
            BY <1>3, <2>1
        <3> QED BY <1>1, <3>1
    <2>2. CASE ~r.gap
        <3> DEFINE a == -List!Task(r).prio
        <3>1. r.from \in Int /\ r.task \in Int /\ a \in Int /\ List!Rank(r) \in Int
              /\ key(r) = <<a, r.from, List!Rank(r), r.task>>
            BY <1>2, <2>2
        <3> HIDE DEF a
        <3> QED BY <3>1
    <2> QED BY <2>1, <2>2
<1>5. ASSUME NEW q \in T, NEW r \in T, \A i \in 1..4 : key(q)[i] = key(r)[i] PROVE q = r
    <2>1. key(q)[2] = key(r)[2] /\ key(q)[4] = key(r)[4]
        BY <1>5
    <2>2. CASE q.gap /\ r.gap
        <3>1. PICK i \in I : /\ q = GapOf(List!Cursor(s, i), s[i].from) /\ q.from = List!Cursor(s, i)
                             /\ q.from \in Int /\ i \in 1..n /\ List!GapIsShown(p, s, i)
                             /\ key(q) = <<0, q.from, 0, gapId>>
            BY <1>3, <2>2
        <3>2. PICK j \in I : /\ r = GapOf(List!Cursor(s, j), s[j].from) /\ r.from = List!Cursor(s, j)
                             /\ r.from \in Int /\ j \in 1..n /\ List!GapIsShown(p, s, j)
                             /\ key(r) = <<0, r.from, 0, gapId>>
            BY <1>3, <2>2
        <3> DEFINE c(k) == List!Cursor(s, k)
        <3>3. c(i) = c(j) /\ c(i) \in Int /\ c(j) \in Int
            <4>1. key(q)[2] = q.from /\ key(r)[2] = r.from
                BY <3>1, <3>2
            <4> QED BY <2>1, <3>1, <3>2, <4>1
        <3>4. (i < j => c(i) < c(j)) /\ (j < i => c(j) < c(i))
            BY <3>1, <3>2, GapsAre
        <3>5. i \in Int /\ j \in Int
            BY <3>1, <3>2 DEF InTurn
        <3> HIDE DEF c
        <3>6. i = j
            BY <3>3, <3>4, <3>5
        <3> QED BY <3>1, <3>2, <3>6
    <2>3. CASE ~q.gap /\ ~r.gap
        <3>1. PICK e \in P : /\ q = RowOf(e, e \in Up) /\ q.task = e.task /\ q.from = e.from
                             /\ key(q) = <<-List!Task(q).prio, q.from, List!Rank(q), q.task>>
            BY <1>2, <2>3
        <3>2. PICK f \in P : /\ r = RowOf(f, f \in Up) /\ r.task = f.task /\ r.from = f.from
                             /\ key(r) = <<-List!Task(r).prio, r.from, List!Rank(r), r.task>>
            BY <1>2, <2>3
        <3>3. key(q)[2] = q.from /\ key(q)[4] = q.task /\ key(r)[2] = r.from /\ key(r)[4] = r.task
            BY <3>1, <3>2
        <3>4. e.from = f.from /\ e.task = f.task /\ e \in List!Pieces /\ f \in List!Pieces
            BY <2>1, <3>1, <3>2, <3>3
        <3>5. e = f
            BY <3>4, PiecesAreOfPlan
        <3> QED BY <3>1, <3>2, <3>5
    <2>4. ASSUME NEW x \in T, NEW y \in T, x.gap, ~y.gap, key(x)[4] = key(y)[4] PROVE FALSE
        <3>1. key(x) = <<0, x.from, 0, gapId>>
            BY <1>3, <2>4
        <3>2. key(y) = <<-List!Task(y).prio, y.from, List!Rank(y), y.task>> /\ y.task \in DOMAIN world.tasks
            BY <1>2, <2>4
        <3>3. key(x)[4] = gapId
            BY <3>1
        <3>4. key(y)[4] = y.task
            BY <3>2
        <3>5. gapId \in DOMAIN world.tasks
            BY <2>4, <3>2, <3>3, <3>4
        <3> QED BY <3>5 DEF ListedWorld
    <2> QED BY <2>1, <2>2, <2>3, <2>4
<1>6. ASSUME NEW q \in T, NEW r \in T, ~q.gap, ~r.gap, List!GivenUpFirst(q, r)
      PROVE  KeyBefore(key(r), key(q), 4)
    <2> DEFINE other(x) == <<List!Task(x).prio, -x.from, -List!Rank(x), -x.task>>
    <2>1. PICK i \in 1..4 : other(q)[i] < other(r)[i] /\ \A j \in 1..(i - 1) : other(q)[j] = other(r)[j]
        BY <1>6 DEF List!GivenUpFirst
    <2>2. ASSUME NEW x \in T, ~x.gap, NEW j \in 1..4
          PROVE  other(x)[j] \in Int /\ key(x)[j] = -other(x)[j]
        <3>1. x.from \in Int /\ x.task \in Int /\ List!Task(x).prio \in Int /\ List!Rank(x) \in Int
              /\ key(x) = <<-List!Task(x).prio, x.from, List!Rank(x), x.task>>
            BY <1>2, <2>2
        <3> DEFINE pr == List!Task(x).prio
                   rk == List!Rank(x)
        <3>2. other(x) = <<pr, -x.from, -rk, -x.task>> /\ key(x) = <<-pr, x.from, rk, x.task>>
            BY <3>1
        <3>3. j = 1 \/ j = 2 \/ j = 3 \/ j = 4
            OBVIOUS
        <3> HIDE DEF pr, rk, other
        <3>4. other(x)[1] = pr /\ other(x)[2] = -x.from /\ other(x)[3] = -rk /\ other(x)[4] = -x.task
            BY <3>2
        <3>5. key(x)[1] = -pr /\ key(x)[2] = x.from /\ key(x)[3] = rk /\ key(x)[4] = x.task
            BY <3>2
        <3>6. pr \in Int /\ rk \in Int
            BY <3>1 DEF pr, rk
        <3> QED BY <3>1, <3>3, <3>4, <3>5, <3>6
    <2> HIDE DEF other
    <2>3. i \in 1..4 /\ \A j \in 1..(i - 1) : j \in 1..4
        OBVIOUS
    <2>4. key(r)[i] < key(q)[i]
        BY <1>6, <2>1, <2>2
    <2>5. \A j \in 1..(i - 1) : key(r)[j] = key(q)[j]
        BY <1>6, <2>1, <2>2, <2>3
    <2> QED BY <2>4, <2>5 DEF KeyBefore
<1> QED BY <1>4, <1>5, <1>6 DEF key

\* The places of rows before each place, in the order of the tail.
BeforeInTail(M, gapId) ==
    [i \in DOMAIN M |-> {j \in DOMAIN M : KeyBefore(TailKey(M[j], gapId), TailKey(M[i], gapId), 4)}]

(* The tail has the same rows, and of those that are given up first the    *)
(* last is last.                                                           *)
LEMMA TailRows ==
    ASSUME List!Assumption, ListedWorld, NEW p, NEW s, NEW n, InTurn(s, n), NEW gapId \in GapIds,
           NEW P, P \subseteq List!Pieces, NEW Up, NEW I, I = ShownGaps(p, s),
           NEW M, AreRows(M, P, Up, s, I), NEW R, R = List!LowPriorityTail(M, gapId)
    PROVE  /\ AreRows(R, P, Up, s, I)
           /\ \A i, j \in DOMAIN R : ~R[i].gap /\ ~R[j].gap /\ List!GivenUpFirst(R[i], R[j]) => j < i
<1> DEFINE m == Len(M)
           S == 1..m
           T == MarkedAs(P, Up) \cup GapsOf(s, I)
           K == [i \in S |-> TailKey(M[i], gapId)]
           B == BeforeInTail(M, gapId)
           comesBefore(i, j) == KeyBefore(TailKey(M[i], gapId), TailKey(M[j], gapId), 4)
           o == [i \in 1..m |-> CHOOSE e \in S : List!Cardinality({f \in S : comesBefore(f, e)}) = i - 1]
<1>1. m \in Nat /\ DOMAIN M = S /\ HasOnce(M) /\ Has(M) = T
    BY DEF AreRows
<1>2. \A i \in S : M[i] \in T
    BY <1>1 DEF Has
<1>3. /\ \A r \in T : TailKey(r, gapId) \in [1..4 -> Int]
      /\ \A q, r \in T : (\A i \in 1..4 : TailKey(q, gapId)[i] = TailKey(r, gapId)[i]) => q = r
      /\ \A q, r \in T : ~q.gap /\ ~r.gap /\ List!GivenUpFirst(q, r)
                            => KeyBefore(TailKey(r, gapId), TailKey(q, gapId), 4)
    <2>1. T = MarkedAs(P, Up) \cup GapsOf(s, I)
        OBVIOUS
    <2> HIDE DEF T, S, K, B, o, comesBefore, m
    <2> QED BY <2>1, TailKeys
<1>4. IsFiniteSet(S) /\ Cardinality(S) = m
    <2> HIDE DEF m
    <2> QED BY <1>1, OneTo
<1>5. \A i \in S : K[i] = TailKey(M[i], gapId)
    OBVIOUS
<1>6. K \in [S -> [1..4 -> Int]]
    BY <1>2, <1>3
<1>7. /\ \A i \in S : B[i] \subseteq S
      /\ \A i, j \in S : j \in B[i] <=> comesBefore(j, i)
      /\ \A i \in S : B[i] = {f \in S : comesBefore(f, i)}
    <2> HIDE DEF S, K, o, comesBefore
    <2> QED BY <1>1 DEF BeforeInTail, comesBefore
<1>8. R = [i \in 1..m |-> M[o[i]]]
    <2> DEFINE Order(D) == [i \in 1..List!Cardinality(D) |->
                              CHOOSE e \in D : List!Cardinality({f \in D : comesBefore(f, e)}) = i - 1]
    <2>1. R = [i \in DOMAIN M |-> M[Order(DOMAIN M)[i]]]
        BY DEF List!LowPriorityTail, List!InOrder, TailKey, KeyBefore
    <2> HIDE DEF comesBefore
    <2>2. Order(S) = o
        <3>1. List!Cardinality(S) = m
            BY <1>4, ListCounts
        <3> QED BY <3>1
    <2> HIDE DEF Order, o
    <2> QED BY <1>1, <2>1, <2>2
<1> HIDE DEF m, S, T, K, B, comesBefore
<1>9. \A i, j \in S : (\A k \in 1..4 : K[i][k] = K[j][k]) => i = j
    <2> SUFFICES ASSUME NEW i \in S, NEW j \in S, \A k \in 1..4 : K[i][k] = K[j][k] PROVE i = j
        OBVIOUS
    <2>1. M[i] = M[j]
        BY <1>2, <1>3, <1>5
    <2> QED BY <1>1, <2>1 DEF HasOnce
<1>10. \A i, j \in S : j \in B[i] <=> KeyBefore(K[j], K[i], 4)
    BY <1>5, <1>7 DEF comesBefore
<1>11. IsOrder(S, B)
    BY <1>4, <1>6, <1>7, <1>9, <1>10, KeysOrder
<1>12. \A i \in 1..m : \E e \in S : Cardinality(B[e]) = i - 1
    BY <1>4, <1>11, PlacesAreTaken
<1>13. ASSUME NEW i \in 1..m PROVE o[i] \in S /\ Cardinality(B[o[i]]) = i - 1
    <2> DEFINE Placed(e) == List!Cardinality({f \in S : comesBefore(f, e)}) = i - 1
    <2>1. o[i] = CHOOSE e \in S : Placed(e)
        OBVIOUS
    <2>2. \E e \in S : Placed(e)
        BY <1>7, <1>12, ListCounts
    <2>3. o[i] \in S /\ Placed(o[i])
        <3> HIDE DEF Placed, o
        <3> QED BY <2>1, <2>2
    <2> HIDE DEF o
    <2> QED BY <1>7, <2>3, ListCounts
<1>14. DOMAIN o = 1..m
    OBVIOUS
<1> HIDE DEF o
<1>15. InOrderOf(o, S, B)
    BY <1>4, <1>13, <1>14 DEF InOrderOf
<1>16. /\ \A e \in S : \E i \in 1..m : o[i] = e
       /\ \A i, j \in 1..m : i < j <=> o[i] \in B[o[j]]
       /\ \A i, j \in 1..m : o[i] = o[j] => i = j
    <2>1. /\ \A e \in S : \E i \in DOMAIN o : o[i] = e
          /\ \A i, j \in DOMAIN o : i < j <=> o[i] \in B[o[j]]
          /\ \A i, j \in DOMAIN o : o[i] = o[j] => i = j
        BY <1>11, <1>15, OrderedIsInOrder
    <2> QED BY <1>14, <2>1, Zenon
<1>17. Reorders(o, m)
    BY <1>1, <1>13, <1>16 DEF Reorders, S
<1>18. AreRows(R, P, Up, s, I)
    BY <1>8, <1>17, ReorderedRows DEF m
<1>19. DOMAIN R = 1..m /\ \A i \in 1..m : R[i] = M[o[i]]
    BY <1>8
<1>20. ASSUME NEW i \in 1..m, NEW j \in 1..m, ~R[i].gap, ~R[j].gap, List!GivenUpFirst(R[i], R[j])
       PROVE  j < i
    <2>1. R[i] \in T /\ R[j] \in T
        BY <1>2, <1>13, <1>19
    <2>2. KeyBefore(TailKey(R[j], gapId), TailKey(R[i], gapId), 4)
        BY <1>3, <1>20, <2>1
    <2>3. o[j] \in B[o[i]]
        BY <1>7, <1>13, <1>19, <2>2 DEF comesBefore
    <2> QED BY <1>16, <2>3
<1> QED BY <1>18, <1>19, <1>20

(* One piece gives way before another in an order, lower priorities first. *)
LEMMA PiecesGiveWay ==
    ASSUME List!Assumption, ListedWorld, NEW C, C \subseteq List!Pieces
    PROVE  /\ IsOrder(C, GivesWay(C))
           /\ \A e \in C : \A f \in GivesWay(C)[e] : List!Task(f).prio <= List!Task(e).prio
<1> DEFINE key(x) == <<List!Task(x).prio, -x.from, -List!Rank(x), -x.task>>
           K == [e \in C |-> key(e)]
           B == GivesWay(C)
<1>1. IsFiniteSet(C)
    BY PiecesAreOfPlan, FS_Subset
<1>2. \A e \in C : /\ e.from \in Int /\ List!Task(e).prio \in Int /\ List!Rank(e) \in Int /\ e.task \in Int
    BY PiecesAreOfPlan DEF IsPiece
<1>3. ASSUME NEW e \in C
      PROVE  /\ key(e) \in [1..4 -> Int]
             /\ key(e)[1] = List!Task(e).prio /\ key(e)[2] = -e.from /\ key(e)[4] = -e.task
    <2> DEFINE a == List!Task(e).prio
               b == -e.from
               c == -List!Rank(e)
               d == -e.task
    <2>1. a \in Int /\ b \in Int /\ c \in Int /\ d \in Int
        BY <1>2
    <2> HIDE DEF a, b, c, d
    <2>2. <<a, b, c, d>> \in [1..4 -> Int] /\ <<a, b, c, d>>[1] = a /\ <<a, b, c, d>>[2] = b
          /\ <<a, b, c, d>>[4] = d
        BY <2>1
    <2> QED BY <2>2 DEF a, b, c, d
<1>4. \A e, f \in C : List!GivenUpFirst(f, e) <=> KeyBefore(key(f), key(e), 4)
    BY DEF List!GivenUpFirst, KeyBefore
<1> HIDE DEF key
<1>5. K \in [C -> [1..4 -> Int]] /\ \A e \in C : K[e] = key(e)
    BY <1>3
<1>6. \A e, f \in C : (\A i \in 1..4 : K[e][i] = K[f][i]) => e = f
    <2> SUFFICES ASSUME NEW e \in C, NEW f \in C, \A i \in 1..4 : K[e][i] = K[f][i] PROVE e = f
        OBVIOUS
    <2>1. key(e)[2] = key(f)[2] /\ key(e)[4] = key(f)[4]
        BY <1>5
    <2>2. e.from = f.from /\ e.task = f.task /\ e \in List!Pieces /\ f \in List!Pieces
        BY <1>2, <1>3, <2>1
    <2> QED BY <2>2, PiecesAreOfPlan
<1>7. /\ \A e \in C : B[e] \subseteq C
      /\ \A e, f \in C : f \in B[e] <=> List!GivenUpFirst(f, e)
    BY DEF GivesWay
<1> HIDE DEF K, B
<1>8. \A e, f \in C : f \in B[e] <=> KeyBefore(K[f], K[e], 4)
    BY <1>4, <1>5, <1>7
<1>9. IsOrder(C, B)
    BY <1>1, <1>5, <1>6, <1>7, <1>8, KeysOrder
<1>10. ASSUME NEW e \in C, NEW f \in B[e] PROVE List!Task(f).prio <= List!Task(e).prio
    <2>1. f \in C /\ KeyBefore(key(f), key(e), 4)
        BY <1>4, <1>7
    <2>2. PICK i \in 1..4 : key(f)[i] < key(e)[i] /\ \A j \in 1..(i - 1) : key(f)[j] = key(e)[j]
        BY <2>1 DEF KeyBefore
    <2>3. CASE i = 1
        BY <1>2, <1>3, <2>1, <2>2, <2>3
    <2>4. CASE i # 1
        <3>1. 1 \in 1..(i - 1)
            BY <2>4
        <3>2. key(f)[1] = key(e)[1]
            BY <2>2, <3>1
        <3> QED BY <1>2, <1>3, <2>1, <3>2
    <2> QED BY <2>3, <2>4
<1> QED BY <1>9, <1>10 DEF B

(* What is given up on a day makes up for what is too much, and no more.   *)
LEMMA UpOnIs ==
    ASSUME List!Assumption, ListedWorld, NEW C, C \subseteq List!Pieces, NEW limit \in Int,
           NEW U, U = UpOn(C, limit)
    PROVE  /\ U \subseteq C
           /\ limit <= 0 => U = {}
           /\ limit > 0 => U = C \/ List!WorkOf(U) >= limit
           /\ \A e \in U : \E f \in U : /\ List!Task(e).prio <= List!Task(f).prio
                                       /\ List!WorkOf(U \ {f}) < limit
           /\ \A e \in U, f \in C \ U : /\ List!GivenUpFirst(e, f)
                                       /\ List!Task(e).prio <= List!Task(f).prio
<1> DEFINE w == LengthOf(C)
           B == GivesWay(C)
<1>1. IsFiniteSet(C) /\ \A e \in C : IsPiece(e)
    BY PiecesAreOfPlan, FS_Subset
<1>2. TakeTime(C)
    BY <1>1 DEF TakeTime, IsPiece
<1>3. \A e \in C : w[e] \in Nat
    BY <1>1 DEF LengthOf, IsPiece
<1>4. IsOrder(C, B) /\ \A e \in C : \A f \in B[e] : List!Task(f).prio <= List!Task(e).prio
    BY PiecesGiveWay
<1>5. \A e \in C : B[e] \subseteq C
    BY <1>4 DEF IsOrder
<1>6. \A R : R \subseteq C => List!WorkOf(R) = SumOver(w, R)
    BY <1>2, WorkOfPart
<1>7. \A e, f \in C : e \in B[f] => List!GivenUpFirst(e, f)
    BY DEF GivesWay
<1> HIDE DEF w, B
<1>8. U = {e \in C : SumOver(w, B[e]) < limit}
    <2>1. \A e \in C : List!WorkOf(B[e]) = SumOver(w, B[e])
        BY <1>5, <1>6
    <2> QED BY <2>1 DEF UpOn, B
<1>9. /\ limit <= 0 => U = {}
      /\ limit > 0 => U = C \/ SumOver(w, U) >= limit
      /\ U # {} => \E s \in U : /\ \A r \in U \ {s} : r \in B[s]
                               /\ SumOver(w, U \ {s}) < limit
      /\ \A r \in U, s \in C \ U : r \in B[s]
    <2>1. IsOrder(C, B)
        BY <1>4
    <2>2. U = FirstOf(C, B, w, limit)
        BY <1>8 DEF FirstOf
    <2> QED BY <1>3, <2>1, <2>2, FirstUpTo
<1>10. U \subseteq C
    BY <1>8
<1>11. ASSUME NEW e \in U
       PROVE  \E f \in U : List!Task(e).prio <= List!Task(f).prio /\ List!WorkOf(U \ {f}) < limit
    <2>1. PICK s \in U : (\A r \in U \ {s} : r \in B[s]) /\ SumOver(w, U \ {s}) < limit
        BY <1>9
    <2>2. List!WorkOf(U \ {s}) < limit
        <3>1. U \ {s} \subseteq C
            BY <1>10
        <3> QED BY <1>6, <2>1, <3>1
    <2>3. List!Task(e).prio <= List!Task(s).prio
        <3>1. CASE e = s
            BY <1>1, <1>10, <3>1 DEF IsPiece
        <3>2. CASE e # s
            BY <1>4, <1>10, <2>1, <3>2
        <3> QED BY <3>1, <3>2
    <2> QED BY <2>2, <2>3
<1> QED BY <1>4, <1>6, <1>7, <1>9, <1>10, <1>11

(* Each day has marks of its own.                                          *)
LEMMA UpOfDay ==
    ASSUME NEW S, IsCalendar(days, S), NEW P, NEW k \in DOMAIN days,
           NEW C, C = CouldGiveUp(P, days[k].date)
    PROVE  C \cap UpOf(P, days) = UpOn(C, days[k].limit)
<1> DEFINE n == Len(days)
<1>1. /\ n \in Nat /\ DOMAIN days = 1..n /\ \A i \in 1..n : days[i].date \in Int
      /\ \A i, j \in 1..n : i < j => days[i].date < days[j].date
    BY DEF IsCalendar
<1> HIDE DEF n
<1>2. \A i, j \in 1..n : days[i].date = days[j].date => i = j
    <2> TAKE i, j \in 1..n
    <2>1. i \in Int /\ j \in Int /\ days[i].date \in Int /\ days[j].date \in Int
        BY <1>1
    <2>2. i < j \/ j < i \/ i = j
        BY <2>1
    <2> QED BY <1>1, <2>1, <2>2
<1>3. \A e : e \in C <=> e \in P /\ List!Work(e) > 0 /\ List!DateOf(e.from) = days[k].date
    BY DEF CouldGiveUp
<1>4. UpOn(C, days[k].limit) \subseteq C
    BY DEF UpOn
<1>5. ASSUME NEW e \in C, e \in UpOf(P, days) PROVE e \in UpOn(C, days[k].limit)
    <2>1. PICK j \in DOMAIN days : e \in UpOn(CouldGiveUp(P, days[j].date), days[j].limit)
        BY <1>5 DEF UpOf
    <2>2. e \in CouldGiveUp(P, days[j].date)
        BY <2>1 DEF UpOn
    <2>3. List!DateOf(e.from) = days[j].date
        BY <2>2 DEF CouldGiveUp
    <2>4. j = k
        BY <1>1, <1>2, <1>3, <2>3
    <2> QED BY <2>1, <2>4
<1>6. ASSUME NEW e \in UpOn(C, days[k].limit) PROVE e \in C /\ e \in UpOf(P, days)
    <2>1. e \in C /\ e \in P
        BY <1>3, <1>4
    <2> QED BY <2>1 DEF UpOf
<1> QED BY <1>4, <1>5, <1>6

(* What is marked in the list is what it takes, day by day.                *)
LEMMA GiveUpsAreMarked ==
    ASSUME List!Assumption, ListedWorld, NEW S, IsCalendar(days, S), NEW P, P \subseteq List!Pieces,
           NEW s, NEW I, AreRows(rows, P, UpOf(P, days), s, I),
           asked.order = "tail" => \A i, j \in DOMAIN rows :
               ~rows[i].gap /\ ~rows[j].gap /\ List!GivenUpFirst(rows[i], rows[j]) => j < i
    PROVE  List!GiveUpsSuffice
<1> DEFINE Up == UpOf(P, days)
           row(e) == RowOf(e, e \in Up)
<1> DEFINE Enough(k, here, marked) ==
              /\ days[k].limit <= 0 => marked = {}
              /\ days[k].limit > 0 => marked = here \/ List!WorkOf(marked) >= days[k].limit
              /\ \A r \in marked : \E q \in marked : List!Task(q).prio >= List!Task(r).prio
                                            /\ List!WorkOf(marked \ {q}) < days[k].limit
              /\ \A r \in marked, q \in here \ marked : List!Task(r).prio <= List!Task(q).prio
              /\ asked.order = "tail" =>
                    \A i, j \in DOMAIN rows : rows[i] \in marked /\ rows[j] \in here \ marked => j < i
           Here(k) == List!GiveUpCandidates(List!ToSet(rows), days[k].date)
           Marks(k) == {r \in Here(k) : r.up}
<1>0. (\A k \in DOMAIN days : Enough(k, Here(k), Marks(k))) => List!GiveUpsSuffice
    BY DEF List!GiveUpsSuffice
<1> HIDE DEF Enough
<1>1. SUFFICES ASSUME NEW k \in DOMAIN days,
                      NEW here, here = List!GiveUpCandidates(List!ToSet(rows), days[k].date),
                      NEW marked, marked = {r \in here : r.up}
               PROVE  Enough(k, here, marked)
    BY <1>0
<1> DEFINE C == CouldGiveUp(P, days[k].date)
           U == UpOn(C, days[k].limit)
<1>2. days[k].limit \in Int
    BY DEF IsCalendar
<1>3. C \subseteq P /\ C \subseteq List!Pieces
    BY DEF CouldGiveUp
<1>4. U = C \cap Up
    BY UpOfDay
<1>5. here = MarkedAs(C, Up)
    <2> DEFINE R == Has(rows)
    <2>1. R = MarkedAs(P, Up) \cup GapsOf(s, I)
        BY DEF AreRows
    <2>2. here = List!GiveUpCandidates(R, days[k].date)
        BY <1>1, ListCounts
    <2> HIDE DEF R, Up
    <2> QED BY <2>1, <2>2, CandidatesAre
<1> HIDE DEF C, U, Up
<1>6. /\ U \subseteq C
      /\ days[k].limit <= 0 => U = {}
      /\ days[k].limit > 0 => U = C \/ List!WorkOf(U) >= days[k].limit
      /\ \A e \in U : \E f \in U : /\ List!Task(e).prio <= List!Task(f).prio
                                  /\ List!WorkOf(U \ {f}) < days[k].limit
      /\ \A e \in U, f \in C \ U : /\ List!GivenUpFirst(e, f)
                                  /\ List!Task(e).prio <= List!Task(f).prio
    <2> DEFINE m == days[k].limit
    <2>1. m \in Int /\ U = UpOn(C, m)
        BY <1>2 DEF U
    <2> HIDE DEF m
    <2>2. /\ U \subseteq C
          /\ m <= 0 => U = {}
          /\ m > 0 => U = C \/ List!WorkOf(U) >= m
          /\ \A e \in U : \E f \in U : /\ List!Task(e).prio <= List!Task(f).prio
                                      /\ List!WorkOf(U \ {f}) < m
          /\ \A e \in U, f \in C \ U : /\ List!GivenUpFirst(e, f)
                                      /\ List!Task(e).prio <= List!Task(f).prio
        BY <1>3, <2>1, UpOnIs
    <2> QED BY <2>2 DEF m
<1>7. \A e : /\ ~row(e).gap /\ List!Task(row(e)) = List!Task(e)
             /\ row(e).up = (e \in Up)
    BY RowIsOf
<1>8. \A A : MarkedAs(A, Up) = {row(e) : e \in A}
    BY DEF MarkedAs
<1>9. \A e, f \in C : row(e) = row(f) => e = f
    BY <1>3, RowsOfPieces
<1>10. \A e, f : List!GivenUpFirst(row(e), row(f)) <=> List!GivenUpFirst(e, f)
    BY RowsGiveWay
<1>11. \A A : A \subseteq C => List!WorkOf(MarkedAs(A, Up)) = List!WorkOf(A)
    BY <1>3, RowsOfPieces
<1> HIDE DEF row
<1>12. \A e \in C : row(e) \in here /\ (row(e) \in marked <=> e \in U)
    BY <1>1, <1>4, <1>5, <1>7, <1>8
<1>13. \A r \in here : \E e \in C : r = row(e)
    BY <1>5, <1>8
<1>14. marked = MarkedAs(U, Up)
    <2>1. ASSUME NEW r \in marked PROVE r \in MarkedAs(U, Up)
        <3>1. PICK e \in C : r = row(e)
            BY <1>1, <1>13
        <3> QED BY <1>8, <1>12, <3>1
    <2>2. ASSUME NEW r \in MarkedAs(U, Up) PROVE r \in marked
        BY <1>6, <1>8, <1>12
    <2> QED BY <2>1, <2>2
<1>15. \A r \in marked : \E e \in U : r = row(e)
    BY <1>8, <1>14
<1>16. \A q \in here \ marked : \E f \in C \ U : q = row(f)
    BY <1>12, <1>13
<1>17. days[k].limit <= 0 => marked = {}
    BY <1>6, <1>15
<1>18. days[k].limit > 0 => marked = here \/ List!WorkOf(marked) >= days[k].limit
    BY <1>5, <1>6, <1>11, <1>14
<1>19. ASSUME NEW r \in marked
       PROVE  \E q \in marked : List!Task(q).prio >= List!Task(r).prio /\ List!WorkOf(marked \ {q}) < days[k].limit
    <2>1. PICK e \in U : r = row(e)
        BY <1>15
    <2>2. PICK f \in U : /\ List!Task(e).prio <= List!Task(f).prio
                         /\ List!WorkOf(U \ {f}) < days[k].limit
        BY <1>6
    <2>3. marked \ {row(f)} = MarkedAs(U \ {f}, Up)
        <3>1. ASSUME NEW x \in marked \ {row(f)} PROVE x \in MarkedAs(U \ {f}, Up)
            <4>1. PICK y \in U : x = row(y)
                BY <1>15
            <4>2. y \in U \ {f}
                BY <4>1
            <4> QED BY <1>8, <4>1, <4>2
        <3>2. ASSUME NEW x \in MarkedAs(U \ {f}, Up) PROVE x \in marked \ {row(f)}
            <4>1. PICK y \in U \ {f} : x = row(y)
                BY <1>8
            <4> QED BY <1>6, <1>9, <1>12, <4>1
        <3> QED BY <3>1, <3>2
    <2>4. row(f) \in marked /\ List!WorkOf(marked \ {row(f)}) < days[k].limit
        <3>1. U \ {f} \subseteq C
            BY <1>6
        <3> QED BY <1>6, <1>11, <1>12, <2>2, <2>3, <3>1
    <2>5. List!Task(row(f)).prio >= List!Task(r).prio
        <3>1. e \in List!Pieces /\ f \in List!Pieces
            BY <1>3, <1>6
        <3>2. List!Task(e).prio \in Int /\ List!Task(f).prio \in Int
            BY <3>1, PiecesAreOfPlan DEF IsPiece
        <3> QED BY <1>7, <2>1, <2>2, <3>2
    <2> QED BY <2>4, <2>5
<1>20. ASSUME NEW r \in marked, NEW q \in here \ marked
       PROVE  List!Task(r).prio <= List!Task(q).prio /\ List!GivenUpFirst(r, q) /\ ~r.gap /\ ~q.gap
    <2>1. PICK e \in U : r = row(e)
        BY <1>15
    <2>2. PICK f \in C \ U : q = row(f)
        BY <1>16
    <2> QED BY <1>6, <1>7, <1>10, <2>1, <2>2
<1>21. asked.order = "tail" =>
           \A i, j \in DOMAIN rows : rows[i] \in marked /\ rows[j] \in here \ marked => j < i
    BY <1>20
<1> QED BY <1>17, <1>18, <1>19, <1>20, <1>21 DEF Enough

-----------------------------------------------------------------------------
(***************************************************************************)
(* No time is left out                                                     *)
(***************************************************************************)
(* Today's list and that of two days show all they consider, and every gap *)
(* that is long enough.                                                    *)
LEMMA AllIsShown ==
    ASSUME List!Assumption, ListedWorld, NEW p, p.is \in {"today", "near"},
           NEW s, s = List!Considered(p), NEW n, n = Cardinality(ReachedBy(p))
    PROVE  /\ ShownPieces(p, s) = ReachedBy(p)
           /\ \A i \in 1..n : List!GapIsShown(p, s, i) <=> s[i].from - List!Cursor(s, i) >= Minute
           /\ ShownGaps(p, s) = {i \in 1..n : List!GapIsShown(p, s, i)}
<1>1. InTurn(s, n) /\ Has(s) = ReachedBy(p) /\ ReachedBy(p) \subseteq List!Pieces
    BY ConsideredInTurn
<1>2. p.is # "minutes"
    OBVIOUS
<1>3. ASSUME NEW e \in ReachedBy(p)
      PROVE  /\ List!Selected(p, e) /\ e.from \in Int
             /\ p.is = "today" => e.from < List!Tomorrow
             /\ p.is = "near" => e.from - List!Tomorrow < DayTicks
    <2>1. IsPiece(e)
        BY <1>1, PiecesAreOfPlan
    <2> DEFINE a == List!Ahead(e)
    <2>2. a \in Nat
        BY <2>1 DEF IsPiece
    <2>3. /\ p.is = "today" => a <= 0
          /\ p.is = "near" => a <= 1
        BY DEF ReachedBy, List!InReach
    <2>4. List!Selected(p, e)
        <3>1. CASE p.is = "today"
            <4>1. a = 0
                BY <2>2, <2>3, <3>1
            <4> HIDE DEF a
            <4> QED BY <3>1, <4>1 DEF List!Selected, a
        <3>2. CASE p.is = "near"
            <4>1. a \in {0, 1}
                BY <2>2, <2>3, <3>2
            <4> HIDE DEF a
            <4> QED BY <3>2, <4>1 DEF List!Selected, a
        <3> QED BY <3>1, <3>2
    <2> HIDE DEF a
    <2>5. List!Today \in Int /\ e.from \in Int /\ List!DateOf(e.from) = List!Today + a
        BY <2>1 DEF IsPiece, a
    <2>6. List!Tomorrow = (List!Today + 1) * DayTicks + MorningTicks
        BY DEF List!Tomorrow, List!NextBusinessDayStart, List!Today
    <2>7. DayTicks \in Int /\ MorningTicks \in Int
        BY ListNumbers
    <2> DEFINE t == List!Today
    <2> HIDE DEF t
    <2>8. t \in Int /\ t + 1 \in Int /\ List!DateOf(e.from) = t + a
        BY <2>5 DEF t
    <2>9. /\ List!DateOf(e.from) <= t => e.from < (t + 1) * DayTicks + MorningTicks
          /\ List!DateOf(e.from) <= t + 1 => e.from < ((t + 1) + 1) * DayTicks + MorningTicks
        BY <2>5, <2>8, ListDates
    <2>10. p.is = "today" => e.from < List!Tomorrow
        BY <2>2, <2>3, <2>6, <2>8, <2>9 DEF t
    <2>11. p.is = "near" => e.from - List!Tomorrow < DayTicks
        <3> SUFFICES ASSUME p.is = "near" PROVE e.from - List!Tomorrow < DayTicks
            OBVIOUS
        <3> DEFINE x == (t + 1) * DayTicks
        <3>1. x \in Int /\ ((t + 1) + 1) * DayTicks = x + DayTicks
            BY <2>7, <2>8
        <3>2. e.from < ((t + 1) + 1) * DayTicks + MorningTicks
            BY <2>2, <2>3, <2>8, <2>9
        <3>3. List!Tomorrow = x + MorningTicks
            BY <2>6 DEF t
        <3> HIDE DEF x
        <3> QED BY <2>5, <2>7, <3>1, <3>2, <3>3
    <2> QED BY <2>4, <2>5, <2>10, <2>11
<1>4. ShownPieces(p, s) = ReachedBy(p)
    BY <1>1, <1>2, <1>3 DEF ShownPieces
<1>5. ASSUME NEW i \in 1..n
      PROVE  List!GapIsShown(p, s, i) <=> s[i].from - List!Cursor(s, i) >= Minute
    <2>1. s[i] \in ReachedBy(p)
        BY <1>1 DEF InTurn, Has
    <2> QED BY <1>3, <2>1 DEF List!GapIsShown
<1>6. ShownGaps(p, s) = {i \in 1..n : List!GapIsShown(p, s, i)}
    BY <1>1, <1>2 DEF ShownGaps, InTurn
<1> QED BY <1>4, <1>5, <1>6

\* The row of a piece or of the gap before it that has some time.
AtPiece(s, i, h) == s[i].from <= h /\ h < s[i].to
AtGap(s, i, h) == List!Cursor(s, i) <= h /\ h < s[i].from

(* A time before the end of some piece is in one, or in the gap before it, *)
(* and in no other.                                                        *)
LEMMA TimeIsInOne ==
    ASSUME List!Assumption, ListedWorld, NEW s, NEW n, InTurn(s, n), NEW h \in Int, world.now <= h,
           \E i \in 1..n : h < s[i].to
    PROVE  \E i \in 1..n : /\ AtPiece(s, i, h) \/ AtGap(s, i, h)
                           /\ ~(AtPiece(s, i, h) /\ AtGap(s, i, h))
                           /\ \A j \in 1..n : AtPiece(s, j, h) => s[j] = s[i] /\ AtPiece(s, i, h)
                           /\ \A j \in 1..n : AtGap(s, j, h) => j = i
<1> DEFINE D == {i \in 1..n : h < s[i].to}
<1>1. /\ n \in Nat /\ \A i, j \in 1..n : i < j => s[i].from <= s[j].from
      /\ \A i \in 1..n : s[i] \in List!Pieces
    BY DEF InTurn
<1>2. \A i \in 1..n : s[i].from \in Int /\ s[i].to \in Int /\ s[i].from <= s[i].to
    BY <1>1, PiecesAreOfPlan DEF IsPiece
<1>3. PICK i \in D : \A j \in D : i <= j
    <2>1. D \in SUBSET Nat /\ D # {}
        OBVIOUS
    <2> HIDE DEF D
    <2> QED BY <2>1, LeastNatural
<1>4. i \in 1..n /\ h < s[i].to /\ \A j \in 1..n : j < i => s[j].to <= h
    BY <1>1, <1>2, <1>3
<1> HIDE DEF D
<1>5. ASSUME NEW j \in 1..n
      PROVE  /\ List!Cursor(s, j) \in Int /\ \A k \in 1..(j - 1) : s[k].to <= List!Cursor(s, j)
             /\ List!Cursor(s, j) = world.now \/ \E k \in 1..(j - 1) : s[k].to = List!Cursor(s, j)
    BY CursorIs
<1>6. List!Cursor(s, i) <= h
    <2>1. \A k \in 1..(i - 1) : k \in 1..n /\ k < i
        BY <1>1, <1>4
    <2> QED BY <1>4, <1>5, <2>1
<1>7. AtPiece(s, i, h) \/ AtGap(s, i, h)
    BY <1>2, <1>4, <1>6 DEF AtPiece, AtGap
<1>8. ~(AtPiece(s, i, h) /\ AtGap(s, i, h))
    BY <1>2, <1>4 DEF AtPiece, AtGap
<1>9. ASSUME NEW j \in 1..n, AtPiece(s, j, h) PROVE s[j] = s[i] /\ AtPiece(s, i, h)
    <2>1. s[j].from <= h /\ h < s[j].to
        BY <1>9 DEF AtPiece
    <2>2. j = i \/ i < j
        <3>1. ~(j < i)
            BY <1>2, <1>4, <2>1
        <3> QED BY <1>1, <1>4, <3>1
    <2>3. CASE j = i
        BY <1>9, <2>3
    <2>4. CASE i < j
        <3>1. s[i].from <= h
            BY <1>1, <1>2, <1>4, <2>1, <2>4
        <3>2. s[i] \in List!Pieces /\ s[j] \in List!Pieces
            BY <1>1, <1>4
        <3>3. \/ s[i] = s[j] \/ s[i].to <= s[j].from \/ s[j].to <= s[i].from
              \/ s[i].from = s[i].to \/ s[j].from = s[j].to
            BY <3>2, PiecesAreOfPlan
        <3>4. s[i] = s[j]
            BY <1>2, <1>4, <2>1, <3>1, <3>3
        <3> QED BY <1>4, <3>1, <3>4 DEF AtPiece
    <2> QED BY <2>2, <2>3, <2>4
<1>10. ASSUME NEW j \in 1..n, AtGap(s, j, h) PROVE j = i
    <2>1. List!Cursor(s, j) <= h /\ h < s[j].from
        BY <1>10 DEF AtGap
    <2>2. ~(j < i)
        BY <1>2, <1>4, <2>1
    <2>3. ~(i < j)
        <3> SUFFICES ASSUME i < j PROVE FALSE
            OBVIOUS
        <3>1. i \in 1..(j - 1)
            BY <1>1, <1>4
        <3>2. s[i].to <= List!Cursor(s, j)
            BY <1>5, <3>1
        <3> QED BY <1>2, <1>4, <1>5, <2>1, <3>2
    <2> QED BY <1>1, <1>4, <2>2, <2>3
<1> QED BY <1>4, <1>7, <1>8, <1>9, <1>10

\* The rows some time is in.
RowsAt(R, h) == {r \in R : r.from <= h /\ h < r.to}

OneAt(R, h) ==
    \/ \E r : RowsAt(R, h) = {r}
    \/ RowsAt(R, h) = {} /\ \E d \in 1..(Minute - 1), e \in List!Pieces : e.from = h + d

(* Of two days no time is in two rows, and it is in none only before a     *)
(* piece that begins in less than a minute.                                *)
LEMMA OneRowAtATime ==
    ASSUME List!Assumption, ListedWorld, NEW p, p.is \in {"today", "near"},
           NEW s, s = List!Considered(p), NEW Up,
           NEW R, R = MarkedAs(ShownPieces(p, s), Up) \cup GapsOf(s, ShownGaps(p, s)),
           NEW h \in Int, world.now <= h, \E r \in R : h < r.to
    PROVE  OneAt(R, h)
<1> DEFINE n == Cardinality(ReachedBy(p))
           I == ShownGaps(p, s)
           P == ShownPieces(p, s)
           row(e) == RowOf(e, e \in Up)
           gap(i) == GapOf(List!Cursor(s, i), s[i].from)
           there == RowsAt(R, h)
<1>1. InTurn(s, n) /\ Has(s) = ReachedBy(p) /\ ReachedBy(p) \subseteq List!Pieces
    BY ConsideredInTurn
<1>2. /\ P = ReachedBy(p)
      /\ \A i \in 1..n : List!GapIsShown(p, s, i) <=> s[i].from - List!Cursor(s, i) >= Minute
      /\ I = {i \in 1..n : List!GapIsShown(p, s, i)}
    BY AllIsShown
<1> HIDE DEF n, I, P
<1>3. n \in Nat /\ DOMAIN s = 1..n /\ \A i \in 1..n : s[i] \in List!Pieces
    BY <1>1 DEF InTurn
<1>4. \A i \in 1..n : s[i].from \in Int /\ s[i].to \in Int /\ s[i].from <= s[i].to /\ s[i] \in P
    <2>1. \A i \in 1..n : s[i] \in Has(s)
        BY <1>3 DEF Has
    <2> QED BY <1>1, <1>2, <1>3, <2>1, PiecesAreOfPlan DEF IsPiece
<1>5. /\ \A e : row(e).from = e.from /\ row(e).to = e.to
      /\ \A i : gap(i).from = List!Cursor(s, i) /\ gap(i).to = s[i].from
    BY RowIsOf, GapIsOf
<1>6. /\ \A e \in P : row(e) \in R
      /\ \A i \in I : gap(i) \in R
    BY DEF MarkedAs, GapsOf, P, I
<1>7. ASSUME NEW r \in R
      PROVE  (\E i \in 1..n : r = row(s[i])) \/ (\E i \in I : r = gap(i))
    <2>1. CASE r \in MarkedAs(P, Up)
        <3>1. PICK e \in P : r = row(e)
            BY <2>1 DEF MarkedAs
        <3>2. e \in Has(s)
            BY <1>1, <1>2
        <3>3. PICK i \in 1..n : e = s[i]
            BY <1>3, <3>2 DEF Has
        <3> QED BY <3>1, <3>3
    <2>2. CASE r \in GapsOf(s, I)
        BY <2>2 DEF GapsOf
    <2> QED BY <2>1, <2>2 DEF P, I
<1> HIDE DEF row, gap
<1>0. there = {r \in R : r.from <= h /\ h < r.to}
    BY DEF RowsAt
<1> HIDE DEF there, OneAt
<1>8. \A i \in I : i \in 1..n /\ List!GapIsShown(p, s, i)
    BY <1>2
<1>9. \E i \in 1..n : h < s[i].to
    <2>1. PICK r \in R : h < r.to
        OBVIOUS
    <2>2. CASE \E i \in 1..n : r = row(s[i])
        BY <1>5, <2>1, <2>2
    <2>3. CASE \E i \in I : r = gap(i)
        <3>1. PICK i \in I : r = gap(i)
            BY <2>3
        <3>2. h < s[i].from /\ i \in 1..n
            BY <1>5, <1>8, <2>1, <3>1
        <3>3. h < s[i].to
            BY <1>4, <3>2
        <3> QED BY <3>2, <3>3
    <2> QED BY <1>7, <2>2, <2>3
<1>10. PICK i \in 1..n : /\ AtPiece(s, i, h) \/ AtGap(s, i, h)
                         /\ ~(AtPiece(s, i, h) /\ AtGap(s, i, h))
                         /\ \A j \in 1..n : AtPiece(s, j, h) => s[j] = s[i] /\ AtPiece(s, i, h)
                         /\ \A j \in 1..n : AtGap(s, j, h) => j = i
    BY <1>1, <1>9, TimeIsInOne
<1>11. ASSUME NEW r \in there
       PROVE  \/ AtPiece(s, i, h) /\ r = row(s[i])
              \/ AtGap(s, i, h) /\ i \in I /\ r = gap(i)
    <2>1. r \in R /\ r.from <= h /\ h < r.to
        BY <1>0
    <2>2. CASE \E j \in 1..n : r = row(s[j])
        <3>1. PICK j \in 1..n : r = row(s[j])
            BY <2>2
        <3>2. AtPiece(s, j, h)
            BY <1>5, <2>1, <3>1 DEF AtPiece
        <3>3. s[j] = s[i] /\ AtPiece(s, i, h)
            BY <1>10, <3>2
        <3> QED BY <3>1, <3>3
    <2>3. CASE \E j \in I : r = gap(j)
        <3>1. PICK j \in I : r = gap(j)
            BY <2>3
        <3>2. AtGap(s, j, h)
            BY <1>5, <2>1, <3>1 DEF AtGap
        <3>3. j = i
            BY <1>8, <1>10, <3>2
        <3> QED BY <3>1, <3>2, <3>3
    <2> QED BY <1>7, <2>1, <2>2, <2>3
<1>12. CASE AtPiece(s, i, h)
    <2>1. row(s[i]) \in there
        BY <1>0, <1>4, <1>5, <1>6, <1>12 DEF AtPiece
    <2>2. there = {row(s[i])}
        BY <1>10, <1>11, <1>12, <2>1
    <2> QED BY <2>2 DEF there, OneAt
<1>13. CASE AtGap(s, i, h) /\ i \in I
    <2>1. gap(i) \in there
        BY <1>0, <1>5, <1>6, <1>13 DEF AtGap
    <2>2. there = {gap(i)}
        BY <1>10, <1>11, <1>13, <2>1
    <2> QED BY <2>2 DEF there, OneAt
<1>14. CASE AtGap(s, i, h) /\ i \notin I
    <2>1. there = {}
        BY <1>10, <1>11, <1>14
    <2>2. ~(s[i].from - List!Cursor(s, i) >= Minute)
        BY <1>2, <1>14
    <2> DEFINE c == List!Cursor(s, i)
               f == s[i].from
               d == f - h
    <2>3. c \in Int /\ f \in Int /\ Minute \in Int
        BY <1>1, <1>4, CursorIs, ListNumbers
    <2>4. c <= h /\ h < f /\ ~(f - c >= Minute)
        BY <1>14, <2>2 DEF AtGap
    <2>5. s[i] \in List!Pieces
        BY <1>3
    <2> HIDE DEF c
    <2>6. d \in 1..(Minute - 1) /\ f = h + d
        <3> HIDE DEF f
        <3> QED BY <2>3, <2>4
    <2> HIDE DEF d
    <2> QED BY <2>1, <2>5, <2>6 DEF there, OneAt
<1> QED BY <1>10, <1>12, <1>13, <1>14 DEF there, OneAt

\* Up to the end of the last row every time is in one row or gap, or in a gap
\* too short to be shown.
LEMMA TimeIsInTheList ==
    ASSUME List!Assumption, ListedWorld, NEW p, p = asked.pattern, NEW s, s = List!Considered(p), NEW Up,
           AreRows(rows, ShownPieces(p, s), Up, s, ShownGaps(p, s))
    PROVE  List!TimeIsAccountedFor
<1> DEFINE R == Has(rows)
           X == {r.to : r \in R} \cup {world.now}
           At(h) == {r \in R : r.from <= h /\ h < r.to}
<1>1. List!TimeIsAccountedFor <=>
         (List!Asked({"today", "near"}) => \A h \in world.now..(Max(X) - 1) :
             \/ Cardinality(At(h)) = 1
             \/ At(h) = {} /\ \E d \in 1..(Minute - 1), e \in List!Pieces : e.from = h + d)
    BY ListCounts DEF List!TimeIsAccountedFor
<1>2. SUFFICES ASSUME List!Asked({"today", "near"}), NEW h \in world.now..(Max(X) - 1)
               PROVE  \/ Cardinality(At(h)) = 1
                      \/ At(h) = {} /\ \E d \in 1..(Minute - 1), e \in List!Pieces : e.from = h + d
    BY <1>1
<1>3. p.is \in {"today", "near"}
    BY <1>2 DEF List!Asked
<1> DEFINE n == Cardinality(ReachedBy(p))
<1>4. InTurn(s, n) /\ Has(s) = ReachedBy(p) /\ ReachedBy(p) \subseteq List!Pieces
    BY ConsideredInTurn
<1>5. R = MarkedAs(ShownPieces(p, s), Up) \cup GapsOf(s, ShownGaps(p, s)) /\ rows \in Seq(R)
    BY DEF AreRows
<1>6. /\ ShownPieces(p, s) = ReachedBy(p)
      /\ ShownGaps(p, s) = {i \in 1..n : List!GapIsShown(p, s, i)}
    BY <1>3, AllIsShown
<1> HIDE DEF n
<1>7. ASSUME NEW r \in R PROVE r.to \in Int
    <2>1. CASE r \in MarkedAs(ShownPieces(p, s), Up)
        <3>1. PICK e \in List!Pieces : r = RowOf(e, e \in Up)
            BY <1>4, <1>6, <2>1 DEF MarkedAs
        <3> QED BY <3>1, RowIsOf, PiecesAreOfPlan DEF IsPiece
    <2>2. CASE r \in GapsOf(s, ShownGaps(p, s))
        <3>1. PICK i \in ShownGaps(p, s) : r = GapOf(List!Cursor(s, i), s[i].from)
            BY <2>2 DEF GapsOf
        <3>2. s[i] \in List!Pieces
            BY <1>4, <1>6 DEF InTurn
        <3> QED BY <3>1, <3>2, GapIsOf, PiecesAreOfPlan DEF IsPiece
    <2> QED BY <1>5, <2>1, <2>2
<1>8. IsFiniteSet(X) /\ X # {} /\ X \subseteq Int
    <2>1. world.now \in Int
        BY DEF ListedWorld
    <2> DEFINE f == [i \in 1..Len(rows) |-> rows[i].to]
               Y == {f[i] : i \in 1..Len(rows)}
    <2>2. Len(rows) \in Nat /\ DOMAIN rows = 1..Len(rows)
        BY <1>5
    <2>3. IsFiniteSet(1..Len(rows))
        BY <2>2, FS_Interval
    <2>4. IsFiniteSet(Y)
        <3> HIDE DEF f
        <3> QED BY <2>3, ImageOfFinite
    <2>5. Y = {r.to : r \in R}
        BY <2>2 DEF Has
    <2>6. IsFiniteSet({world.now})
        BY FS_Singleton
    <2> HIDE DEF Y, R
    <2>7. IsFiniteSet(X)
        BY <2>4, <2>5, <2>6, FS_Union
    <2> QED BY <1>7, <2>1, <2>7
<1> HIDE DEF R
<1>9. Max(X) \in X /\ Max(X) \in Int
    <2> HIDE DEF X
    <2> QED BY <1>8, MaxIsGreatest
<1>10. h \in Int /\ world.now <= h /\ \E r \in R : h < r.to
    <2>1. world.now \in Int
        BY DEF ListedWorld
    <2> DEFINE m == Max(X)
    <2>2. h \in Int /\ world.now <= h /\ h < m
        <3> HIDE DEF m
        <3>1. h \in world.now..(m - 1) /\ m \in Int
            BY <1>2, <1>9 DEF m
        <3> QED BY <2>1, <3>1
    <2>3. m \in X
        BY <1>9
    <2> HIDE DEF m
    <2>4. m # world.now
        BY <2>1, <2>2
    <2> QED BY <2>2, <2>3, <2>4
<1>11. \/ \E r : At(h) = {r}
       \/ At(h) = {} /\ \E d \in 1..(Minute - 1), e \in List!Pieces : e.from = h + d
    <2>1. R = MarkedAs(ShownPieces(p, s), Up) \cup GapsOf(s, ShownGaps(p, s))
        BY <1>5
    <2>2. OneAt(R, h)
        <3> HIDE DEF At, X
        <3> QED BY <1>3, <1>10, <2>1, OneRowAtATime
    <2> QED BY <2>2 DEF RowsAt, OneAt
<1>12. \A r : Cardinality({r}) = 1
    BY FS_Singleton
<1> HIDE DEF At
<1> QED BY <1>11, <1>12

-----------------------------------------------------------------------------
(***************************************************************************)
(* The shares of the categories                                            *)
(***************************************************************************)
RowsOf(R) == {r \in R : ~r.gap}

(* They add up to the work of the rows.                                    *)
LEMMA SharesAreTheWork ==
    ASSUME List!Assumption, ListedWorld, NEW P, P \subseteq List!Pieces, NEW Up,
           RowsOf(Has(rows)) = MarkedAs(P, Up)
    PROVE  List!SumFunction(List!Categories(rows)) = List!WorkOf(P)
<1> DEFINE R == RowsOf(Has(rows))
           T == {List!Task(r).category : r \in R}
           L == LengthOf(R)
           cat == [r \in R |-> List!Task(r).category]
           h == PartSums(L, R, cat, T)
           g == List!Categories(rows)
<1>1. IsFiniteSet(R) /\ List!WorkOf(R) = List!WorkOf(P)
    BY RowsOfPieces
<1>2. ASSUME NEW r \in R PROVE r.from \in Int /\ r.to \in Int /\ r.from <= r.to
    <2>1. PICK e \in P : r = RowOf(e, e \in Up)
        BY DEF MarkedAs
    <2>2. e \in List!Pieces
        OBVIOUS
    <2> QED BY <2>1, <2>2, RowIsOf, PiecesAreOfPlan DEF IsPiece
<1>3. TakeTime(R)
    BY <1>1, <1>2 DEF TakeTime
<1>4. g = [c \in T |-> List!WorkOf({r \in R : List!Task(r).category = c})]
    BY ListCounts DEF List!Categories, RowsOf
<1> HIDE DEF R
<1>5. IsFiniteSet(T)
    <2> DEFINE Y == {cat[r] : r \in R}
    <2>1. Y = T
        OBVIOUS
    <2>2. IsFiniteSet(Y)
        <3> HIDE DEF cat
        <3> QED BY <1>1, ImageOfFinite
    <2> QED BY <2>1, <2>2
<1>6. \A r \in R : L[r] \in Int /\ cat[r] \in T /\ cat[r] = List!Task(r).category
    BY <1>2 DEF LengthOf
<1>7. DOMAIN g = T
    BY <1>4
<1>8. ASSUME NEW c \in T PROVE h[c] \in Int /\ g[c] = h[c]
    <2> DEFINE Q == {r \in R : cat[r] = c}
    <2>1. g[c] = List!WorkOf({r \in R : List!Task(r).category = c})
        BY <1>4
    <2>2. {r \in R : List!Task(r).category = c} = Q
        BY <1>6
    <2>3. h[c] = SumOver(L, Q)
        BY DEF PartSums
    <2>4. Q \subseteq R
        OBVIOUS
    <2> HIDE DEF Q, cat, g, h
    <2>5. List!WorkOf(Q) = SumOver(L, Q) /\ List!WorkOf(Q) \in Nat
        BY <1>3, <2>4, WorkOfPart
    <2> QED BY <2>1, <2>2, <2>3, <2>5
<1> HIDE DEF T, cat, g, L
<1>9. SumOver(L, R) = SumOver(h, T)
    BY <1>1, <1>5, <1>6, SumOfParts
<1> HIDE DEF h
<1>10. SumOver(g, T) = SumOver(h, T)
    BY <1>5, <1>8, SumOfTheSame
<1>11. List!SumFunction(g) = SumOver(g, T)
    BY <1>7, ListSums
<1>12. List!WorkOf(R) = SumOver(L, R)
    BY ListWork DEF L
<1> QED BY <1>1, <1>9, <1>10, <1>11, <1>12 DEF g

(* Of rows of today the time they share is today's.                        *)
LEMMA DenominatorIsToday ==
    ASSUME List!Assumption, ListedWorld, NEW P, P \subseteq List!Pieces, P # {},
           \A e \in P : List!DateOf(e.from) = List!Today, NEW Up,
           RowsOf(Has(rows)) = MarkedAs(P, Up)
    PROVE  List!Denominator(rows) = world.free[List!Today] * Minute
<1> DEFINE R == RowsOf(Has(rows))
           T == {List!DateOf(r.from) : r \in R}
           t == List!Today
           g == [d \in T |-> world.free[d] * Minute]
<1>1. List!Denominator(rows) = List!SumFunction(g)
    BY ListCounts DEF List!Denominator, RowsOf
<1>2. T = {t}
    <2>1. \A r \in R : List!DateOf(r.from) = t
        BY RowIsOf DEF MarkedAs
    <2>2. R # {}
        BY DEF MarkedAs
    <2> HIDE DEF R, t
    <2> QED BY <2>1, <2>2
<1>3. t \in DOMAIN world.free
    BY PiecesAreOfPlan DEF IsPiece
<1>4. g[t] \in Int /\ g[t] = world.free[t] * Minute
    <2>1. g[t] = world.free[t] * Minute
        BY <1>2
    <2>2. world.free[t] \in Nat /\ Minute \in Nat
        BY <1>3, ListNumbers DEF ListedWorld
    <2> HIDE DEF g, t
    <2> QED BY <2>1, <2>2
<1>5. DOMAIN g = T
    OBVIOUS
<1> HIDE DEF g, T, t
<1>6. List!SumFunction(g) = SumOver(g, {t})
    BY <1>2, <1>5, ListSums
<1>7. SumOver(g, {t}) = g[t]
    <2>1. IsFiniteSet({t}) /\ {t} \ {t} = {}
        BY FS_Singleton
    <2>2. SumOver(g, {t}) = g[t] + SumOver(g, {t} \ {t})
        BY <1>4, <2>1, SumWithout
    <2>3. SumOver(g, {t} \ {t}) = 0
        BY <2>1, SumOfNothing
    <2> DEFINE x == SumOver(g, {t} \ {t})
               y == SumOver(g, {t})
               z == g[t]
    <2>4. y = z + x /\ x = 0 /\ z \in Int
        BY <1>4, <2>2, <2>3
    <2> HIDE DEF x, y, z
    <2> QED BY <2>4 DEF y, z
<1> QED BY <1>1, <1>4, <1>6, <1>7 DEF t

\* The shares of the categories exceed what is left of today exactly where the
\* calendar says that today is too full.
LEMMA SharesAreOfToday ==
    ASSUME List!Assumption, ListedWorld, NEW p, p = asked.pattern, NEW s, s = List!Considered(p), NEW Up,
           AreRows(rows, ShownPieces(p, s), Up, s, ShownGaps(p, s)),
           IsCalendar(days, ReachedBy(p))
    PROVE  List!SharesMatchCalendar
<1> DEFINE P == ReachedBy(p)
           t == List!Today
<1>1. SUFFICES ASSUME p.is = "today", days # << >>
               PROVE  List!SumFunction(List!Categories(rows)) > List!Denominator(rows)
                         <=> ~List!Fits(days[1])
    BY DEF List!SharesMatchCalendar, List!Asked
<1>2. ShownPieces(p, s) = P
    BY <1>1, AllIsShown
<1>3. P \subseteq List!Pieces /\ \A e \in P : IsPiece(e)
    BY PiecesAreOfPlan DEF ReachedBy
<1>4. \A e \in P : List!DateOf(e.from) = t
    <2> TAKE e \in P
    <2> DEFINE a == List!Ahead(e)
    <2>1. a <= 0
        BY <1>1 DEF ReachedBy, List!InReach
    <2>2. a \in Nat /\ t \in Int /\ List!DateOf(e.from) = t + a
        BY <1>3 DEF IsPiece
    <2> HIDE DEF a, t
    <2> QED BY <2>1, <2>2
<1>5. RowsOf(Has(rows)) = MarkedAs(P, Up)
    <2>1. Has(rows) = MarkedAs(P, Up) \cup GapsOf(s, ShownGaps(p, s))
        BY <1>2 DEF AreRows
    <2>2. \A r \in GapsOf(s, ShownGaps(p, s)) : r.gap
        BY GapIsOf DEF GapsOf
    <2>3. \A r \in MarkedAs(P, Up) : ~r.gap
        BY RowIsOf DEF MarkedAs
    <2> HIDE DEF P
    <2> QED BY <2>1, <2>2, <2>3 DEF RowsOf
<1> HIDE DEF P
<1>6. /\ 1 \in 1..Len(days) /\ days[1].date \in DatesOf(P) /\ IsDay(days[1])
      /\ days[1].work = List!WorkOf(OnDate(P, days[1].date))
      /\ days[1].free = world.free[days[1].date] * Minute
    <2>1. Len(days) \in Nat /\ DOMAIN days = 1..Len(days)
        BY DEF IsCalendar, P
    <2>2. Len(days) # 0
        BY <1>1, <2>1
    <2>3. 1 \in 1..Len(days)
        BY <2>1, <2>2
    <2> QED BY <2>3 DEF IsCalendar, P
<1>7. P # {} /\ days[1].date = t
    BY <1>4, <1>6 DEF DatesOf
<1>8. OnDate(P, t) = P
    BY <1>4 DEF OnDate
<1>9. List!SumFunction(List!Categories(rows)) = List!WorkOf(P)
    BY <1>3, <1>5, SharesAreTheWork
<1>10. List!Denominator(rows) = world.free[t] * Minute
    BY <1>3, <1>4, <1>5, <1>7, DenominatorIsToday
<1>11. List!Fits(days[1]) <=> days[1].work <= days[1].free
    BY DEF List!Fits
<1>12. days[1].work \in Int /\ days[1].free \in Int
    BY <1>6 DEF IsDay
<1> HIDE DEF t
<1> QED BY <1>6, <1>7, <1>8, <1>9, <1>10, <1>11, <1>12

-----------------------------------------------------------------------------
(***************************************************************************)
(* The list is true                                                        *)
(***************************************************************************)
\* What is shown for a pattern: the pieces of work in their order, the
\* calendar and the rows, as they come, marked, and as they stand.
Shows(p, order, gapId, s, cal, all, marked) ==
    /\ s = List!Considered(p) /\ cal = List!Days(s)
    /\ all = List!Rows(p, s) /\ marked = List!Marked(all, cal)
    /\ days = cal
    /\ rows = IF order = "tail" THEN List!LowPriorityTail(marked, gapId) ELSE List!Reverse(marked)

\* Nothing is shown yet, or what is asked for.
ListInv ==
    /\ world \in ListWorlds
    /\ \/ asked = << >> /\ rows = << >> /\ days = << >>
       \/ \E p \in Patterns, order \in {"plan", "tail"}, gapId \in GapIds :
             /\ asked = [pattern |-> p, order |-> order]
             /\ \E s, cal, all, marked : Shows(p, order, gapId, s, cal, all, marked)

(* What there is to list does not change, and what is made of it neither.  *)
LEMMA SameWorldSameList ==
    ASSUME world' = world
    PROVE  /\ \A p : List!Considered(p)' = List!Considered(p)
           /\ \A s : List!Days(s)' = List!Days(s)
           /\ \A p, s : List!Rows(p, s)' = List!Rows(p, s)
           /\ \A l, d : List!Marked(l, d)' = List!Marked(l, d)
           /\ \A l, d : List!LowPriorityTail(l, d)' = List!LowPriorityTail(l, d)
<1>1. \A p : List!Considered(p)' = List!Considered(p)
    BY DEF List!Considered, List!InOrder, List!InReach, List!Ahead, List!Today, List!Entry, List!Task, List!Rank
<1>2. \A s : List!Days(s)' = List!Days(s)
    BY DEF List!Days, List!InOrder, List!Sums, List!Task, List!Rank, List!Adjustable
<1>3. \A p, s : List!Rows(p, s)' = List!Rows(p, s)
    BY DEF List!Rows, List!Offer, List!Row, List!Gap, List!GapIsShown, List!Cursor, List!Selected, List!Task,
           List!Rank, List!Icon, List!DueToday, List!Tomorrow, List!Today, List!DaysToSunday, List!Ahead,
           List!DateEnd
<1>4. \A l, d : List!Marked(l, d)' = List!Marked(l, d)
    BY DEF List!Marked, List!GivenUp, List!GivenUpFirst, List!Task, List!Rank
<1>5. \A l, d : List!LowPriorityTail(l, d)' = List!LowPriorityTail(l, d)
    BY DEF List!LowPriorityTail, List!InOrder, List!Task, List!Rank
<1> QED BY <1>1, <1>2, <1>3, <1>4, <1>5

\* The invariant of the list is kept: the world stays, the rest is made of it.
LEMMA ListGoesOn == ListInv /\ [List!Next]_List!vars => ListInv'
<1> SUFFICES ASSUME ListInv, [List!Next]_List!vars PROVE ListInv'
    OBVIOUS
<1>1. world' = world
    BY DEF List!Next, List!ShowAllTasks, List!vars
<1>2. ASSUME NEW p, NEW order, NEW gapId, NEW s, NEW cal, NEW all, NEW marked,
             s = List!Considered(p), cal = List!Days(s), all = List!Rows(p, s), marked = List!Marked(all, cal),
             days' = cal,
             rows' = IF order = "tail" THEN List!LowPriorityTail(marked, gapId) ELSE List!Reverse(marked)
      PROVE  Shows(p, order, gapId, s, cal, all, marked)'
    <2>1. /\ s = List!Considered(p)' /\ cal = List!Days(s)' /\ all = List!Rows(p, s)'
          /\ marked = List!Marked(all, cal)'
        BY <1>1, <1>2, SameWorldSameList
    <2>2. rows' = IF order = "tail" THEN List!LowPriorityTail(marked, gapId)' ELSE List!Reverse(marked)
        BY <1>1, <1>2, SameWorldSameList
    <2> QED BY <1>2, <2>1, <2>2 DEF Shows
<1>3. CASE UNCHANGED List!vars
    <2>1. asked' = asked /\ rows' = rows /\ days' = days
        BY <1>3 DEF List!vars
    <2>2. CASE asked = << >> /\ rows = << >> /\ days = << >>
        BY <1>1, <2>1, <2>2 DEF ListInv
    <2>3. ASSUME NEW p \in Patterns, NEW order \in {"plan", "tail"}, NEW gapId \in GapIds,
                 asked = [pattern |-> p, order |-> order],
                 NEW s, NEW cal, NEW all, NEW marked, Shows(p, order, gapId, s, cal, all, marked)
          PROVE  ListInv'
        <3>1. Shows(p, order, gapId, s, cal, all, marked)'
            BY <1>2, <2>1, <2>3 DEF Shows
        <3> QED BY <1>1, <2>1, <2>3, <3>1 DEF ListInv
    <2> QED BY <2>2, <2>3 DEF ListInv
<1>4. CASE List!Next
    <2>1. PICK p \in Patterns, order \in {"plan", "tail"}, gapId \in GapIds : List!ShowAllTasks(p, order, gapId)
        BY <1>4 DEF List!Next
    <2> DEFINE s == List!Considered(p)
               cal == List!Days(s)
               all == List!Rows(p, s)
               marked == List!Marked(all, cal)
    <2>2. /\ asked' = [pattern |-> p, order |-> order] /\ days' = cal
          /\ rows' = IF order = "tail" THEN List!LowPriorityTail(marked, gapId) ELSE List!Reverse(marked)
        BY <2>1 DEF List!ShowAllTasks
    <2>3. PICK s1, cal1, all1, marked1 : s1 = s /\ cal1 = cal /\ all1 = all /\ marked1 = marked
        <3> HIDE DEF s, cal, all, marked
        <3> QED OBVIOUS
    <2>4. /\ s1 = List!Considered(p) /\ cal1 = List!Days(s1) /\ all1 = List!Rows(p, s1)
          /\ marked1 = List!Marked(all1, cal1)
        BY <2>3
    <2>5. Shows(p, order, gapId, s1, cal1, all1, marked1)'
        <3>1. /\ days' = cal1
              /\ rows' = IF order = "tail" THEN List!LowPriorityTail(marked1, gapId) ELSE List!Reverse(marked1)
            BY <2>2, <2>3
        <3> HIDE DEF s, cal, all, marked
        <3> QED BY <1>2, <2>4, <3>1
    <2> HIDE DEF s, cal, all, marked
    <2>6. world' \in ListWorlds
        BY <1>1 DEF ListInv
    <2> QED BY <2>2, <2>5, <2>6 DEF ListInv
<1> QED BY <1>3, <1>4

(* What the list and the calendar say is true.                             *)
LEMMA ListSaysTheTruth ==
    ASSUME List!Assumption, ListInv
    PROVE  List!ListIsTrue
<1>1. ListedWorld
    BY WorldIsListed DEF ListInv
<1>2. List!WeekIsParted
    BY <1>1, WeekHasParts
<1>3. ASSUME NEW S, S \subseteq List!Pieces, IsCalendar(days, S)
      PROVE  List!ShortageIsBacklog /\ List!BandIsADay /\ List!LoadMeansLate /\ List!QuietMeansCaughtUp
    BY <1>1, <1>3, BacklogIsCarried, BandIsOfDay, LoadIsLate, QuietIsCaughtUp
<1>4. CASE asked = << >> /\ rows = << >> /\ days = << >>
    <2>1. IsCalendar(days, {})
        <3>1. Len(days) = 0 /\ DOMAIN days = {}
            BY <1>4
        <3>2. SummaryDays \in Nat /\ 1..0 = {}
            BY ListNumbers
        <3>3. DatesOf({}) = {}
            BY DEF DatesOf
        <3> QED BY <3>1, <3>2, <3>3 DEF IsCalendar
    <2>2. List!CalendarCountsAll
        BY <1>1, <1>4, <2>1, CalendarCounts
    <2>3. List!GiveUpsSuffice /\ List!TimeIsAccountedFor /\ List!SharesMatchCalendar
        BY <1>4 DEF List!GiveUpsSuffice, List!TimeIsAccountedFor, List!SharesMatchCalendar, List!Asked, List!Shown
    <2> QED BY <1>2, <1>3, <2>1, <2>2, <2>3 DEF List!ListIsTrue
<1>5. ASSUME NEW p \in Patterns, NEW order \in {"plan", "tail"}, NEW gapId \in GapIds,
             asked = [pattern |-> p, order |-> order],
             NEW s, NEW cal, NEW all, NEW marked, Shows(p, order, gapId, s, cal, all, marked)
      PROVE  List!ListIsTrue
    <2> DEFINE S == ReachedBy(p)
               n == Cardinality(ReachedBy(p))
               P == ShownPieces(p, s)
               I == ShownGaps(p, s)
    <2>1. /\ s = List!Considered(p) /\ days = List!Days(s)
          /\ all = List!Rows(p, s) /\ marked = List!Marked(all, days)
          /\ rows = IF order = "tail" THEN List!LowPriorityTail(marked, gapId) ELSE List!Reverse(marked)
        BY <1>5 DEF Shows
    <2>2. asked.pattern = p /\ asked.order = order
        BY <1>5
    <2>3. InTurn(s, n) /\ Has(s) = S /\ S \subseteq List!Pieces
        BY <1>1, <2>1, ConsideredInTurn
    <2>4. IsCalendar(days, S)
        BY <1>1, <2>1, <2>3, DaysAreCalendar
    <2>5. P \subseteq List!Pieces
        BY <2>3 DEF ShownPieces
    <2> HIDE DEF P, I, n, S
    <2>6. AreRows(all, P, {}, s, I)
        <3>1. CASE p.is = "minutes"
            BY <1>1, <2>1, <2>3, <3>1, OfferedRows DEF P, I
        <3>2. CASE p.is # "minutes"
            BY <1>1, <2>1, <2>3, <3>2, SelectedRows DEF P, I
        <3> QED BY <3>1, <3>2
    <2> DEFINE Up == UpOf(P, days)
    <2>7. AreRows(marked, P, Up, s, I)
        BY <1>1, <2>1, <2>5, <2>6, MarkedRowsAre
    <2> HIDE DEF Up
    <2>8. /\ AreRows(rows, P, Up, s, I)
          /\ asked.order = "tail" => \A i, j \in DOMAIN rows :
                 ~rows[i].gap /\ ~rows[j].gap /\ List!GivenUpFirst(rows[i], rows[j]) => j < i
        <3>1. CASE order = "tail"
            <4>1. rows = List!LowPriorityTail(marked, gapId)
                BY <2>1, <3>1
            <4>2. I = ShownGaps(p, s)
                BY DEF I
            <4> QED BY <1>1, <2>3, <2>5, <2>7, <4>1, <4>2, TailRows
        <3>2. CASE order # "tail"
            <4>1. rows = List!Reverse(marked)
                BY <2>1, <3>2
            <4> QED BY <2>2, <2>7, <3>2, <4>1, ReversedRows
        <3> QED BY <3>1, <3>2
    <2>9. List!GiveUpsSuffice
        BY <1>1, <2>4, <2>5, <2>8, GiveUpsAreMarked DEF Up
    <2>10. List!TimeIsAccountedFor
        BY <1>1, <2>1, <2>2, <2>8, TimeIsInTheList DEF P, I
    <2>11. List!SharesMatchCalendar
        BY <1>1, <2>1, <2>2, <2>4, <2>8, SharesAreOfToday DEF P, I, S
    <2>12. List!CalendarCountsAll
        <3>1. asked.pattern.is \in {"all", "leaves"} => S = List!Pieces
            BY <2>2 DEF S, ReachedBy, List!InReach
        <3> QED BY <1>1, <2>4, <3>1, CalendarCounts
    <2> QED BY <1>2, <1>3, <2>3, <2>4, <2>9, <2>10, <2>11, <2>12 DEF List!ListIsTrue
<1> QED BY <1>4, <1>5 DEF ListInv

-----------------------------------------------------------------------------
(***************************************************************************)
(* Planning                                                                *)
(***************************************************************************)
\* What each part of planning keeps.
PlanningInv ==
    /\ part = "times" => ChainTypeOK
    /\ part = "days" => FlattenInv /\ PackInv
    /\ part = "query" => AnswersPeriod
    /\ part = "list" => ListInv

\* The invariant of all parts holds to begin with.
LEMMA PlanningBegins == PlanningInit => PlanningInv
<1> SUFFICES ASSUME PlanningInit PROVE PlanningInv
    OBVIOUS
<1>1. CASE part = "times" /\ ChainInit
    BY <1>1, DaysAssumption, ChainsBegin DEF PlanningInv, AreDays
<1>2. CASE part = "days" /\ PlanInit
    BY <1>2, DaysAssumption, FlatteningBegins, PackingBegins DEF PlanningInv
<1>3. CASE part = "query" /\ Query!Init
    BY <1>3, QueryAssumption DEF PlanningInv, Query!Init, AnswersPeriod
<1>4. CASE part = "list" /\ List!Init
    BY <1>4 DEF PlanningInv, List!Init, ListInv
<1> QED BY <1>1, <1>2, <1>3, <1>4 DEF PlanningInit

\* And every step of a part keeps its own.
LEMMA PlanningGoesOn == PlanningInv /\ [PlanningNext]_planningVars => PlanningInv'
<1> SUFFICES ASSUME PlanningInv, [PlanningNext]_planningVars PROVE PlanningInv'
    OBVIOUS
<1>0. part' = part
    BY DEF PlanningNext, TimesStep, DaysStep, QueryStep, ListStep, planningVars
<1>1. CASE part = "times"
    <2>1. [ChainNext]_chainVars
        BY <1>1 DEF PlanningNext, TimesStep, DaysStep, QueryStep, ListStep, planningVars, planVars, chainVars
    <2>2. ChainTypeOK'
        BY <1>1, <2>1, DaysAssumption, ChainsStayTyped DEF PlanningInv, AreDays
    <2> QED BY <1>0, <1>1, <2>2 DEF PlanningInv
<1>2. CASE part = "days"
    <2>1. [PlanNext]_planVars
        BY <1>2 DEF PlanningNext, TimesStep, DaysStep, QueryStep, ListStep, planningVars
    <2>2. FlattenInv'
        BY <1>2, <2>1, DaysAssumption, StepsFlatten DEF PlanningInv
    <2>3. PackInv'
        BY <1>2, <2>1, DaysAssumption, StepsPack DEF PlanningInv
    <2> QED BY <1>0, <1>2, <2>2, <2>3 DEF PlanningInv
<1>3. CASE part = "query"
    <2>1. [Query!Next]_Query!vars
        BY <1>3 DEF PlanningNext, TimesStep, DaysStep, QueryStep, ListStep, planningVars, queryVars, Query!vars
    <2>2. AnswersPeriod'
        BY <1>3, <2>1, QueryAssumption, QuestionsAreAnswered DEF PlanningInv
    <2> QED BY <1>0, <1>3, <2>2 DEF PlanningInv
<1>4. CASE part = "list"
    <2>1. [List!Next]_List!vars
        BY <1>4 DEF PlanningNext, TimesStep, DaysStep, QueryStep, ListStep, planningVars, queryVars, listVars,
                    List!vars
    <2>2. ListInv'
        BY <1>4, <2>1, ListGoesOn DEF PlanningInv
    <2> QED BY <1>0, <1>4, <2>2 DEF PlanningInv
<1>5. CASE part \notin {"times", "days", "query", "list"}
    BY <1>0, <1>5 DEF PlanningInv
<1> QED BY <1>1, <1>2, <1>3, <1>4, <1>5

(* Projects of any size and shape: a deadline moves the work before it as  *)
(* far as it has to and no further, and a parent is available after its    *)
(* children.                                                               *)
THEOREM PlansFitTimes == PlanningSpec => []TimesFit
<1>1. PlanningInv => TimesFit
    BY DaysAssumption, DeadlinesFit, ParentsRankAbove DEF PlanningInv, TimesFit, AreDays
<1> QED BY <1>1, PlanningBegins, PlanningGoesOn, PTL DEF PlanningSpec

(* However many tasks and days there are and however full the days: no     *)
(* move of flattening makes a task late that was not as late before.       *)
THEOREM FlatteningIsInTime == PlanningSpec => []FlatteningKeepsTime
<1>1. PlanningInv => FlatteningKeepsTime
    BY DEF PlanningInv, FlatteningKeepsTime, FlattenInv, NothingNewIsLate
<1> QED BY <1>1, PlanningBegins, PlanningGoesOn, PTL DEF PlanningSpec

(* Every turn of flattening gives up a day or puts a task off to a later   *)
(* one, so that it ends.                                                   *)
THEOREM FlatteningPutsOff == PlanningSpec => FlatteningGoesOn
<1>1. PlanningInv /\ [PlanningNext]_planningVars => [part = "days" => MovesOn]_planningVars
    <2> SUFFICES ASSUME PlanningInv, PlanningNext, part = "days", ~UNCHANGED planningVars
                 PROVE  MovesOn
        OBVIOUS
    <2>1. PlanNext /\ UNCHANGED <<part, queryVars, listVars>>
        BY DEF PlanningNext, TimesStep, DaysStep, QueryStep, ListStep
    <2>2. [MovesOn]_planVars
        BY <2>1, DaysAssumption, StepsFlatten DEF PlanningInv
    <2>3. ~UNCHANGED planVars
        BY <2>1 DEF planningVars
    <2> QED BY <2>2, <2>3
<1> QED BY <1>1, PlanningBegins, PlanningGoesOn, PTL DEF PlanningSpec, FlatteningGoesOn

(* Whatever is packed is on the day packing chose for it, but for another  *)
(* task of the same deadline and priority that is available there by then, *)
(* and does not fill that day beyond its target, unless work of another    *)
(* task comes to it.                                                       *)
THEOREM PackingIsDone == PlanningSpec => []PacksTheDay
<1>1. PlanningInv => PacksTheDay
    BY DEF PlanningInv, PacksTheDay, PackInv, PackedStays, PacksToTarget
<1> QED BY <1>1, PlanningBegins, PlanningGoesOn, PTL DEF PlanningSpec

(* Whatever is planned and whatever period is asked for: who asks for a    *)
(* day is shown exactly the work of that day, a period given by its first  *)
(* day is that day, and the days part the tasks.                           *)
THEOREM DaysAreAnswered == PlanningSpec => []AnswersTheDay
<1>1. PlanningInv => AnswersTheDay
    BY QueryAssumption, AnswersAreTrue DEF PlanningInv, AnswersTheDay
<1> QED BY <1>1, PlanningBegins, PlanningGoesOn, PTL DEF PlanningSpec

(* Whatever there is to list and whatever one asks for: the calendar       *)
(* carries exactly the backlog, what is marked to be given up makes up for *)
(* it and for no more, no time and no work is left out or shown twice, and *)
(* the bands, loads and shares of the days agree with the plan.            *)
THEOREM ListTellsTheTruth == PlanningSpec => []ListIsTrue
<1>1. PlanningInv => ListIsTrue
    BY ListAssumption, ListSaysTheTruth DEF PlanningInv, ListIsTrue
<1> QED BY <1>1, PlanningBegins, PlanningGoesOn, PTL DEF PlanningSpec

=============================================================================
