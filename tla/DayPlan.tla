------------------------------- MODULE DayPlan -------------------------------
(***************************************************************************)
(* Moving work between days: flattening in application/flatten_use_case.rs *)
(* pushes the work of an overloaded day to the next, packing in            *)
(* application/pack_use_case.rs brings deferred tasks forward into what is *)
(* left of a day below the target load.  Both plan again after every step. *)
(* Times are hours; the hours of business day d begin at d * DayLength.    *)
(***************************************************************************)
EXTENDS Availability, Timetable

CONSTANTS
    Initial,       \* the attributes of the tasks to begin with
    Priority, Atomic, Routine,  \* of a task: a number, and two sets of tasks
    OnOtherSide,   \* the tasks that wait for somebody else
    DayLength,
    NightHours,    \* the hours between the configured end of a day and the next
    LateHours,     \* and those of it that are after midnight, six in the code
    Free,          \* the hours that are not busy
    Horizon,       \* flattening looks at today and 28 days
    OverflowDay,   \* where it puts what the last of them cannot take, day 35
    PackDays,      \* packing looks at 7 days
    Buffer, ForceBuffer   \* as in TaskStatus

\* Deriving the status of a task put off has cut the time it waits for.
InTime(a) == a.pending /\ a.ddl # Never => a.wait <= a.ddl - a.est - Buffer

\* What the constants have to be.
AreDays ==
    /\ IsProject
    /\ DayLength \in Nat \ {0} /\ {NightHours, LateHours} \subseteq 0..(DayLength - 1)
    /\ {Buffer, ForceBuffer} \subseteq Nat /\ Horizon \in Nat /\ PackDays \in Nat /\ Free \subseteq Int
    /\ OverflowDay \in Int /\ OverflowDay > Horizon
    /\ Initial \subseteq Attributes /\ \A t \in AllTasks : Priority[t] \in Int
    /\ \A a \in Initial, t \in AllTasks : InTime(a[t])

VARIABLES
    job,       \* idle, flatten or pack
    drawn,      \* what is planned: of the attributes of the tasks
    plan,      \* and how
    fresh,     \* whether nothing was saved since
    over,      \* flattening: the tasks moved so far, and to when
    blocked,   \* the days it cannot relieve
    queue,     \* packing: the tasks not looked at yet, and when they were to begin
    before,    \* history: the plan before flattening, or before a step of packing
    packed     \* history: what this step moved, and to which day

planVars == <<up, attr, drawn, plan, fresh, job, over, blocked, queue, before, packed>>

DayOf(h) == h \div DayLength
StartOf(d) == d * DayLength
EndOf(d) == (d + 1) * DayLength - NightHours
Today == DayOf(Now)

\* What is free of a day, today from now on; after midnight all that is left.
Night == Now >= StartOf(Today + 1) - LateHours
Capacity(d) ==
    IF d = Today /\ Night THEN Larger(0, EndOf(d) - Now)
    ELSE Cardinality({h \in Free : h >= Now /\ StartOf(d) <= h /\ h < EndOf(d)})

ToPlan ==
    LET c == CandidatesNow
    IN  [t \in DOMAIN c |->
            [avail |-> c[t].avail, work |-> c[t].work, children |-> c[t].children, ddl |-> c[t].ddl,
             rank |-> c[t].rank, prio |-> Priority[t], atomic |-> t \in Atomic]]

\* The plan when some tasks are available from the given hours on.
PlanWith(given) ==
    PlanOf([t \in DOMAIN drawn |->
               IF t \in DOMAIN given THEN [drawn[t] EXCEPT !.avail = Larger(given[t], Now)]
               ELSE drawn[t]], Now)

With(given, t, h) == [u \in DOMAIN given \cup {t} |-> IF u = t THEN h ELSE given[u]]

StartIn(p, t) == IF p[t].hours = {} THEN p[t].end ELSE Min(p[t].hours)

\* The work of some tasks on a day: a segment counts on the day it begins.
WorkIn(p, d, ts) ==
    LET segments(t) == {s \in Segments(p[t].hours) : DayOf(s.from) = d}
        hours(t) == MapThenSumSet(LAMBDA s : s.to - s.from, segments(t))
    IN  MapThenSumSet(hours, ts \cap DOMAIN p)
Work(d, ts) == WorkIn(plan, d, ts)

\* A task put off is put off no further than its deadline allows.
Limit(t) == IF attr[t].ddl = Never THEN Never ELSE attr[t].ddl - attr[t].est - Buffer

PutOff(a, t, h) == [a EXCEPT ![t].wait = Smaller(h, Limit(t)), ![t].pending = TRUE]

\* get_schedule, which every step begins with.
GetSchedule ==
    /\ ~fresh
    /\ fresh' = TRUE /\ drawn' = ToPlan /\ plan' = PlanOf(drawn', Now)
    /\ UNCHANGED <<up, attr, job, over, blocked, queue, before, packed>>

Earlier(a, b) == \E i \in 1..Len(a) : a[i] < b[i] /\ \A j \in 1..(i - 1) : a[j] = b[j]
First(ts, key(_)) == CHOOSE t \in ts : \A u \in ts \ {t} : Earlier(key(t), key(u))

(***************************************************************************)
(* Flattening                                                              *)
(***************************************************************************)
OnDay(p, t, d) ==
    \A s \in Segments(p[t].hours) : DayOf(s.from) = d /\ s.to <= EndOf(d)
Touches(t, d) ==
    \E s \in Segments(plan[t].hours) : s.from < EndOf(d) /\ StartOf(d) < s.to

Overloaded ==
    {d \in Today..(Today + Horizon) \ blocked : Work(d, AllTasks) > Capacity(d)}

NextDay(d) == IF d = Today + Horizon THEN Today + OverflowDay ELSE d + 1

\* Nothing is late in the new plan that was not as late in the old one.
NoLater(old, new) ==
    \A t \in DOMAIN new : new[t].end > attr[t].ddl => t \in DOMAIN old /\ new[t].end <= old[t].end

\* What may leave the day: whole, by one's own deadline and by all others.
Movable_OwnDeadline(d) ==
    {t \in DOMAIN plan :
        /\ Touches(t, d) /\ OnDay(plan, t, d) /\ t \notin OnOtherSide
        /\ drawn[t].work <= Max({Capacity(e) : e \in Today..(Today + Horizon)})
        /\ StartOf(NextDay(d)) <= Limit(t)}
Movable(d) ==
    {t \in DOMAIN plan :
        /\ Touches(t, d) /\ OnDay(plan, t, d) /\ t \notin OnOtherSide
        /\ drawn[t].work <= Max({Capacity(e) : e \in Today..(Today + Horizon)})
        /\ StartOf(NextDay(d)) <= Limit(t)
        /\ NoLater(plan, PlanWith(With(over, t, StartOf(NextDay(d)))))}

\* Parents first, then what is due last, least important, begun last.
FlattenKey(t) ==
    <<-drawn[t].rank, -attr[t].ddl, Priority[t], -StartIn(plan, t), t>>

StartFlatten ==
    /\ job = "idle" /\ fresh
    /\ job' = "flatten" /\ before' = plan
    /\ UNCHANGED <<up, attr, drawn, plan, fresh, over, blocked, queue, packed>>

\* One turn of the loop: a task of the first overloaded day leaves it, or the
\* day stays as it is for good.
Relieve_ToTheSameDay(d) ==
    LET t == First(Movable(d), LAMBDA u : FlattenKey(u))
    IN  IF Movable(d) = {} THEN blocked' = blocked \cup {d} /\ UNCHANGED <<over, plan>>
        ELSE /\ over' = With(over, t, StartOf(d)) /\ UNCHANGED blocked
             /\ plan' = PlanWith(over')
Relieve(d) ==
    LET t == First(Movable(d), LAMBDA u : FlattenKey(u))
    IN  IF Movable(d) = {} THEN blocked' = blocked \cup {d} /\ UNCHANGED <<over, plan>>
        ELSE /\ over' = With(over, t, StartOf(NextDay(d))) /\ UNCHANGED blocked
             /\ plan' = PlanWith(over')

FlattenTurn ==
    /\ job = "flatten"
    /\ Overloaded # {}
    /\ Relieve(Min(Overloaded))
    /\ UNCHANGED <<up, attr, drawn, fresh, job, queue, before, packed>>

SaveFlattened ==
    /\ job = "flatten"
    /\ Overloaded = {}
    /\ attr' = [t \in AllTasks |-> IF t \in DOMAIN over THEN PutOff(attr, t, over[t])[t] ELSE attr[t]]
    /\ job' = "flattened" /\ fresh' = FALSE
    /\ UNCHANGED <<up, drawn, plan, over, blocked, queue, before, packed>>

(***************************************************************************)
(* Packing                                                                 *)
(***************************************************************************)
\* The derived status of TaskStatus.
IsPending(t) ==
    LET near == /\ attr[t].ddl # Never
                /\ \/ Now > attr[t].start /\ attr[t].ddl - Remaining(t) - ForceBuffer < Now
                   \/ Now < attr[t].start /\ Limit(t) < Now
    IN  ~near /\ IF attr[t].pending THEN Now <= attr[t].wait \/ Now <= attr[t].start
                 ELSE attr[t].start > Now

Targets == Today..(Today + PackDays - 1)

Packable ==
    {t \in DOMAIN drawn :
        /\ drawn[t].rank = 0 /\ drawn[t].work > 0
        /\ IsPending(t) /\ t \notin OnOtherSide
        /\ \E d \in Targets : d < DayOf(StartIn(plan, t)) /\ DayOf(attr[t].start) <= d}

\* The most important first, then what was planned first when packing began.
PackQueue == [t \in Packable |-> StartIn(plan, t)]
NextToPack == First(DOMAIN queue, LAMBDA t : <<-Priority[t], queue[t], t>>)

\* What a day can take until seven tenths of its time are planned, leaving the
\* time of routines out on both sides.
Leeway_OfAllItsTime(d) == Larger(0, Capacity(d) - Work(d, AllTasks))
Leeway(d) ==
    LET free == Capacity(d) - Work(d, Routine)
        work == Work(d, AllTasks \ Routine)
    IN  IF free <= 0 THEN 0 ELSE Larger(0, (7 * free) \div 10 - work)

FreeFrom(h, n) == h..(h + n - 1) \subseteq Free

Fits_AnyDay(p, t, d) ==
    /\ p[t].hours # {}
    /\ t \in Atomic => FreeFrom(StartIn(p, t), drawn[t].work)
Fits(p, t, d) ==
    /\ OnDay(p, t, d) /\ p[t].hours # {}
    /\ t \in Atomic => FreeFrom(StartIn(p, t), drawn[t].work)

\* find_placement_start: a task in one piece is tried at one free place after
\* the other, any other task only from the first hour on.  There may be none.
Placement(t, d) ==
    LET work == drawn[t].work
        first == Max({StartOf(d), attr[t].start, Now})
        place[h \in first..(EndOf(d) + 1)] ==
            LET p == PlanWith(With(<< >>, t, h))
            IN  IF h + work > EndOf(d) THEN {}
                ELSE IF t \in Atomic /\ ~FreeFrom(h, work) THEN place[h + 1]
                ELSE IF Fits(p, t, d) THEN {StartIn(p, t)}
                ELSE IF t \notin Atomic THEN {}
                ELSE place[Smaller(EndOf(d) + 1, Larger(h, StartIn(p, t)) + 1)]
    IN  IF first > EndOf(d) THEN {} ELSE place[first]

Places(t) ==
    UNION {{[day |-> d, at |-> h] : h \in Placement(t, d)} :
        d \in {e \in Targets : /\ e < DayOf(StartIn(plan, t)) /\ DayOf(attr[t].start) <= e
                              /\ Leeway(e) >= drawn[t].work}}

StartPack ==
    /\ job = "idle" /\ fresh
    /\ job' = "pack" /\ queue' = PackQueue
    /\ UNCHANGED <<up, attr, drawn, plan, fresh, over, blocked, before, packed>>

\* The next candidate goes to the first day that takes it, or nowhere.
PackNext ==
    /\ job = "pack" /\ fresh /\ DOMAIN queue # {}
    /\ LET t == NextToPack
           good == {p \in Places(t) : p.at < StartIn(plan, t)}
           place == CHOOSE p \in good : \A q \in good : p.day <= q.day
       IN  IF good = {} THEN packed' = NoTask /\ UNCHANGED attr
           ELSE /\ attr' = [attr EXCEPT ![t].wait =
                                IF attr[t].pending THEN Smaller(place.at, Limit(t)) ELSE place.at]
                /\ packed' = [task |-> t, day |-> place.day]
    /\ before' = plan /\ fresh' = FALSE
    /\ queue' = [t \in DOMAIN queue \ {NextToPack} |-> queue[t]]
    /\ UNCHANGED <<up, drawn, plan, job, over, blocked>>

PlanInit ==
    /\ up \in Ups /\ attr \in Initial
    /\ job = "idle" /\ over = << >> /\ blocked = {} /\ queue = << >>
    /\ fresh = FALSE /\ drawn = << >> /\ plan = << >> /\ before = << >> /\ packed = NoTask

PlanNext == GetSchedule \/ StartFlatten \/ FlattenTurn \/ SaveFlattened \/ StartPack \/ PackNext

PlanSpec == PlanInit /\ [][PlanNext]_planVars
-----------------------------------------------------------------------------
(***************************************************************************)
(* Properties                                                              *)
(***************************************************************************)
\* README.md:325: no move makes a task late that was not as late before, in
\* the plan flattening tried it in.
NothingNewIsLate == job = "flatten" /\ fresh => NoLater(before, plan)

\* Every turn of flattening gives up a day or puts a task off to a day after
\* the one it was planned on, so that it ends however much there is to push.
MovesOn ==
    job = "flatten" /\ job' = "flatten" /\ blocked' = blocked =>
        \E t \in DOMAIN over' : /\ \A u \in DOMAIN over \ {t} : over'[u] = over[u]
                               /\ DayOf(over'[t]) > DayOf(StartIn(plan, t))
MovesForward == [][MovesOn]_planVars

\* README.md:329: the day a task is reported to go to is the day it is last
\* pushed to, and so the plan made from what was saved has it no earlier.
MovedIsThere ==
    job = "flattened" /\ fresh => \A t \in DOMAIN over : StartIn(plan, t) >= over[t]

\* README.md:309: a task packed is, in the plan made from what was saved, on
\* the day packing chose, and all of it.
PackedIsThere == packed # NoTask /\ fresh => OnDay(plan, packed.task, packed.day)

\* It is but for another task of the same deadline and priority that is available
\* on that day by then: packing tried the task as if it were available from the
\* beginning of the day, before the other, and saves when it then began.
PackedStays ==
    packed # NoTask /\ fresh =>
        LET t == packed.task
        IN  \/ OnDay(plan, t, packed.day)
            \/ \E u \in DOMAIN plan \ {t} :
                  /\ drawn[u].ddl = drawn[t].ddl /\ drawn[u].prio = drawn[t].prio
                  /\ StartOf(packed.day) <= drawn[u].avail /\ drawn[u].avail <= drawn[t].avail

WithinTarget(d) ==
    10 * Work(d, AllTasks \ Routine) <= 7 * (Capacity(d) - Work(d, Routine))

\* README.md:307: packing does not fill a day beyond its target load.
KeepsTargetLoad == packed # NoTask /\ fresh => WithinTarget(packed.day)

\* It does not as long as it brings no work of another task to begin on the day.
BringsNothingElse(d, t) ==
    \A u \in AllTasks \ {t} : Work(d, {u}) <= WorkIn(before, d, {u})
PacksToTarget ==
    packed # NoTask /\ fresh /\ BringsNothingElse(packed.day, packed.task)
        => WithinTarget(packed.day)

\* README.md:311: packing makes the waiting time earlier.
WaitsNoLonger == [][\A t \in AllTasks : job = "pack" => attr'[t].wait <= attr[t].wait]_planVars
=============================================================================
