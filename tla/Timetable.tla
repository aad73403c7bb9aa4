------------------------------ MODULE Timetable ------------------------------
(***************************************************************************)
(* The plan of application/schedule_use_case.rs as a function of its       *)
(* candidates c, for times that are whole hours: no cut is then too short, *)
(* and the order of the turns (see Schedule) is all that decides.  The     *)
(* plan of a task is the set of the hours it is worked on.                 *)
(***************************************************************************)
EXTENDS Integers, FiniteSets, FiniteSetsExt

\* What can be planned: numbered tasks, each with what decides on it, where a
\* task ranks above those it waits for.
Candidate(tasks) ==
    [avail : Int, work : Nat, children : SUBSET tasks, ddl : Int, rank : Int, prio : Int,
     atomic : BOOLEAN]
ArePlannable(c) ==
    /\ IsFiniteSet(DOMAIN c) /\ DOMAIN c \subseteq Int
    /\ \A t \in DOMAIN c : /\ c[t] \in Candidate(DOMAIN c)
                          /\ \A u \in c[t].children : c[u].rank < c[t].rank

KeyIn(c, t) == <<c[t].ddl, -c[t].prio, c[t].avail, c[t].rank, t>>

SoonerIn(c, t, u) ==
    \E i \in 1..5 :
        KeyIn(c, t)[i] < KeyIn(c, u)[i] /\ \A j \in 1..(i - 1) : KeyIn(c, t)[j] = KeyIn(c, u)[j]

NextTask(c, done) ==
    LET ready == {t \in DOMAIN c \ done : c[t].children \subseteq done}
    IN  CHOOSE t \in ready : \A u \in ready \ {t} : SoonerIn(c, t, u)

Taken(plan) == UNION {plan[t].hours : t \in DOMAIN plan}

\* The first hour at which no segment is under way, for a task without work.
Between(plan, from) ==
    Min({h \in from..(from + Cardinality(Taken(plan))) :
            \A t \in DOMAIN plan : ~({h - 1, h} \subseteq plan[t].hours)})

InPieces(plan, from, work) ==
    LET free == from..(from + work + Cardinality(Taken(plan))) \ Taken(plan)
    IN  {h \in free : Cardinality({g \in free : g < h}) < work}

InOnePiece(plan, from, work) ==
    LET last == from + work * (Cardinality(Taken(plan)) + 1)
        begin == Min({b \in from..last : b..(b + work - 1) \cap Taken(plan) = {}})
    IN  begin..(begin + work - 1)

Planned(c, plan, t, now) ==
    LET from == Between(plan, Max({c[t].avail, now} \cup {plan[u].end : u \in c[t].children}))
        hours == IF c[t].atomic THEN InOnePiece(plan, from, c[t].work)
                 ELSE InPieces(plan, from, c[t].work)
    IN  [hours |-> hours, end |-> IF hours = {} THEN from ELSE Max(hours) + 1]

\* One task after the other: the plans of the first n tasks.
PlansOf(c, now) ==
    LET plan[n \in 0..Cardinality(DOMAIN c)] ==
            IF n = 0 THEN << >>
            ELSE LET prev == plan[n - 1]
                     t == NextTask(c, DOMAIN prev)
                     new == Planned(c, prev, t, now)
                 IN  [u \in DOMAIN prev \cup {t} |-> IF u = t THEN new ELSE prev[u]]
    IN  plan

PlanOf(c, now) == PlansOf(c, now)[Cardinality(DOMAIN c)]

\* The segments of work are the longest runs of hours.
Segments(hours) ==
    {[from |-> a, to |-> Min({b \in (a + 1)..(Max(hours) + 1) : b \notin hours})] :
        a \in {h \in hours : h - 1 \notin hours}}

\* The entries of a plan: its pieces of work, and a task without work where it
\* would begin.
EntriesOf(t, p) ==
    IF p.hours = {} THEN {[task |-> t, from |-> p.end, to |-> p.end]}
    ELSE {[task |-> t, from |-> s.from, to |-> s.to] : s \in Segments(p.hours)}

ScheduleOf(c, now) ==
    LET plan == PlanOf(c, now) IN UNION {EntriesOf(t, plan[t]) : t \in DOMAIN plan}
=============================================================================
