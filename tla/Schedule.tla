------------------------------- MODULE Schedule -------------------------------
(***************************************************************************)
(* application/schedule_use_case.rs: planning the work that is left, task  *)
(* by task, around the work planned before.  One step is one turn of a     *)
(* loop of schedule_tasks_by_priority.                                     *)
(***************************************************************************)
EXTENDS Integers, FiniteSets, FiniteSetsExt

CONSTANTS
    Tasks,         \* bound: the tasks, numbered in the order of their ids
    Candidates,    \* what is to be planned: avail, work,
                   \* children, atomic, ddl, prio, rank
    Clock,           \* the time the repository was synchronised with
    MinSplit,      \* five minutes
    Nobody

ASSUME TasksAssumption == Tasks \subseteq Nat /\ IsFiniteSet(Tasks) /\ Nobody \notin Tasks
ASSUME NumbersAssumption == Clock \in Int /\ MinSplit \in Nat
IsCandidates(c) ==
    /\ DOMAIN c = Tasks
    /\ \A t \in Tasks :
          /\ c[t].avail \in Int /\ c[t].work \in Nat /\ c[t].atomic \in BOOLEAN
          /\ c[t].ddl \in Int /\ c[t].prio \in Int /\ c[t].rank \in Nat
          /\ c[t].children \subseteq Tasks
          /\ \A u \in c[t].children : c[u].rank < c[t].rank

ASSUME CandidatesAssumption == \A c \in Candidates : IsCandidates(c)

VARIABLES
    cand,      \* the tasks to plan and what decides on them
    waiting,   \* those not planned yet
    slots,     \* the segments of work that are planned
    end,       \* when the planned tasks are finished
    cur,       \* the task being planned
    at,        \* where its next segment may begin
    left       \* its work that has no segment yet

vars == <<cand, waiting, slots, end, cur, at, left>>

\* A deadline before none, the sooner one first, then the higher priority, the
\* earlier time, the smaller rank and the smaller id.
Key(t) == <<cand[t].ddl, -cand[t].prio, cand[t].avail, cand[t].rank, t>>

Sooner(t, u) ==
    \E i \in 1..5 : Key(t)[i] < Key(u)[i] /\ \A j \in 1..(i - 1) : Key(t)[j] = Key(u)[j]

Ready(t) == cand[t].children \subseteq DOMAIN end

Overlaps(s, from, to) == from < s.to /\ s.from < to

\* find_earliest_non_overlapping_start moves to the end of what it overlaps
\* until it overlaps nothing: to the first such end, or where it is.
Clear_AtTheEnd(from, length) == Max({from} \cup {s.to : s \in slots})
Clear(from, length) ==
    Min({b \in {from} \cup {s.to : s \in slots} :
            b >= from /\ \A s \in slots : ~Overlaps(s, b, b + length)})

Earliest_OwnTime(t) == Max({cand[t].avail, Clock})
Earliest(t) == Max({cand[t].avail, Clock} \cup {end[c] : c \in cand[t].children})

\* The first candidate in order that waits for nobody; a tree always has one.
Pick(t) ==
    /\ cur = Nobody /\ t \in waiting /\ Ready(t)
    /\ \A u \in waiting \ {t} : Ready(u) => Sooner(t, u)
    /\ cur' = t
    /\ waiting' = waiting \ {t}
    /\ at' = Clear(Earliest(t), 0)
    /\ left' = cand[t].work
    /\ UNCHANGED <<cand, slots, end>>

Finish(e) ==
    /\ end' = [t \in DOMAIN end \cup {cur} |-> IF t = cur THEN e ELSE end[t]]
    /\ cur' = Nobody

Segment(from, to) == [task |-> cur, from |-> from, to |-> to]

PlanNothing_Occupies ==
    /\ cur # Nobody /\ left = 0
    /\ slots' = slots \cup {Segment(at, at)}
    /\ Finish(at)
    /\ UNCHANGED <<cand, waiting, at, left>>
PlanNothing ==
    /\ cur # Nobody /\ left = 0
    /\ Finish(at)
    /\ UNCHANGED <<cand, waiting, slots, at, left>>

PlanWhole ==
    LET from == Clear(at, left)
    IN  /\ cur # Nobody /\ left > 0 /\ cand[cur].atomic
        /\ slots' = slots \cup {Segment(from, from + left)}
        /\ Finish(from + left)
        /\ UNCHANGED <<cand, waiting, at, left>>

\* Where a segment that begins at from has to stop.
Stop_WhenWorkEnds(from) == from + left
Stop(from) ==
    Min({from + left} \cup {s.from : s \in {r \in slots : from < r.to /\ from <= r.from}})

\* A cut that leaves five minutes or less on either side is not made.
TooShort_Behind(from, to) == to < from + left /\ left - (to - from) <= MinSplit
TooShort(from, to) ==
    to < from + left /\ (to - from <= MinSplit \/ left - (to - from) <= MinSplit)

Splitting == cur # Nobody /\ left > 0 /\ ~cand[cur].atomic

\* Nothing, or too little, fits: on to the end of what is in the way.
Skip_Nowhere(from, to) ==
    /\ Splitting /\ (to = from \/ TooShort(from, to))
    /\ at' = from
    /\ UNCHANGED <<cand, waiting, slots, end, cur, left>>
Skip(from, to) ==
    /\ Splitting /\ (to = from \/ TooShort(from, to))
    /\ \E s \in slots : s.from = to /\ at' = s.to
    /\ UNCHANGED <<cand, waiting, slots, end, cur, left>>

PlanSegment(from, to) ==
    /\ Splitting /\ to > from /\ ~TooShort(from, to)
    /\ slots' = slots \cup {Segment(from, to)}
    /\ at' = to
    /\ left' = left - (to - from)
    /\ IF left' = 0 THEN Finish(to) ELSE UNCHANGED <<end, cur>>
    /\ UNCHANGED <<cand, waiting>>

PlanPart ==
    LET from == Clear(at, 0)
    IN  Skip(from, Stop(from)) \/ PlanSegment(from, Stop(from))

Init ==
    /\ cand \in Candidates
    /\ waiting = Tasks
    /\ slots = {} /\ end = << >>
    /\ cur = Nobody /\ at = Clock /\ left = 0

Next == (\E t \in waiting : Pick(t)) \/ PlanNothing \/ PlanWhole \/ PlanPart

Spec == Init /\ [][Next]_vars

\* A schedule is computed in one call: its loops go on.
FairSpec == Spec /\ WF_vars(Next)
-----------------------------------------------------------------------------
(***************************************************************************)
(* Properties                                                              *)
(***************************************************************************)
TypeOK ==
    /\ IsCandidates(cand)
    /\ waiting \subseteq Tasks /\ cur \in Tasks \cup {Nobody}
    /\ DOMAIN end = Tasks \ (waiting \cup {cur})
    /\ \A t \in DOMAIN end : end[t] \in Int
    /\ \A s \in slots : s.task \in Tasks /\ s.from \in Int /\ s.to \in Int /\ s.from < s.to
    /\ at \in Int /\ left \in Nat

\* No two segments of work overlap.
Apart == \A r, s \in slots : r = s \/ r.to <= s.from \/ s.to <= r.from

\* No segment begins before its task can be started, nor before all that the
\* task depends on is finished, however far that was pushed.
AfterChildren ==
    \A s \in slots :
        /\ s.from >= cand[s.task].avail /\ s.from >= Clock
        /\ \A c \in cand[s.task].children : c \in DOMAIN end /\ s.from >= end[c]

SoundPlan == Apart /\ AfterChildren

\* Every task is planned in the end: no loop goes on for ever.
AllPlanned == <>(waiting = {} /\ cur = Nobody)

\* The plan of the tasks that are finished is one that WorkPlan allows.
Plan == INSTANCE WorkPlan WITH
    tasks <- cand, plan <- {s \in slots : s.task # cur}, ready <- end, Now <- Clock, Shortest <- MinSplit

IsWorkPlan == Plan!Spec

\* In whole units longer than the pieces that are too short, all the turns
\* together compute the plan that the order of the tasks alone determines.
Timetable == INSTANCE Timetable

Unit == MinSplit + 1
InUnits == \A t \in DOMAIN cand : cand[t].avail % Unit = 0 /\ cand[t].work % Unit = 0

IsTimetable ==
    InUnits /\ Clock % Unit = 0 /\ waiting = {} /\ cur = Nobody =>
        LET planned == Timetable!PlanOf(cand, Clock)
        IN  \A t \in DOMAIN cand :
                /\ planned[t].end = end[t]
                /\ planned[t].hours = UNION {s.from..(s.to - 1) : s \in {r \in slots : r.task = t}}
=============================================================================
