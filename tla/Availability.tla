----------------------------- MODULE Availability -----------------------------
(***************************************************************************)
(* When each task of a project can be started at the earliest: the chain   *)
(* from a leaf to the root in entity/task.rs, and the candidates that      *)
(* application/schedule_use_case.rs makes of all chains (see Schedule).    *)
(***************************************************************************)
EXTENDS Integers, Sequences, FiniteSetsExt, SequencesExt

CONSTANTS
    Project,   \* bound: the last of the tasks, which are numbered from 1, children first
    Ups,       \* the trees: functions from a task to its parent or NoTask
    Starts, Waits, Deadlines, Estimates, Works,   \* what the user can set
    Now,
    Never,     \* later than any deadline: a task that has none
    NoTask

AllTasks == 1..Project

\* What the constants have to be.
IsProject ==
    /\ Project \in Nat \ {0} /\ NoTask \notin AllTasks
    /\ \A u \in Ups : /\ DOMAIN u = AllTasks
                     /\ \A t \in AllTasks : IF t = Project THEN u[t] = NoTask
                                         ELSE u[t] \in AllTasks /\ u[t] > t
    /\ Starts \cup Waits \cup Deadlines \cup {Now, Never} \subseteq Int
    /\ Estimates \cup Works \subseteq Nat
    /\ \A d \in Deadlines : d < Never

\* What the tasks may be like.
Attributes ==
    [AllTasks -> [start : Int, wait : Int, pending : BOOLEAN, done : BOOLEAN,
                  ddl : {d \in Int : d <= Never}, est : Nat, act : Nat]]

VARIABLES
    up,     \* the tree
    attr    \* the tasks: start, wait, pending, done, ddl, est, act

chainVars == <<up, attr>>

Children(t) == {c \in AllTasks : up[c] = t}
Open(t) == ~attr[t].done
Larger(a, b) == IF a >= b THEN a ELSE b
Smaller(a, b) == IF a <= b THEN a ELSE b

\* Reached from the root through open children, and without an open child.
Reached == LET r[i \in AllTasks] == up[i] = NoTask \/ (Open(i) /\ r[up[i]]) IN {t \in AllTasks : r[t]}
Leaves == {t \in Reached : Open(t) /\ \A c \in Children(t) : ~Open(c)}

\* A leaf and what is above it, in order.
Chain(leaf) ==
    LET above[t \in AllTasks] == IF up[t] = NoTask THEN <<t>> ELSE <<t>> \o above[up[t]]
    IN  above[leaf]

Remaining(t) == Larger(0, attr[t].est - attr[t].act)

\* first_available_time: the task taken alone.
Alone(t) == IF attr[t].pending THEN Larger(attr[t].start, attr[t].wait) ELSE attr[t].start

(***************************************************************************)
(* The three passes over a chain c                                         *)
(***************************************************************************)
\* Up: when the child is done, but not before its own time.
Rough(c) ==
    LET r[i \in DOMAIN c] ==
            IF i = 1 THEN Alone(c[1])
            ELSE Larger(r[i - 1] + Remaining(c[i - 1]), Alone(c[i]))
    IN  r

\* Down: what is late for its deadline, or for a task above that was late,
\* begins earlier.
OnTime_OwnDeadline(c) ==
    LET rough == Rough(c)
        o[i \in DOMAIN c] ==
            LET before == IF i = Len(c) THEN Never ELSE o[i + 1].before
                latest == Smaller(before, attr[c[i]].ddl) - Remaining(c[i])
            IN  IF rough[i] >= latest THEN [at |-> latest, before |-> before]
                ELSE [at |-> rough[i], before |-> before]
    IN  o
OnTime_WholeEstimate(c) ==
    LET rough == Rough(c)
        o[i \in DOMAIN c] ==
            LET before == IF i = Len(c) THEN Never ELSE o[i + 1].before
                latest == Smaller(before, attr[c[i]].ddl) - attr[c[i]].est
            IN  IF rough[i] >= latest THEN [at |-> latest, before |-> latest]
                ELSE [at |-> rough[i], before |-> before]
    IN  o
OnTime(c) ==
    LET rough == Rough(c)
        o[i \in DOMAIN c] ==
            LET before == IF i = Len(c) THEN Never ELSE o[i + 1].before
                latest == Smaller(before, attr[c[i]].ddl) - Remaining(c[i])
            IN  IF rough[i] >= latest THEN [at |-> latest, before |-> latest]
                ELSE [at |-> rough[i], before |-> before]
    IN  o

\* Up again: its own time or the one that keeps the deadline, after the child.
FirstAvailable(c) ==
    LET ontime == OnTime(c)
        f[i \in DOMAIN c] ==
            LET own == Smaller(ontime[i].at, Alone(c[i]))
            IN  IF i = 1 THEN own ELSE Larger(own, f[i - 1] + Remaining(c[i - 1]))
    IN  f

(***************************************************************************)
(* The candidates of the schedule                                          *)
(***************************************************************************)
OnChains(t) == {l \in Leaves : t \in ToSet(Chain(l))}
Position(t, l) == CHOOSE i \in DOMAIN Chain(l) : Chain(l)[i] = t

PlannedWork(t) ==
    IF attr[t].est >= attr[t].act THEN attr[t].est - attr[t].act
    ELSE Larger(0, 2 * attr[t].est - attr[t].act)

CandidatesNow_FirstChain ==
    [t \in {u \in AllTasks : OnChains(u) # {}} |->
        LET l == Min(OnChains(t))
        IN  [avail |-> Larger(Now, FirstAvailable(Chain(l))[Position(t, l)]),
             work |-> PlannedWork(t), children |-> {c \in Children(t) : OnChains(c) # {}},
             ddl |-> attr[t].ddl, rank |-> Position(t, l) - 1]]
CandidatesNow ==
    [t \in {u \in AllTasks : OnChains(u) # {}} |->
        [avail |-> Max({Now} \cup {FirstAvailable(Chain(l))[Position(t, l)] : l \in OnChains(t)}),
         work |-> PlannedWork(t), children |-> {c \in Children(t) : OnChains(c) # {}},
         ddl |-> attr[t].ddl, rank |-> Max({Position(t, l) - 1 : l \in OnChains(t)})]]

(***************************************************************************)
(* What the user changes                                                   *)
(***************************************************************************)
Set(t, new) == attr' = [attr EXCEPT ![t] = new] /\ UNCHANGED up

SetStart(t, s) == Set(t, [attr[t] EXCEPT !.start = s])
Defer(t, w) == Set(t, [attr[t] EXCEPT !.wait = w, !.pending = TRUE, !.done = FALSE])
SetDeadline(t, d) == Set(t, [attr[t] EXCEPT !.ddl = d])
SetEstimate(t, e) == Set(t, [attr[t] EXCEPT !.est = e])
SetActual(t, w) == Set(t, [attr[t] EXCEPT !.act = w])
Complete(t) ==
    /\ \A c \in Children(t) : ~Open(c)
    /\ Set(t, [attr[t] EXCEPT !.done = TRUE, !.pending = FALSE])

ChainInit ==
    /\ up \in Ups
    /\ \E s \in Starts, e \in Estimates :
          attr = [t \in AllTasks |-> [start |-> s, wait |-> s, pending |-> FALSE, done |-> FALSE,
                                   ddl |-> Never, est |-> e, act |-> 0]]

ChainNext ==
    \E t \in AllTasks :
        \/ \E s \in Starts : SetStart(t, s)
        \/ \E w \in Waits : Defer(t, w)
        \/ \E d \in Deadlines \cup {Never} : SetDeadline(t, d)
        \/ \E e \in Estimates : SetEstimate(t, e)
        \/ \E w \in Works : SetActual(t, w)
        \/ Complete(t)

ChainSpec == ChainInit /\ [][ChainNext]_chainVars
-----------------------------------------------------------------------------
(***************************************************************************)
(* Properties                                                              *)
(***************************************************************************)
\* Every task of a chain that begins at its earliest time and takes its
\* estimate is finished by its deadline and by those of all tasks above it,
\* and not after the next task can begin.
KeepsDeadlines ==
    \A l \in Leaves :
        LET c == Chain(l)
            f == FirstAvailable(c)
            end(i) == f[i] + Remaining(c[i])
        IN  \A i, j \in DOMAIN c :
                i <= j => /\ end(i) <= attr[c[j]].ddl
                          /\ i < j => end(i) <= f[j]

\* A task is available before its own time only for a deadline that would be
\* missed otherwise: from there to the deadline nothing is idle.
EarlyOnlyForDeadline ==
    \A l \in Leaves :
        LET c == Chain(l)
            f == FirstAvailable(c)
            sum[i \in DOMAIN c] == Remaining(c[i]) + IF i = 1 THEN 0 ELSE sum[i - 1]
        IN  \A i \in DOMAIN c :
                f[i] < Alone(c[i]) =>
                    \E j \in i..Len(c) :
                        f[i] + sum[j] - sum[i] + Remaining(c[i]) = attr[c[j]].ddl

\* A deadline moves the work before it as far as it has to and no further.
FitsDeadlines == KeepsDeadlines /\ EarlyOnlyForDeadline

\* What Schedule takes for granted: a parent ranks above the children it waits
\* for, and is available no sooner than they are.
RankedByTree ==
    \A t \in DOMAIN CandidatesNow : \A c \in CandidatesNow[t].children :
        /\ CandidatesNow[c].rank < CandidatesNow[t].rank
        /\ CandidatesNow[c].avail <= CandidatesNow[t].avail
=============================================================================
