------------------------------- MODULE TaskTree -------------------------------
(***************************************************************************)
(* The tree of one project: entity/task.rs, and the use cases and commands *)
(* that change it.                                                         *)
(*                                                                         *)
(* The walks down the tree are stated by the sets they reach: what the     *)
(* recursion from t visits is the smallest set that holds t and, with a    *)
(* task, the children it goes on to.                                       *)
(***************************************************************************)
EXTENDS Integers, FiniteSets, FiniteSetsExt

CONSTANTS
    Ids,         \* bound: the tasks a project can have
    Root,        \* the project itself
    Times,       \* deadlines and the starts of appointments
    Efforts,     \* estimates the user states
    NewEffort,   \* the estimate a new task begins with
    Repetitions, \* bound: the tasks of a repetition, 7 or 4 in the code
    Trees,       \* the projects a file can hold
    NoTask,
    NoTime

ASSUME IdsAssumption == Root \in Ids /\ NoTask \notin Ids /\ IsFiniteSet(Ids)
ASSUME NumbersAssumption ==
    Times \subseteq Int /\ NoTime \notin Int /\ Efforts \subseteq Nat
    /\ NewEffort \in Nat /\ Repetitions \in Nat

Statuses == {"todo", "pending", "done"}
Attr == [up : Ids \cup {NoTask}, status : Statuses, ddl : Int \cup {NoTime}, est : Int,
         repeats : BOOLEAN]

\* The way up from t in the tree tr, t and the root included.
Up(tr, t) ==
    {a \in DOMAIN tr : \A S \in SUBSET DOMAIN tr :
        t \in S /\ (\A b \in S : tr[b].up \in DOMAIN tr => tr[b].up \in S) => a \in S}

IsTree(tr) ==
    /\ DOMAIN tr \subseteq Ids /\ Root \in DOMAIN tr
    /\ tr[Root].up = NoTask
    /\ \A t \in DOMAIN tr : tr[t] \in Attr /\ Root \in Up(tr, t)

ASSUME TreesAssumption == \A tr \in Trees : IsTree(tr) /\ \A t \in DOMAIN tr : tr[t].est >= 0

VARIABLE task   \* the tree in memory

Tasks == DOMAIN task
Children(t) == {c \in Tasks : task[c].up = t}
Done(t) == task[t].status = "done"
Open(t) == ~Done(t)
HasUndoneChildren(t) == \E c \in Children(t) : Open(c)

Path(t) == Up(task, t)

\* What is reached from t when Follow decides which children are gone on to.
Reach(t, Follow(_)) ==
    {d \in Tasks : \A S \in SUBSET Tasks :
        t \in S /\ (\A b \in S : \A c \in Children(b) : Follow(c) => c \in S) => d \in S}

(***************************************************************************)
(* Deadlines                                                               *)
(***************************************************************************)
Smaller(a, b) == IF a <= b THEN a ELSE b
Larger(a, b) == IF a >= b THEN a ELSE b
Sooner(d, e) == IF d = NoTime THEN e ELSE IF e = NoTime THEN d ELSE Smaller(d, e)

Soonest(S) ==
    IF S \subseteq {NoTime} THEN NoTime
    ELSE CHOOSE d \in S \ {NoTime} : \A e \in S \ {NoTime} : d <= e

\* Each open task takes the soonest of the deadline that is set and those from
\* t down to it.  Nothing is set on a finished task, nor below it.
Propagate_UntilKept(tr, t, d) ==
    LET Later(x) == tr[x].status # "done" /\ Sooner(tr[x].ddl, d) # tr[x].ddl
    IN  [x \in DOMAIN tr |->
            IF Later(t) /\ x \in Reach(t, Later)
            THEN [tr[x] EXCEPT !.ddl = Soonest({d} \cup {tr[y].ddl : y \in Path(x) \cap Reach(t, Later)})]
            ELSE tr[x]]
Propagate(tr, t, d) ==
    [x \in DOMAIN tr |->
        IF tr[t].status # "done" /\ x \in Reach(t, Open)
        THEN [tr[x] EXCEPT !.ddl = Soonest({d} \cup {tr[y].ddl : y \in Path(x) \cap Reach(t, Open)})]
        ELSE tr[x]]

SetDeadline(t, d) ==
    task' = Propagate(task, t, d)

UnsetDeadline(t) ==
    task' = [task EXCEPT ![t].ddl = NoTime]

\* The task's own deadline gives way to the end of the appointment, even when
\* the task is finished and takes no new one.
MakeAppointment(t, start) ==
    task' = Propagate([task EXCEPT ![t].ddl = NoTime], t, start + task[t].est)

(***************************************************************************)
(* New tasks                                                               *)
(***************************************************************************)
New(p, st, d, est) == [up |-> p, status |-> st, ddl |-> d, est |-> est, repeats |-> FALSE]

With(tr, n, attr) == [x \in DOMAIN tr \cup {n} |-> IF x = n THEN attr ELSE tr[x]]

Fresh == Ids \ Tasks

\* breakdown_task; several names are several breakdowns of the same parent.
Breakdown(p, n, st) ==
    task' = With(task, n, New(p, st, task[p].ddl, NewEffort))

\* execute_breakdown_sequentially: the last of the chain is the first to do.
Sequence(p, n, m, est) ==
    task' = With(With(task, n, New(p, "todo", NoTime, est)), m, New(n, "todo", NoTime, est))

\* execute_create_repetition_task: a task and, below it, one for each time.
CreateRepetition(p, n, below, est) ==
    /\ Cardinality(below) = Repetitions
    /\ task' = [x \in Tasks \cup {n} \cup below |->
                   IF x \in Tasks THEN task[x]
                   ELSE New(IF x = n THEN p ELSE n, "todo", task[p].ddl, est)]

\* A positive number of minutes goes to the new task, another stays.
SplitOff_Unbounded(t, work, retain) ==
    IF retain THEN Larger(0, task[t].est - work) ELSE work
SplitOff(t, work, retain) ==
    IF retain THEN Larger(0, task[t].est - work) ELSE Smaller(work, task[t].est)

Split_AsAsked(t, n, work, retain) ==
    /\ retain \/ work > 0
    /\ task' = With([task EXCEPT ![t].est = @ - SplitOff(t, work, retain)],
                    n, New(t, "todo", task[t].ddl, work))
Split(t, n, work, retain) ==
    LET off == SplitOff(t, work, retain)
    IN  /\ retain \/ work > 0
        /\ task' = With([task EXCEPT ![t].est = @ - off], n, New(t, "todo", task[t].ddl, off))

\* execute_next_up: a task comes between t and its parent and takes its
\* estimate from the parent's.
NextUp_Knot(t, n, given, est) ==
    LET p == task[t].up
        left == IF given THEN Larger(0, task[p].est - est) ELSE task[p].est
    IN  /\ p # NoTask
        /\ task' = With([task EXCEPT ![t].up = n, ![p].est = left],
                        n, New(t, "todo", task[p].ddl, IF given THEN est ELSE NewEffort))
NextUp(t, n, given, est) ==
    LET p == task[t].up
        left == IF given THEN Larger(0, task[p].est - est) ELSE task[p].est
    IN  /\ p # NoTask
        /\ task' = With([task EXCEPT ![t].up = n, ![p].est = left],
                        n, New(p, "todo", task[p].ddl, IF given THEN est ELSE NewEffort))

(***************************************************************************)
(* Status                                                                  *)
(***************************************************************************)
\* complete_task: refused while a child is open.  An occurrence of a routine is
\* followed by the next one, due at a time and with an estimate that
\* Repetition computes.
MayFinish_Anything(t) == Open(t)
MayFinish(t) == ~HasUndoneChildren(t)

IsOccurrence(t) == task[t].up # NoTask /\ task[task[t].up].repeats

Complete(t) ==
    /\ MayFinish(t) /\ ~IsOccurrence(t)
    /\ task' = [task EXCEPT ![t].status = "done"]

CompleteOccurrence(t, n, d, est) ==
    /\ MayFinish(t) /\ IsOccurrence(t)
    /\ task' = With([task EXCEPT ![t].status = "done"], n, New(task[t].up, "todo", d, est))

\* defer_task: whatever the status is.
Defer(t) ==
    task' = [task EXCEPT ![t].status = "pending"]

\* execute_extrude: from an open task all the way up, finished or not.
Extrude(t) ==
    /\ Open(t)
    /\ task' = [x \in Tasks |->
                   IF x \in Path(t) THEN [task[x] EXCEPT !.status = "pending"] ELSE task[x]]

SetEstimate(t, est) ==
    task' = [task EXCEPT ![t].est = est]

(***************************************************************************)
(* The leaves                                                              *)
(***************************************************************************)
\* extract_leaf_tasks_from_project_with_pending: the walk goes on to the open
\* children, and asks nothing of the root before it does.
Leaves == {t \in Reach(Root, Open) : Open(t) /\ ~HasUndoneChildren(t)}

Init == task \in Trees

Create ==
    \E n \in Fresh :
        \/ \E p \in Tasks, st \in {"todo", "pending"} : Breakdown(p, n, st)
        \/ \E p \in Tasks, m \in Fresh \ {n}, e \in Efforts : Sequence(p, n, m, e)
        \/ \E p \in Tasks, K \in SUBSET (Fresh \ {n}), e \in Efforts : CreateRepetition(p, n, K, e)
        \/ \E t \in Tasks, w \in Efforts, r \in BOOLEAN : Split(t, n, w, r)
        \/ \E t \in Tasks, g \in BOOLEAN, e \in Efforts : NextUp(t, n, g, e)

Change ==
    \/ \E t \in Tasks, d \in Times : SetDeadline(t, d)
    \/ \E t \in Tasks : UnsetDeadline(t)
    \/ \E t \in Tasks, s \in Times : MakeAppointment(t, s)
    \/ \E t \in Tasks : Complete(t)
    \/ \E t \in Tasks, n \in Fresh, d \in Times, e \in Efforts : CompleteOccurrence(t, n, d, e)
    \/ \E t \in Tasks : Defer(t)
    \/ \E t \in Tasks : Extrude(t)
    \/ \E t \in Tasks, e \in Efforts : SetEstimate(t, e)

Next == Create \/ Change

Spec == Init /\ [][Next]_task
-----------------------------------------------------------------------------
(***************************************************************************)
(* Properties                                                              *)
(***************************************************************************)
\* No estimate is ever negative, as reading the project file demands, whatever
\* is split off, kept back or put before a parent.
EstimatesCount == \A t \in Tasks : task[t].est >= 0

\* The tasks are one tree however they are put between each other: the way up
\* from every task ends at the project.
TypeOK == IsTree(task) /\ EstimatesCount

InSight == {t \in Reach(Root, Open) : Open(t)}

\* No command takes away from the walk to the leaves an open task that it
\* reached: what is above open work is not finished.
KeepsInSight == \A t \in InSight : task'[t].status = "done" \/ t \in InSight'

\* A task put below the project or below one that the walk reached is reached
\* as well, also when what it comes beside is finished by the same command.
AddsInSight ==
    \A n \in Tasks' \ Tasks : Path(n)' \cap Tasks \subseteq InSight \cup {Root} => n \in InSight'

StaysInSight == [][KeepsInSight /\ AddsInSight]_task

\* After the deadline of a task is set, no open task that the command reaches
\* is due later than that, nor than it was, nor than an open task above it.
DeadlineCovers ==
    [][\A t \in Tasks, d \in Times :
          SetDeadline(t, d) /\ Open(t) =>
              \A x \in Reach(t, Open) :
                  /\ task'[x].ddl # NoTime /\ task'[x].ddl <= d
                  /\ task[x].ddl # NoTime => task'[x].ddl <= task[x].ddl
                  /\ \A y \in Path(x) \cap Reach(t, Open) : task'[x].ddl <= task'[y].ddl]_task

Total(tr) == MapThenSumSet(LAMBDA t : tr[t].est, DOMAIN tr)

\* Splitting a task moves estimated work and neither adds nor loses any.
SplitKeepsTotal ==
    [][\A t \in Tasks, n \in DOMAIN task' \ Tasks, w \in Efforts, r \in BOOLEAN :
          Split(t, n, w, r) => Total(task') = Total(task)]_task

\* "When a parent has a deadline its children have one too, which is sooner or
\* the same", as the comment on set_deadline_time_opt has it.
ChildrenDueFirst ==
    \A t \in Tasks : LET p == task[t].up IN
        p # NoTask /\ task[p].ddl # NoTime => task[t].ddl # NoTime /\ task[t].ddl <= task[p].ddl

\* A command that sets the deadline of an open task sets it: as update_task is
\* described.
DeadlineIsSet ==
    [][\A t \in Tasks, d \in Times : SetDeadline(t, d) /\ Open(t) => task'[t].ddl = d]_task

\* The walk finds every open task that has no open child, as the comments on
\* it say.
LeavesComplete == \A t \in Tasks : Open(t) /\ ~HasUndoneChildren(t) => t \in Leaves
=============================================================================
