--------------------------- MODULE FocusSelection ---------------------------
(***************************************************************************)
(* Which task a session focuses on by itself: the walk to the leaves of    *)
(* entity/task.rs, the two selections of gateway/task_repository.rs, and   *)
(* the modes of controller/schronu/runtime.rs that use them, "highest" to  *)
(* work on what is due and "lowest" to put off one task after the other.   *)
(*                                                                         *)
(* InteractiveShell leaves open which candidate becomes the focus; here it *)
(* is computed, from tasks whose status follows TaskStatus.                *)
(***************************************************************************)
EXTENDS Integers, FiniteSets

CONSTANTS
    Tasks,         \* their ids, which are ordered
    NoTask,
    Parent,        \* [Tasks -> Tasks \cup {NoTask}]
    Forests,        \* the forests a session can begin with
    Clock,         \* the times the clock can show
    Waits,         \* the times a task can be put off to
    Days,          \* what "lowest" can be given
    DayLength, Morning,
    PendingBuffer, ForceBuffer, NoDeadline

VARIABLES
    tasks,   \* as TaskStatus has them, with a priority
    now,     \* the time all of them last heard of
    sel      \* the focus, and how it is chosen

selectionVars == <<tasks, now, sel>>

\* Of TaskStatus only what it computes for one task is used.
St == INSTANCE TaskStatus WITH
    Times <- {}, Ticks <- {}, Amounts <- {}, task <- tasks, fresh <- TRUE

\* A task with its attributes.
Task ==
    [orig : St!Statuses, status : St!Statuses, start : Int, pend : Int, ddl : Int \cup {NoDeadline},
     est : Int, act : Int, synced : Int, prio : Int]

\* The tasks are a forest, with ids in order.
IsForest ==
    /\ IsFiniteSet(Tasks) /\ Tasks \subseteq Int /\ NoTask \notin Tasks
    /\ Parent \in [Tasks -> Tasks \cup {NoTask}]
    /\ \E depth \in [Tasks -> 0..Cardinality(Tasks)] :
          \A t \in Tasks : Parent[t] # NoTask => depth[Parent[t]] < depth[t]

\* Times are numbers of some unit.
Assumption ==
    /\ IsForest
    /\ \A f \in Forests : f \in [Tasks -> Task]
    /\ NoDeadline \notin Int
    /\ Clock \cup Waits \cup Days \cup {Morning, PendingBuffer, ForceBuffer} \subseteq Int
    /\ DayLength \in Nat \ {0}

Synced(ts, n) == [t \in Tasks |-> St!Evaluated([ts[t] EXCEPT !.synced = n])]

Children(t) == {c \in Tasks : Parent[c] = t}

(***************************************************************************)
(* The walk to the leaves.                                                 *)
(***************************************************************************)
Undone(ts, t) == {c \in Children(t) : ts[c].status # "done"}

LeafTasks(ts, statuses) ==
    LET From[t \in Tasks] ==
            IF ts[t].status \in statuses /\ Undone(ts, t) = {}
            THEN {t}
            ELSE UNION {{l \in From[c] : ts[l].status \in statuses} : c \in Undone(ts, t)}
    IN  UNION {From[r] : r \in Children(NoTask)}

(***************************************************************************)
(* The order of the candidates.                                            *)
(***************************************************************************)
Smaller(a, b) == \E i \in DOMAIN a : a[i] < b[i] /\ \A j \in 1..(i - 1) : a[j] = b[j]

\* None is smaller than any deadline, but whether there is one comes first.
Undated(task) == IF task.ddl = NoDeadline THEN 1 ELSE 0
Due(task) == IF task.ddl = NoDeadline THEN 0 ELSE task.ddl

HighKey(ts, t) == <<Undated(ts[t]), Due(ts[t]), -ts[t].prio, t>>

Highest(ts) ==
    LET S == LeafTasks(ts, {"todo"})
    IN  IF S = {} THEN NoTask
        ELSE CHOOSE t \in S : \A u \in S \ {t} : Smaller(HighKey(ts, t), HighKey(ts, u))

\* try_next_business_day_start, and so many days later.
Threshold(n, days) == ((n - Morning) \div DayLength + 1 + days) * DayLength + Morning

BeforeThreshold(ts, threshold) ==
    {t \in LeafTasks(ts, {"todo", "pending"}) :
        /\ ts[t].start < threshold
        /\ ts[t].orig = "pending" => ts[t].pend < threshold}

LowKey(ts, t, threshold) ==
    LET first == St!FirstAvailable(ts[t])
    IN  <<Undated(ts[t]), IF first < threshold THEN 1 ELSE 0, -ts[t].prio, Due(ts[t]), first, t>>

Lowest(ts, threshold) ==
    LET S == BeforeThreshold(ts, threshold)
    IN  IF S = {} THEN NoTask
        ELSE CHOOSE t \in S :
                \A u \in S \ {t} : Smaller(LowKey(ts, u, threshold), LowKey(ts, t, threshold))

Selected(ts, mode, days, n) ==
    IF mode = "lowest" THEN Lowest(ts, Threshold(n, days)) ELSE Highest(ts)

(***************************************************************************)
(* The lists of the leaves and of the tree.                                *)
(***************************************************************************)
\* From the bottom of the list upwards.
RowKey(ts, t) == <<Undated(ts[t]), -ts[t].prio, Due(ts[t]), t>>
LastRow(ts) ==
    LET S == LeafTasks(ts, {"todo"})
    IN  IF S = {} THEN NoTask
        ELSE CHOOSE t \in S : \A u \in S \ {t} : Smaller(RowKey(ts, t), RowKey(ts, u))

\* Every task of the project whose status is not "done".
TreeRows(ts, t) ==
    LET Top[u \in Tasks] == IF Parent[u] = NoTask THEN u ELSE Top[Parent[u]]
    IN  {u \in Tasks : Top[u] = Top[t] /\ ts[u].status # "done"}

(***************************************************************************)
(* The session.                                                            *)
(***************************************************************************)
\* reconcile_focus_after_reload
Reselects(ts, s) == s.focus = NoTask \/ (ts[s.focus].status = "done" /\ s.mode # "explicit")
Reconciled(ts, s, n) ==
    IF ~ Reselects(ts, s) THEN s
    ELSE LET mode == IF s.mode = "explicit" THEN "highest" ELSE s.mode
         IN  [s EXCEPT !.focus = Selected(ts, mode, s.days, n), !.mode = mode]

Selection(focus, mode, days) == [focus |-> focus, mode |-> mode, days |-> days]
Given_Up(s) == [s EXCEPT !.focus = NoTask]

Init ==
    /\ now \in Clock
    /\ \E f \in Forests : tasks = Synced(f, now)
    /\ sel = Selection(Highest(tasks), "highest", 0)

\* The tasks hear of the time, and a focus is chosen if there is none.
Outcome(ts, s, n) ==
    /\ now' = n
    /\ tasks' = Synced(ts, n)
    /\ sel' = Reconciled(tasks', s, n)

\* What every operation begins with, and all that a refresh does.
Refresh == \E n \in Clock : n > now /\ Outcome(tasks, sel, n)

ChangeMode ==
    \/ Outcome(tasks, Selection(NoTask, "highest", 0), now)
    \/ \E d \in Days : Outcome(tasks, Selection(NoTask, "lowest", d), now)

FocusOn == \E t \in Tasks : Outcome(tasks, Selection(t, "explicit", 0), now)

PutOff(ts, t, until) ==
    [ts EXCEPT ![t] = St!Evaluated([St!Evaluated([@ EXCEPT !.pend = until]) EXCEPT !.orig = "pending"])]

Defer(until) ==
    /\ sel.focus # NoTask
    /\ Outcome(PutOff(tasks, sel.focus, until), Given_Up(sel), now)

\* The focus goes on to a parent that has nothing else left to do.
Finish ==
    /\ sel.focus # NoTask
    /\ Undone(tasks, sel.focus) = {}
    /\ LET f == sel.focus
           up == Parent[f]
           done == [tasks EXCEPT ![f] = St!Evaluated([@ EXCEPT !.orig = "done"])]
       IN  Outcome(done,
                   IF up # NoTask /\ Undone(done, up) = {} THEN [sel EXCEPT !.focus = up] ELSE Given_Up(sel),
                   now)

Next == Refresh \/ ChangeMode \/ FocusOn \/ Finish \/ (\E until \in Waits : Defer(until))

Spec == Init /\ [][Next]_selectionVars
-----------------------------------------------------------------------------
(***************************************************************************)
(* Properties                                                              *)
(***************************************************************************)
Shell == INSTANCE InteractiveShell WITH
    MaxTime <- 0, disk <- tasks, view <- tasks, session <- "prompt", last <- NoTask, started <- 0,
    since <- 0, lost <- FALSE, shown <- NoTask, excused <- FALSE, strayed <- FALSE, early <- FALSE

View == [t \in Tasks |-> tasks[t].status]

\* The focus that is computed is one of those InteractiveShell leaves open: the
\* walk finds the leaves it means, and each selection one of them.
ChoosesCandidate ==
    /\ \A S \in {{"todo"}, {"todo", "pending"}} : LeafTasks(tasks, S) = Shell!Leaves(View, S)
    /\ \A mode \in {"highest", "lowest"}, d \in Days :
        Selected(tasks, mode, d, now) \in Shell!Candidates(View, mode)

\* What is put forward to be put off could be begun before the threshold, and
\* is on the tree the user is shown of its project.
OfferIsAtHand ==
    \A d \in Days :
        LET t == Selected(tasks, "lowest", d, now)
        IN  t # NoTask => /\ St!FirstAvailable(tasks[t]) < Threshold(now, d)
                          /\ t \in TreeRows(tasks, t)

\* The last of the list of leaves is the one "highest" focuses on, as the comment
\* in execute_show_leaf_tasks has it, as long as all that is due has one priority.
ListEndsInFocus ==
    (\A t, u \in LeafTasks(tasks, {"todo"}) :
        tasks[t].ddl # NoDeadline /\ tasks[u].ddl # NoDeadline => tasks[t].prio = tasks[u].prio)
    => LastRow(tasks) = Highest(tasks)

SelectionIsSound == ChoosesCandidate /\ OfferIsAtHand /\ ListEndsInFocus

\* A task whose deadline lets it wait until the threshold, and that is put off
\* beyond it, is not put forward again while the time is the same; all the
\* others still are, and the mode stays (README: low-priority tasks are put off
\* one after the other).
MayWait(t, threshold) ==
    tasks[t].ddl = NoDeadline \/ St!DeadlinePendingLimit(tasks[t].ddl, tasks[t].est) >= threshold
SiftGoesOn ==
    LET threshold == Threshold(now, sel.days)
    IN  \A until \in Waits :
            Defer(until) /\ sel.mode = "lowest" /\ until >= threshold
                         /\ tasks[sel.focus].status # "done" /\ MayWait(sel.focus, threshold) =>
                /\ sel'.mode = "lowest"
                /\ BeforeThreshold(tasks', threshold) = BeforeThreshold(tasks, threshold) \ {sel.focus}
                /\ sel'.focus \in (BeforeThreshold(tasks, threshold) \ {sel.focus}) \cup {NoTask}
                /\ sel'.focus = NoTask => BeforeThreshold(tasks', threshold) = {}

\* The same whatever the deadline.
SiftAlwaysGoesOn ==
    \A until \in Waits :
        Defer(until) /\ sel.mode = "lowest" /\ until >= Threshold(now, sel.days) => sel'.focus # sel.focus
=============================================================================
