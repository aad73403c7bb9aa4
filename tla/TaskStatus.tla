------------------------------ MODULE TaskStatus ------------------------------
(***************************************************************************)
(* Whether a task is to be done now: entity/task.rs (TaskAttr) with the    *)
(* deadline limits of entity/datetime.rs.                                  *)
(*                                                                         *)
(* A task keeps the status it was given and derives the one everybody      *)
(* reads from it, from its start and pending times, its deadline, its      *)
(* efforts and the time it last heard of.  The derived status is computed  *)
(* by some of the setters only; the others leave it as it is until the     *)
(* clock is next synchronised.                                             *)
(***************************************************************************)
EXTENDS Integers

CONSTANTS
    Times,          \* the times a user can name
    Ticks,          \* the times the clock can show
    Amounts,        \* estimated and actual work, in the unit of the times
    PendingBuffer,  \* 5 minutes
    ForceBuffer,    \* 60 minutes
    NoDeadline          \* no deadline

ASSUME TimesAssumption == Times \subseteq Int /\ Ticks \subseteq Int /\ NoDeadline \notin Int
ASSUME AmountsAssumption == Amounts \subseteq Nat
ASSUME BufferAssumption == PendingBuffer \in Nat /\ ForceBuffer \in Nat

VARIABLES
    task,  \* the attributes the status depends on
    fresh  \* history: nothing changed since the status was derived

statusVars == <<task, fresh>>

Statuses == {"todo", "pending", "done"}

(***************************************************************************)
(* The derived status                                                      *)
(***************************************************************************)
Greater(a, b) == IF a >= b THEN a ELSE b
Lesser(a, b) == IF a <= b THEN a ELSE b

DeadlinePendingLimit(deadline, est) == deadline - est - PendingBuffer
ForceTodoThreshold(deadline, rem) == deadline - rem - ForceBuffer

\* A task put off is put off no further than its deadline allows.
Clamped_Deadline(t) ==
    IF t.orig = "pending" /\ t.ddl # NoDeadline
    THEN Lesser(t.pend, t.ddl - PendingBuffer)
    ELSE t.pend
Clamped(t) ==
    IF t.orig = "pending" /\ t.ddl # NoDeadline
    THEN Lesser(t.pend, DeadlinePendingLimit(t.ddl, t.est))
    ELSE t.pend

\* The deadline is near: measured by the work left once the task has
\* started, and by the whole estimate before.
DeadlineNear(t) ==
    /\ t.ddl # NoDeadline
    /\ \/ t.synced > t.start /\ ForceTodoThreshold(t.ddl, Greater(0, t.est - t.act)) < t.synced
       \/ t.synced < t.start /\ DeadlinePendingLimit(t.ddl, t.est) < t.synced

\* A task put off until a time that is over.
WaitIsOver_Swapped(t) == t.orig = "pending" /\ t.synced < t.pend /\ t.synced > t.start
WaitIsOver(t) == t.orig = "pending" /\ t.synced > t.pend /\ t.synced > t.start

DerivedStatus_Done(t) ==
    IF DeadlineNear(t) \/ WaitIsOver(t) THEN "todo"
    ELSE IF t.orig = "todo" /\ t.start > t.synced THEN "pending"
    ELSE t.orig
DerivedStatus(t) ==
    IF t.orig # "done" /\ (DeadlineNear(t) \/ WaitIsOver(t)) THEN "todo"
    ELSE IF t.orig = "todo" /\ t.start > t.synced THEN "pending"
    ELSE t.orig

\* set_orig_status, which the other evaluating setters end with.
Evaluated(t) ==
    LET u == [t EXCEPT !.pend = Clamped(t)]
    IN  [u EXCEPT !.status = DerivedStatus(u)]

\* When work on the task alone can begin.
FirstAvailable_Start(t) == t.start
FirstAvailable(t) == IF t.orig = "pending" THEN Greater(t.start, t.pend) ELSE t.start

(***************************************************************************)
(* The operations                                                          *)
(***************************************************************************)
Evaluates(t) == task' = Evaluated(t) /\ fresh' = TRUE
LeavesStatus(t) == task' = t /\ fresh' = (fresh /\ t = task)

\* A task as it is created at time c, or as it is loaded.
StatusInit ==
    \E c \in Ticks, s \in Times, p \in Times, d \in Times \cup {NoDeadline}, o \in Statuses,
       e \in Amounts, a \in Amounts :
        /\ task = Evaluated([orig |-> o, status |-> "todo", start |-> s, pend |-> p,
                             ddl |-> d, est |-> e, act |-> a, synced |-> c])
        /\ fresh = TRUE

SyncClock == \E c \in Ticks : c > task.synced /\ Evaluates([task EXCEPT !.synced = c])

SetOrigStatus == \E s \in {"todo", "done"} : Evaluates([task EXCEPT !.orig = s])

SetStartTime == \E s \in Times : Evaluates([task EXCEPT !.start = s])

\* set_pending_until, then set_orig_status.
Defer ==
    \E p \in Times :
        Evaluates([Evaluated([task EXCEPT !.pend = p]) EXCEPT !.orig = "pending"])

\* Only a deadline that comes earlier replaces another one, and none that of
\* a finished task.
Hastened(t, d) ==
    IF t.status = "done" THEN t
    ELSE [t EXCEPT !.ddl = IF t.ddl = NoDeadline THEN d ELSE Lesser(t.ddl, d)]
SetDeadlineTime == \E d \in Times : LeavesStatus(Hastened(task, d))
UnsetDeadlineTime == LeavesStatus([task EXCEPT !.ddl = NoDeadline])

SetEstimate == \E e \in Amounts : LeavesStatus([task EXCEPT !.est = e])
SetActual == \E a \in Amounts : LeavesStatus([task EXCEPT !.act = a])

\* The deadline is the end of the appointment.
MakeAppointment ==
    \E s \in Times :
        Evaluates([Hastened([task EXCEPT !.ddl = NoDeadline], s + task.est) EXCEPT !.start = s])

StatusNext ==
    \/ SyncClock \/ SetOrigStatus \/ SetStartTime \/ Defer
    \/ SetDeadlineTime \/ UnsetDeadlineTime \/ SetEstimate \/ SetActual \/ MakeAppointment

StatusSpec == StatusInit /\ [][StatusNext]_statusVars

\* Every operation synchronises the clocks of all tasks when it loads them.
StatusFairSpec == StatusSpec /\ WF_statusVars(SyncClock)
-----------------------------------------------------------------------------
(***************************************************************************)
(* Properties                                                              *)
(***************************************************************************)
Task ==
    [orig : Statuses, status : Statuses, start : Int, pend : Int,
     ddl : Int \cup {NoDeadline}, est : Nat, act : Nat, synced : Int]

StatusTypeOK ==
    /\ task \in Task
    /\ fresh \in BOOLEAN
    /\ task.status = "done" <=> task.orig = "done"

\* However a task was put off, while there is less time to the deadline than
\* its estimate and the buffer it is to be done - but for the very moment of
\* its start (set_orig_status compares with < and with >).
KeepsToDeadline ==
    /\ fresh
    /\ task.orig # "done"
    /\ task.ddl # NoDeadline
    /\ DeadlinePendingLimit(task.ddl, task.est) < task.synced
    /\ task.synced # task.start
    => task.status = "todo"

\* The same as the comment in set_orig_status has it, at every moment.
NearDeadlineIsTodo ==
    /\ fresh
    /\ task.orig # "done"
    /\ task.ddl # NoDeadline
    /\ DeadlinePendingLimit(task.ddl, task.est) < task.synced
    => task.status = "todo"

\* A task that is not offered is one the schedule does not begin in the past.
PendingIsNotAvailable ==
    fresh /\ task.status = "pending" => task.synced <= FirstAvailable(task)

StatusSound == KeepsToDeadline /\ PendingIsNotAvailable

\* Time alone never takes a task off the list again, but for the very moment
\* of its start: the three conditions hand over to each other.
TimeKeepsDue ==
    [][SyncClock /\ fresh /\ task.status = "todo" /\ task'.synced # task'.start
        => task'.status = "todo"]_statusVars

\* A task that is left alone is not pending for ever.
WaitingEnds == <>[][SyncClock]_statusVars => <>[](task.status # "pending")
=============================================================================
