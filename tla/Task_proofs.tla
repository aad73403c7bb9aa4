----------------------------- MODULE Task_proofs -----------------------------
(***************************************************************************)
(* Proofs about the parts of TaskTimes, for any times, efforts, buffers,   *)
(* busy slots and words: the status that is derived from the attributes of *)
(* a task (TaskStatus), a task that is repeated (Repetition), the free     *)
(* time of a day (FreeTime), and the words by which the commands name a    *)
(* time (DateExpressions).                                                 *)
(*                                                                         *)
(* The invariant of the status adds to the types what deriving it leaves   *)
(* behind: while nothing changed since, deriving it again changes nothing. *)
(* For routines the types are inductive, and GoesOn with them; the rest is *)
(* the arithmetic of the business day, its slots and the calendar.         *)
(***************************************************************************)
EXTENDS TaskTimes, FiniteSums

USE TimesAssumption, AmountsAssumption, BufferAssumption

Derived(t) == t.pend = Clamped(t) /\ t.status = DerivedStatus(t)

StatusInv == StatusTypeOK /\ (fresh => Derived(task))

-----------------------------------------------------------------------------
(***************************************************************************)
(* Deriving the status                                                     *)
(***************************************************************************)
\* Deriving the status of a task touches its pending time and its status,
\* and deriving it twice is deriving it once.
LEMMA EvaluatedIsDerived ==
    ASSUME NEW t \in Task
    PROVE  /\ Evaluated(t) \in Task
           /\ Derived(Evaluated(t))
           /\ Evaluated(t).status = "done" <=> t.orig = "done"
           /\ Evaluated(t).orig = t.orig
           /\ Evaluated(t).start = t.start
           /\ Evaluated(t).ddl = t.ddl
           /\ Evaluated(t).est = t.est
           /\ Evaluated(t).act = t.act
           /\ Evaluated(t).synced = t.synced
<1> DEFINE u == [t EXCEPT !.pend = Clamped(t)]
           v == [u EXCEPT !.status = DerivedStatus(u)]
<1>1. Clamped(t) \in Int
  BY DEF Task, Clamped, Lesser, DeadlinePendingLimit
<1>2. /\ u \in Task /\ u.pend = Clamped(t) /\ u.orig = t.orig /\ u.start = t.start
      /\ u.ddl = t.ddl /\ u.est = t.est /\ u.act = t.act /\ u.synced = t.synced
  BY <1>1 DEF Task
<1>3. DerivedStatus(u) \in Statuses /\ (DerivedStatus(u) = "done" <=> u.orig = "done")
  BY <1>2 DEF DerivedStatus, Task, Statuses
<1>4. /\ v \in Task /\ v.status = DerivedStatus(u) /\ v.pend = u.pend /\ v.orig = u.orig
      /\ v.start = u.start /\ v.ddl = u.ddl /\ v.est = u.est /\ v.act = u.act
      /\ v.synced = u.synced
  BY <1>2, <1>3 DEF Task
<1>5. Evaluated(t) = v
  BY DEF Evaluated
<1>6. DerivedStatus(v) = DerivedStatus(u)
  BY <1>4 DEF DerivedStatus, DeadlineNear, WaitIsOver
<1>7. Clamped(v) = v.pend
  BY <1>2, <1>4 DEF Clamped, Lesser, DeadlinePendingLimit, Task
<1> QED
  BY <1>2, <1>3, <1>4, <1>5, <1>6, <1>7 DEF Derived

\* A deadline moved up changes nothing else.
LEMMA AdvancedTask ==
    ASSUME NEW t \in Task, NEW d \in Int
    PROVE  /\ Hastened(t, d) \in Task
           /\ Hastened(t, d).status = t.status
           /\ Hastened(t, d).orig = t.orig
  BY DEF Hastened, Task, Lesser

-----------------------------------------------------------------------------
(***************************************************************************)
(* What holds of a derived status                                          *)
(***************************************************************************)
\* Deriving the status of an open task less than its estimate and the buffer
\* before its deadline gives todo, other than at the moment of its start.
LEMMA DerivedKeepsToDeadline ==
    ASSUME NEW t \in Task, Derived(t), t.orig # "done", t.ddl # NoDeadline,
           DeadlinePendingLimit(t.ddl, t.est) < t.synced, t.synced # t.start
    PROVE  t.status = "todo"
<1> USE DEF Task, Derived
<1>1. CASE t.synced < t.start
  BY <1>1 DEF DerivedStatus, DeadlineNear
<1>2. CASE t.synced > t.start /\ t.orig = "pending"
  <2>1. t.pend <= DeadlinePendingLimit(t.ddl, t.est)
    BY <1>2 DEF Clamped, Lesser, DeadlinePendingLimit
  <2>2. WaitIsOver(t)
    BY <1>2, <2>1 DEF WaitIsOver, DeadlinePendingLimit
  <2> QED
    BY <2>2 DEF DerivedStatus
<1>3. CASE t.synced > t.start /\ t.orig = "todo"
  BY <1>3 DEF DerivedStatus
<1> QED
  BY <1>1, <1>2, <1>3 DEF Statuses

\* A derived status of pending means the start or the pending time is ahead.
LEMMA DerivedNotAvailable ==
    ASSUME NEW t \in Task, Derived(t), t.status = "pending"
    PROVE  t.synced <= FirstAvailable(t)
<1> USE DEF Task, Derived
<1>1. t.orig \in {"todo", "pending"} /\ ~WaitIsOver(t)
  BY DEF DerivedStatus, Statuses
<1>2. CASE t.orig = "pending"
  BY <1>1, <1>2 DEF WaitIsOver, FirstAvailable, Greater
<1>3. CASE t.orig = "todo"
  BY <1>3 DEF DerivedStatus, FirstAvailable
<1> QED
  BY <1>1, <1>2, <1>3

\* What is due now is due at any later time that is not its start.
LEMMA DueLater ==
    ASSUME NEW t \in Task, NEW c \in Int, Derived(t), t.status = "todo",
           c > t.synced, c # t.start
    PROVE  Evaluated([t EXCEPT !.synced = c]).status = "todo"
<1> DEFINE u == [t EXCEPT !.synced = c]
           v == [u EXCEPT !.pend = Clamped(u)]
<1>1. /\ u \in Task /\ u.orig = t.orig /\ u.start = t.start /\ u.ddl = t.ddl
      /\ u.est = t.est /\ u.act = t.act /\ u.pend = t.pend /\ u.synced = c
  BY DEF Task
<1>2. Clamped(u) = t.pend /\ t.pend \in Int
  BY <1>1 DEF Clamped, Derived, Task
<1>3. /\ v \in Task /\ v.orig = t.orig /\ v.start = t.start /\ v.ddl = t.ddl
      /\ v.est = t.est /\ v.act = t.act /\ v.pend = t.pend /\ v.synced = c
  BY <1>1, <1>2 DEF Task
<1>4. Evaluated(u).status = DerivedStatus(v)
  BY <1>1, <1>2, <1>3 DEF Evaluated, Task
<1>5. t.orig \in {"todo", "pending"}
  BY DEF Derived, DerivedStatus, Task, Statuses
<1>6. DerivedStatus(v) = "todo"
  <2> USE DEF Task
  <2>1. CASE c > t.start /\ t.orig = "todo"
    BY <1>3, <2>1 DEF DerivedStatus
  <2>2. CASE c > t.start /\ t.orig = "pending" /\ WaitIsOver(t)
    <3>1. WaitIsOver(v)
      BY <1>3, <2>2 DEF WaitIsOver
    <3> QED
      BY <3>1, <1>3, <2>2 DEF DerivedStatus
  <2>3. CASE c > t.start /\ t.orig = "pending" /\ ~WaitIsOver(t)
    <3>1. DeadlineNear(t)
      BY <2>3 DEF Derived, DerivedStatus
    <3>2. CASE t.synced > t.start
      <4>1. DeadlineNear(v)
        BY <1>3, <2>3, <3>1, <3>2 DEF DeadlineNear, ForceTodoThreshold, Greater
      <4> QED
        BY <4>1, <1>3, <2>3 DEF DerivedStatus
    <3>3. CASE t.synced < t.start
      <4>1. t.pend <= DeadlinePendingLimit(t.ddl, t.est)
        BY <2>3, <3>1 DEF Derived, Clamped, Lesser, DeadlinePendingLimit, DeadlineNear
      <4>2. WaitIsOver(v)
        BY <1>3, <2>3, <3>1, <3>3, <4>1 DEF WaitIsOver, DeadlineNear, DeadlinePendingLimit
      <4> QED
        BY <4>2, <1>3, <2>3 DEF DerivedStatus
    <3> QED
      BY <3>1, <3>2, <3>3 DEF DeadlineNear
  <2>4. CASE c < t.start
    <3>1. DeadlineNear(t)
      BY <1>5, <2>4 DEF Derived, DerivedStatus, WaitIsOver
    <3>2. DeadlineNear(v)
      BY <1>3, <2>4, <3>1 DEF DeadlineNear, DeadlinePendingLimit
    <3> QED
      BY <3>2, <1>3, <1>5 DEF DerivedStatus
  <2> QED
    BY <2>1, <2>2, <2>3, <2>4, <1>5
<1> QED
  BY <1>4, <1>6

-----------------------------------------------------------------------------
(***************************************************************************)
(* The specification                                                       *)
(***************************************************************************)
\* A step that derives the status of a well typed task establishes StatusInv.
LEMMA EvaluatesInv ==
    ASSUME NEW t \in Task, Evaluates(t)
    PROVE  StatusInv'
  BY EvaluatedIsDerived DEF Evaluates, StatusInv, StatusTypeOK, Derived, Clamped, DerivedStatus,
     DeadlineNear, WaitIsOver

\* A step that leaves the status alone keeps StatusInv.
LEMMA LeavesInv ==
    ASSUME StatusInv, NEW t \in Task, LeavesStatus(t), t.status = task.status, t.orig = task.orig
    PROVE  StatusInv'
  BY DEF LeavesStatus, StatusInv, StatusTypeOK, Derived, Clamped, DerivedStatus, DeadlineNear, WaitIsOver

\* The initial states satisfy StatusInv.
LEMMA StatusInitInv == StatusInit => StatusInv
<1> SUFFICES ASSUME StatusInit PROVE StatusInv
  OBVIOUS
<1>1. PICK t \in Task : task = Evaluated(t) /\ fresh = TRUE
  BY DEF StatusInit, Task, Statuses
<1> QED
  BY <1>1, EvaluatedIsDerived DEF StatusInv, StatusTypeOK

\* Every step keeps StatusInv.
LEMMA StatusNextInv == StatusInv /\ [StatusNext]_statusVars => StatusInv'
<1> SUFFICES ASSUME StatusInv, [StatusNext]_statusVars PROVE StatusInv'
  OBVIOUS
<1>0. task \in Task
  BY DEF StatusInv, StatusTypeOK
<1>1. CASE SyncClock
  <2>1. PICK c \in Ticks : Evaluates([task EXCEPT !.synced = c])
    BY <1>1 DEF SyncClock
  <2>2. [task EXCEPT !.synced = c] \in Task
    BY <1>0 DEF Task
  <2> QED
    BY <2>1, <2>2, EvaluatesInv
<1>2. CASE SetOrigStatus
  <2>1. PICK s \in {"todo", "done"} : Evaluates([task EXCEPT !.orig = s])
    BY <1>2 DEF SetOrigStatus
  <2>2. [task EXCEPT !.orig = s] \in Task
    BY <1>0 DEF Task, Statuses
  <2> QED
    BY <2>1, <2>2, EvaluatesInv
<1>3. CASE SetStartTime
  <2>1. PICK s \in Times : Evaluates([task EXCEPT !.start = s])
    BY <1>3 DEF SetStartTime
  <2>2. [task EXCEPT !.start = s] \in Task
    BY <1>0 DEF Task
  <2> QED
    BY <2>1, <2>2, EvaluatesInv
<1>4. CASE Defer
  <2>1. PICK p \in Times :
          Evaluates([Evaluated([task EXCEPT !.pend = p]) EXCEPT !.orig = "pending"])
    BY <1>4 DEF Defer
  <2>2. Evaluated([task EXCEPT !.pend = p]) \in Task
    BY <1>0, EvaluatedIsDerived DEF Task
  <2>3. [Evaluated([task EXCEPT !.pend = p]) EXCEPT !.orig = "pending"] \in Task
    BY <2>2 DEF Task, Statuses
  <2> QED
    BY <2>1, <2>3, EvaluatesInv
<1>5. CASE SetDeadlineTime
  <2>1. PICK d \in Times : LeavesStatus(Hastened(task, d))
    BY <1>5 DEF SetDeadlineTime
  <2> QED
    BY <1>0, <2>1, AdvancedTask, LeavesInv
<1>6. CASE UnsetDeadlineTime
  <2>1. [task EXCEPT !.ddl = NoDeadline] \in Task
    BY <1>0 DEF Task
  <2> QED
    BY <1>6, <2>1, <1>0, LeavesInv DEF UnsetDeadlineTime, Task
<1>7. CASE SetEstimate
  <2>1. PICK e \in Amounts : LeavesStatus([task EXCEPT !.est = e])
    BY <1>7 DEF SetEstimate
  <2>2. [task EXCEPT !.est = e] \in Task
    BY <1>0 DEF Task
  <2> QED
    BY <2>1, <2>2, <1>0, LeavesInv DEF Task
<1>8. CASE SetActual
  <2>1. PICK a \in Amounts : LeavesStatus([task EXCEPT !.act = a])
    BY <1>8 DEF SetActual
  <2>2. [task EXCEPT !.act = a] \in Task
    BY <1>0 DEF Task
  <2> QED
    BY <2>1, <2>2, <1>0, LeavesInv DEF Task
<1>9. CASE MakeAppointment
  <2>1. PICK s \in Times :
          Evaluates([Hastened([task EXCEPT !.ddl = NoDeadline], s + task.est) EXCEPT !.start = s])
    BY <1>9 DEF MakeAppointment
  <2>2. [task EXCEPT !.ddl = NoDeadline] \in Task /\ s + task.est \in Int
    BY <1>0 DEF Task
  <2>3. Hastened([task EXCEPT !.ddl = NoDeadline], s + task.est) \in Task
    BY <2>2, AdvancedTask
  <2>4. [Hastened([task EXCEPT !.ddl = NoDeadline], s + task.est) EXCEPT !.start = s] \in Task
    BY <2>3 DEF Task
  <2> QED
    BY <2>1, <2>4, EvaluatesInv
<1>10. CASE UNCHANGED statusVars
  BY <1>10 DEF statusVars, StatusInv, StatusTypeOK, Derived, Clamped, DerivedStatus, DeadlineNear, WaitIsOver
<1> QED
  BY <1>1, <1>2, <1>3, <1>4, <1>5, <1>6, <1>7, <1>8, <1>9, <1>10 DEF StatusNext

\* StatusInv holds throughout.
THEOREM StatusInvariance == StatusSpec => []StatusInv
  BY StatusInitInv, StatusNextInv, PTL DEF StatusSpec

\* Every reachable task is well typed, and its derived status is done exactly
\* if its own is.
THEOREM StatusTypeCorrect == StatusSpec => []StatusTypeOK
<1>1. StatusInv => StatusTypeOK
  BY DEF StatusInv
<1> QED
  BY StatusInvariance, <1>1, PTL

\* A task is never held back into the time it needs before its deadline,
\* whatever was set and in whatever order.
THEOREM DeadlineKept == StatusSpec => []KeepsToDeadline
<1>1. StatusInv => KeepsToDeadline
  BY DerivedKeepsToDeadline DEF StatusInv, StatusTypeOK, KeepsToDeadline
<1> QED
  BY StatusInvariance, <1>1, PTL

\* A task that is not offered is not available either.
THEOREM NotAvailable == StatusSpec => []PendingIsNotAvailable
<1>1. StatusInv => PendingIsNotAvailable
  BY DerivedNotAvailable DEF StatusInv, StatusTypeOK, PendingIsNotAvailable
<1> QED
  BY StatusInvariance, <1>1, PTL

\* A task is offered in time for its deadline, and one that is not offered is
\* not available either.
THEOREM StatusIsSound == StatusSpec => []StatusSound
  BY DeadlineKept, NotAvailable, PTL DEF StatusSound

\* Time alone takes no task off the list, but at the moment of its start.
THEOREM DueKept == StatusSpec => TimeKeepsDue
<1>1. StatusInv /\ [StatusNext]_statusVars
        => [SyncClock /\ fresh /\ task.status = "todo" /\ task'.synced # task'.start
              => task'.status = "todo"]_statusVars
  <2> SUFFICES ASSUME StatusInv, SyncClock, fresh, task.status = "todo", task'.synced # task'.start
               PROVE  task'.status = "todo"
    OBVIOUS
  <2>1. PICK c \in Ticks : c > task.synced /\ task' = Evaluated([task EXCEPT !.synced = c])
    BY DEF SyncClock, Evaluates
  <2>2. task \in Task /\ Derived(task)
    BY DEF StatusInv, StatusTypeOK
  <2>3. [task EXCEPT !.synced = c] \in Task
    BY <2>2 DEF Task
  <2>4. task'.synced = c /\ task'.start = task.start
    BY <2>1, <2>2, <2>3, EvaluatedIsDerived DEF Task
  <2> QED
    BY <2>1, <2>2, <2>4, DueLater
<1> QED
  BY StatusInvariance, <1>1, PTL DEF StatusSpec, TimeKeepsDue

-----------------------------------------------------------------------------
(***************************************************************************)
(* Routines                                                                *)
(***************************************************************************)
Routine ==
    [est : Int, start : Int, ddl : Int \cup {NoTime}, interval : Nat \ {0},
     anchor : {"deadline", "completion"}, advance : Nat]

-----------------------------------------------------------------------------
(***************************************************************************)
(* The business day                                                        *)
(***************************************************************************)
\* A day has seconds before the morning and after it.
LEMMA DayIsLong == /\ Day \in Nat /\ Day > 0 /\ LastSecond = Day - 1
                   /\ Morning \in Int /\ 0 <= Morning /\ Morning < Day
  BY DEF Day, LastSecond, Morning, Hour

\* A time is its date and its time of day.
LEMMA DateAndTime ==
    ASSUME NEW t \in Int
    PROVE  /\ DateOf(t) \in Int /\ TimeOfDay(t) \in 0..LastSecond
           /\ t = At(DateOf(t), TimeOfDay(t))
<1>1. t \div Day \in Int /\ t % Day \in 0..(Day - 1) /\ t = Day * (t \div Day) + (t % Day)
  BY DayIsLong
<1>2. Day * (t \div Day) = (t \div Day) * Day
  BY <1>1, DayIsLong
<1> QED
  BY <1>1, <1>2, DayIsLong DEF DateOf, TimeOfDay, At

LEMMA DateIsNat ==
    ASSUME NEW t \in Nat
    PROVE  DateOf(t) \in Nat
<1>1. \A n \in Nat : n \div 86400 \in Nat
  OBVIOUS
<1> QED
  BY <1>1 DEF DateOf, Day

\* A date and a time of day make a time, which has that date.
LEMMA AtType ==
    ASSUME NEW date \in Int, NEW tod \in Int
    PROVE  At(date, tod) \in Int
  BY DayIsLong DEF At

LEMMA DateOfAt ==
    ASSUME NEW date \in Int, NEW tod \in 0..LastSecond
    PROVE  DateOf(At(date, tod)) = date
<1> DEFINE t == At(date, tod)
           e == DateOf(t)
           r == TimeOfDay(t)
<1>1. t \in Int /\ t = date * Day + tod /\ tod \in Int /\ 0 <= tod /\ tod < Day /\ date * Day \in Int
  BY DayIsLong DEF At
<1> HIDE DEF t
<1>2. e \in Int /\ r \in Int /\ 0 <= r /\ r < Day /\ t = e * Day + r /\ e * Day \in Int
  BY <1>1, DateAndTime, DayIsLong DEF At
<1> HIDE DEF e, r
<1>3. (e - date) * Day = tod - r
  BY <1>1, <1>2, DayIsLong
<1>4. ~ (e - date >= 1)
  <2> SUFFICES ASSUME e - date >= 1 PROVE FALSE
    OBVIOUS
  <2>1. (e - date) * Day >= Day
    BY <1>2, DayIsLong
  <2> QED
    BY <1>1, <1>2, <1>3, <2>1, DayIsLong
<1>5. ~ (e - date <= -1)
  <2> SUFFICES ASSUME e - date <= -1 PROVE FALSE
    OBVIOUS
  <2>1. (e - date) * Day <= -Day
    BY <1>2, DayIsLong
  <2> QED
    BY <1>1, <1>2, <1>3, <2>1, DayIsLong
<1> QED
  BY <1>2, <1>4, <1>5 DEF e, t

\* The date of the next business day: the date of the time or the next one.
LEMMA NextStartDate ==
    ASSUME NEW t \in Int
    PROVE  DateOf(NextBusinessDayStart(t)) =
              IF TimeOfDay(t) < Morning THEN DateOf(t) ELSE DateOf(t) + 1
<1>1. Morning \in 0..LastSecond
  BY DayIsLong
<1> QED
  BY <1>1, DateAndTime, DateOfAt DEF NextBusinessDayStart

\* A time by day on that date, or later, is after the time it was counted from.
LEMMA NextStartIsLater ==
    ASSUME NEW t \in Int, NEW n \in Nat, NEW tod \in 0..LastSecond
    PROVE  /\ DateOf(NextBusinessDayStart(t)) + n \in Int
           /\ At(DateOf(NextBusinessDayStart(t)) + n, tod) \in Int
           /\ tod >= Morning => At(DateOf(NextBusinessDayStart(t)) + n, tod) > t
<1> DEFINE date == DateOf(NextBusinessDayStart(t))
           d == DateOf(t)
           s == TimeOfDay(t)
<1>1. d \in Int /\ s \in 0..LastSecond /\ t = At(d, s)
  BY DateAndTime
<1>2. date = IF s < Morning THEN d ELSE d + 1
  BY NextStartDate
<1> HIDE DEF date, d, s
<1>3. /\ LastSecond \in Int /\ Morning \in Int
      /\ s \in Int /\ tod \in Int /\ s <= LastSecond /\ tod >= 0
  BY <1>1, DayIsLong
<1>4. date + n \in Int
  BY <1>1, <1>2
<1>5. At(date + n, tod) \in Int
  BY <1>3, <1>4, AtType
<1>6. ASSUME tod >= Morning PROVE At(date + n, tod) > At(d, s)
  <2>1. CASE s < Morning
    <3>1. date = d /\ s < tod
      BY <1>2, <1>3, <1>6, <2>1
    <3> QED
      BY <1>1, <1>3, <3>1, DayIsLong DEF At
  <2>2. CASE ~(s < Morning)
    <3>1. date = d + 1
      BY <1>2, <2>2
    <3> QED
      BY <1>1, <1>3, <3>1, DayIsLong DEF At
  <2> QED
    BY <2>1, <2>2
<1> QED
  BY <1>1, <1>4, <1>5, <1>6 DEF date

\* A start that moves by the whole days of a later deadline keeps its
\* distance.
LEMMA ShiftIsLess ==
    ASSUME NEW d \in Int
    PROVE  /\ StartShift(d) * Day \in Int
           /\ d >= 0 => StartShift(d) * Day <= d
<1>1. CASE d >= 0
  BY <1>1 DEF StartShift, WholeDays, Day
<1>2. CASE d < 0
  BY <1>2 DEF StartShift, WholeDays, Day
<1> QED
  BY <1>1, <1>2

-----------------------------------------------------------------------------
(***************************************************************************)
(* The operators                                                           *)
(***************************************************************************)
LEMMA AdjustedType ==
    ASSUME NEW est \in Int, NEW work \in Int
    PROVE  AdjustedEstimate(est, work) \in Int
  BY DEF AdjustedEstimate, Larger, Quarter

\* The adjusted estimate lies between the estimate and the work.
LEMMA AdjustedIsBetween ==
    ASSUME NEW est \in Int, NEW work \in Int, est >= 60, work > 0
    PROVE  \/ est <= AdjustedEstimate(est, work) /\ AdjustedEstimate(est, work) <= work
           \/ work <= AdjustedEstimate(est, work) /\ AdjustedEstimate(est, work) <= est
           \/ work < 60 /\ AdjustedEstimate(est, work) = 60
  BY DEF AdjustedEstimate, Larger, Quarter

LEMMA AdvancedType ==
    ASSUME NEW o \in Occurrence, NEW d \in Int
    PROVE  /\ Advanced(o, d) \in Occurrence
           /\ Advanced(o, d).done = o.done
           /\ Advanced(o, d).start = o.start
           /\ ~o.done /\ o.ddl = NoTime => Advanced(o, d).ddl = d
  BY DEF Advanced, Occurrence, Smaller

\* The types of the routine, without those of its occurrences.
LEMMA RoutineType ==
    ASSUME TypeOK
    PROVE  /\ routine.start \in Int /\ routine.ddl \in Int \cup {NoTime}
           /\ routine.interval - 1 \in Nat /\ routine.advance * Day \in Int
           /\ routine.est \in Int
  BY DEF TypeOK, Day

\* The time of day of the deadlines of a routine.
LEMMA DeadlineTime ==
    ASSUME TypeOK
    PROVE  /\ routine.ddl # NoTime => TimeOfDay(routine.ddl) \in 0..LastSecond
           /\ routine.ddl # NoTime /\ ByDay => TimeOfDay(routine.ddl) >= Morning
           /\ LastSecond \in 0..LastSecond /\ LastSecond >= Morning
<1>1. routine.ddl # NoTime => TimeOfDay(routine.ddl) \in 0..LastSecond
  BY RoutineType, DateAndTime
<1>2. LastSecond \in 0..LastSecond /\ LastSecond >= Morning
  BY DEF LastSecond, Morning, Hour, Day
<1> QED
  BY <1>1, <1>2 DEF ByDay

\* The next occurrence is open, and due after what it is counted from.
LEMMA NextOccurrenceType ==
    ASSUME TypeOK, NEW o \in Occurrence, NEW f \in Int, NEW e \in Int
    PROVE  /\ NextOccurrence(o, f, e) \in Occurrence
           /\ ~NextOccurrence(o, f, e).done
           /\ ByDay => NextOccurrence(o, f, e).ddl > Anchor(o, f)
<1> DEFINE a == Anchor(o, f)
           n == routine.interval - 1
           day == NextOccurrenceDay(o, f)
           ddlTime == IF routine.ddl = NoTime THEN LastSecond ELSE TimeOfDay(routine.ddl)
           ddl == At(day, ddlTime)
           start == At(day, TimeOfDay(routine.start)) - routine.advance * Day
<1>1. a \in Int
  BY DEF Anchor, Occurrence
<1>2. n \in Nat
  BY RoutineType
<1>3. ddlTime \in 0..LastSecond /\ (ByDay => ddlTime >= Morning)
  BY DeadlineTime
<1>4. day = DateOf(NextBusinessDayStart(a)) + n
  <2>1. DateOf(NextBusinessDayStart(a)) \in Int /\ routine.interval \in Int
    <3>1. DateOf(NextBusinessDayStart(a)) \in Int
      BY <1>1, NextStartDate, DateAndTime
    <3>2. routine.interval \in Int
      BY DEF TypeOK
    <3> QED
      BY <3>1, <3>2
  <2> QED
    BY <2>1 DEF NextOccurrenceDay
<1>5. TimeOfDay(routine.start) \in Int
  BY RoutineType, DateAndTime
<1> HIDE DEF a, n, day, ddlTime
<1>6. day \in Int /\ ddl \in Int /\ (ByDay => ddl > a)
  BY <1>1, <1>2, <1>3, <1>4, NextStartIsLater
<1>7. start \in Int
  <2> DEFINE p == At(day, TimeOfDay(routine.start))
             q == routine.advance * Day
  <2>1. p \in Int
    BY <1>5, <1>6, AtType
  <2>2. q \in Int
    BY RoutineType
  <2> HIDE DEF p, q
  <2>3. p - q \in Int
    BY <2>1, <2>2
  <2> QED
    BY <2>3 DEF p, q
<1>8. NextOccurrence(o, f, e) =
         [start |-> start, ddl |-> ddl, est |-> e, act |-> 0, done |-> FALSE]
  BY DEF NextOccurrence, day, ddlTime
<1> HIDE DEF start, ddl
<1> QED
  BY <1>6, <1>7, <1>8 DEF Occurrence, a

\* Where a deadline is put off to.
LEMMA DeferredDeadlineType ==
    ASSUME TypeOK, NEW o \in Occurrence, o.ddl # NoTime
    PROVE  /\ o.ddl \in Int /\ o.start \in Int /\ DeferredDeadline(o) \in Int
           /\ ByDay => DeferredDeadline(o) > o.ddl
<1>1. o.ddl \in Int /\ o.start \in Int
  BY DEF Occurrence
<1>2. routine.interval \in Int /\ routine.interval > 0
  BY DEF TypeOK
<1>3. CASE routine.ddl = NoTime
  BY <1>1, <1>2, <1>3 DEF DeferredDeadline, Day
<1>4. CASE routine.ddl # NoTime
  <2> DEFINE n == routine.interval - 1
             date == DateOf(NextBusinessDayStart(o.ddl))
             tod == TimeOfDay(routine.ddl)
  <2>1. n \in Nat /\ tod \in 0..LastSecond /\ (ByDay => tod >= Morning)
    BY <1>2, <1>4, DeadlineTime
  <2>2. date \in Int
    BY <1>1, NextStartDate, DateAndTime
  <2>3. date + routine.interval - 1 = date + n
    BY <1>2, <2>2
  <2>4. DeferredDeadline(o) = At(date + n, tod)
    BY <1>4, <2>3 DEF DeferredDeadline
  <2> HIDE DEF n, tod
  <2> QED
    BY <1>1, <2>1, <2>4, NextStartIsLater
<1> QED
  BY <1>1, <1>3, <1>4

\* What deferring does to an occurrence with a deadline.
LEMMA DeferredType ==
    ASSUME TypeOK, NEW o \in Occurrence, o.ddl # NoTime
    PROVE  /\ Deferred(o) \in Occurrence
           /\ ~Deferred(o).done
           /\ ByDay /\ ~o.done =>
                /\ Deferred(o).ddl > o.ddl
                /\ Deferred(o).ddl - Deferred(o).start >= o.ddl - o.start
<1> DEFINE d == DeferredDeadline(o)
           u == [o EXCEPT !.ddl = NoTime]
           v == Advanced(u, d)
           s == StartShift(d - o.ddl) * Day
<1>1. o.ddl \in Int /\ o.start \in Int /\ d \in Int /\ (ByDay => d > o.ddl)
  BY DeferredDeadlineType
<1>2. u \in Occurrence /\ u.ddl = NoTime /\ u.done = o.done /\ u.start = o.start
  BY DEF Occurrence
<1> HIDE DEF d, u
<1>3. v \in Occurrence /\ v.start = o.start /\ (~o.done => v.ddl = d)
  BY <1>1, <1>2, AdvancedType
<1>4. s \in Int /\ (ByDay => s <= d - o.ddl)
  <2> DEFINE e == d - o.ddl
  <2>1. e \in Int /\ (ByDay => e >= 0)
    BY <1>1
  <2> HIDE DEF e
  <2>2. StartShift(e) * Day \in Int /\ (ByDay => StartShift(e) * Day <= e)
    BY <2>1, ShiftIsLess
  <2> QED
    BY <2>2 DEF e
<1>5. Deferred(o) = [v EXCEPT !.done = FALSE, !.start = v.start + s]
  BY DEF Deferred, d, u
<1> HIDE DEF v, s
<1>6. /\ Deferred(o) \in Occurrence /\ ~Deferred(o).done
      /\ Deferred(o).start = o.start + s /\ Deferred(o).ddl = v.ddl
  <2>1. o.start + s \in Int
    BY <1>1, <1>4
  <2> QED
    BY <1>3, <1>5, <2>1 DEF Occurrence
<1> QED
  BY <1>1, <1>3, <1>4, <1>6

-----------------------------------------------------------------------------
(***************************************************************************)
(* The inductive invariant                                                 *)
(***************************************************************************)
\* What is still to be deferred has a deadline to defer.
RestIsDue == (~sweeping => rest = {}) /\ \A i \in rest : occ[i].ddl # NoTime

RoutineInv == TypeOK /\ GoesOn /\ RestIsDue

\* Replacing one occurrence keeps the types, and keeps the routine alive if
\* the new one is open or the old one was finished.
LEMMA ReplaceOne ==
    ASSUME TypeOK, GoesOn, UNCHANGED <<routine, now>>,
           NEW i \in DOMAIN occ, NEW o \in Occurrence, o.done => occ[i].done,
           occ' = [occ EXCEPT ![i] = o]
    PROVE  /\ occ' \in Seq(Occurrence) /\ DOMAIN occ' = DOMAIN occ
           /\ occ'[i] = o /\ \A j \in DOMAIN occ : j # i => occ'[j] = occ[j]
           /\ GoesOn'
<1>1. occ \in Seq(Occurrence)
  BY DEF TypeOK
<1>2. /\ occ' \in Seq(Occurrence) /\ DOMAIN occ' = DOMAIN occ
      /\ occ'[i] = o /\ \A j \in DOMAIN occ : j # i => occ'[j] = occ[j]
  BY <1>1
<1>3. PICK k \in DOMAIN occ : ~occ[k].done
  BY DEF GoesOn
<1>4. ~occ'[k].done
  BY <1>2, <1>3
<1> QED
  BY <1>2, <1>3, <1>4 DEF GoesOn

LEMMA ReplaceAll ==
    ASSUME TypeOK, GoesOn, NEW f,
           \A i \in DOMAIN occ : f[i] \in Occurrence /\ f[i].done = occ[i].done,
           occ' = [i \in DOMAIN occ |-> f[i]]
    PROVE  /\ occ' \in Seq(Occurrence) /\ DOMAIN occ' = DOMAIN occ
           /\ GoesOn'
<1>1. occ \in Seq(Occurrence) /\ DOMAIN occ = 1..Len(occ) /\ Len(occ) \in Nat
  BY DEF TypeOK
<1>2. occ' \in [1..Len(occ) -> Occurrence]
  BY <1>1
<1>3. occ' \in Seq(Occurrence) /\ DOMAIN occ' = DOMAIN occ
  BY <1>1, <1>2
<1>4. PICK k \in DOMAIN occ : ~occ[k].done
  BY DEF GoesOn
<1> QED
  BY <1>3, <1>4 DEF GoesOn

LEMMA RoutineInitInv == Init => RoutineInv
<1> SUFFICES ASSUME Init PROVE RoutineInv
  OBVIOUS
<1>1. routine \in [est : Int, start : Int, ddl : Int \cup {NoTime}, interval : Nat \ {0},
                   anchor : {"deadline", "completion"}, advance : Nat]
  BY RoutinesAssumption DEF Init
<1>2. PICK s \in Starts, d \in Deadlines, e \in Efforts :
         occ = <<[start |-> s, ddl |-> d, est |-> e, act |-> 0, done |-> FALSE]>>
  BY DEF Init
<1>3. [start |-> s, ddl |-> d, est |-> e, act |-> 0, done |-> FALSE] \in Occurrence
  BY RangesAssumption DEF Occurrence
<1>4. occ \in Seq(Occurrence) /\ 1 \in DOMAIN occ /\ ~occ[1].done
  BY <1>2, <1>3
<1>5. now \in Int /\ sweeping = FALSE /\ rest = {}
  BY RangesAssumption DEF Init
<1> QED
  BY <1>1, <1>4, <1>5 DEF RoutineInv, TypeOK, GoesOn, RestIsDue

LEMMA RoutineNextInv == RoutineInv /\ [Next]_vars => RoutineInv'
<1> SUFFICES ASSUME RoutineInv, [Next]_vars PROVE RoutineInv'
  OBVIOUS
<1>t. TypeOK /\ GoesOn /\ RestIsDue
  BY DEF RoutineInv
<1>o. \A i \in DOMAIN occ : occ[i] \in Occurrence
  BY <1>t DEF TypeOK
<1>i. Idle => rest = {}
  BY <1>t DEF Idle, RestIsDue
\* What is enough for an action that happens while nothing is swept.
<1>e. ASSUME Idle, UNCHANGED <<now, sweeping, rest>>,
             routine' \in Routine, occ' \in Seq(Occurrence), GoesOn'
      PROVE  RoutineInv'
  <2>1. rest' = {} /\ sweeping' \in BOOLEAN /\ now' \in Int
    BY <1>t, <1>i, <1>e DEF TypeOK
  <2> QED
    BY <1>e, <2>1 DEF RoutineInv, TypeOK, RestIsDue, Routine
<1>r. routine \in Routine
  BY <1>t DEF TypeOK, Routine
<1>1. CASE Tick
  <2>1. now' \in Int /\ UNCHANGED <<routine, occ, sweeping, rest>>
    BY <1>1, RangesAssumption DEF Tick
  <2> QED
    BY <1>t, <2>1 DEF RoutineInv, TypeOK, GoesOn, RestIsDue
<1>2. ASSUME NEW i \in DOMAIN occ, NEW w \in Efforts, NEW f \in Clock, Complete(i, w, f)
      PROVE  RoutineInv'
  <2> DEFINE worked == occ[i].act + w
             est == AdjustedEstimate(routine.est, worked)
             next == NextOccurrence(occ[i], f, est)
             o == [occ[i] EXCEPT !.act = worked, !.done = TRUE]
             before == [occ EXCEPT ![i] = o]
  <2>1. worked \in Nat /\ worked \in Int /\ f \in Int /\ routine.est \in Int
    BY <1>t, <1>o, RangesAssumption, RoutineType DEF Occurrence
  <2>2. est \in Int
    BY <2>1, AdjustedType, Zenon
  <2>3. next \in Occurrence /\ ~next.done
    BY <1>t, <1>o, <2>1, <2>2, NextOccurrenceType
  <2>4. o \in Occurrence
    BY <1>o, <2>1 DEF Occurrence
  <2>5. occ' = Append(before, next) /\ routine' = [routine EXCEPT !.est = est]
    BY <1>2 DEF Complete
  <2> HIDE DEF worked, est, next, o
  <2>6. before \in Seq(Occurrence)
    BY <1>t, <2>4 DEF TypeOK
  <2>7. /\ occ' \in Seq(Occurrence)
        /\ Len(before) + 1 \in DOMAIN occ' /\ occ'[Len(before) + 1] = next
    BY <2>3, <2>5, <2>6
  <2>8. GoesOn'
    BY <2>3, <2>7 DEF GoesOn
  <2>9. routine' \in Routine
    BY <1>r, <2>2, <2>5 DEF Routine
  <2>10. Idle /\ UNCHANGED <<now, sweeping, rest>>
    BY <1>2 DEF Complete
  <2> QED
    BY <1>e, <2>7, <2>8, <2>9, <2>10
<1>3. ASSUME NEW i \in DOMAIN occ, DeferRoutine(i) PROVE RoutineInv'
  <2>1. /\ Idle /\ occ[i].ddl # NoTime /\ UNCHANGED <<routine, now, sweeping, rest>>
        /\ occ' = [occ EXCEPT ![i] = Deferred(occ[i])]
    BY <1>3 DEF DeferRoutine
  <2>2. Deferred(occ[i]) \in Occurrence /\ ~Deferred(occ[i]).done
    BY <1>t, <1>o, <2>1, DeferredType
  <2>3. occ' \in Seq(Occurrence) /\ GoesOn'
    BY <1>t, <2>1, <2>2, ReplaceOne
  <2> QED
    BY <1>e, <1>r, <2>1, <2>3
<1>4. CASE DeferAll
  BY <1>t, <1>i, <1>4 DEF DeferAll, RoutineInv, TypeOK, GoesOn, RestIsDue
<1>5. CASE SweepRound
  <2>1. Overdue \subseteq DOMAIN occ /\ \A i \in Overdue : occ[i].ddl # NoTime
    BY DEF Overdue
  <2>2. rest' = Overdue /\ sweeping' = (Overdue # {}) /\ UNCHANGED <<routine, occ, now>>
    BY <1>5 DEF SweepRound
  <2> HIDE DEF Overdue
  <2>3. sweeping' \in BOOLEAN /\ (~sweeping' => rest' = {})
    BY <2>2
  <2> QED
    BY <1>t, <2>1, <2>2, <2>3 DEF RoutineInv, TypeOK, GoesOn, RestIsDue
<1>6. ASSUME NEW i \in rest, SweepDefer(i) PROVE RoutineInv'
  <2>1. /\ i \in DOMAIN occ /\ occ[i].ddl # NoTime /\ sweeping
        /\ UNCHANGED <<routine, now, sweeping>> /\ rest' = rest \ {i}
        /\ occ' = [occ EXCEPT ![i] = Deferred(occ[i])]
    BY <1>t, <1>6 DEF SweepDefer, TypeOK, RestIsDue
  <2>2. Deferred(occ[i]) \in Occurrence /\ ~Deferred(occ[i]).done
    BY <1>t, <1>o, <2>1, DeferredType
  <2>3. /\ occ' \in Seq(Occurrence) /\ GoesOn' /\ DOMAIN occ' = DOMAIN occ
        /\ \A j \in DOMAIN occ : j # i => occ'[j] = occ[j]
    BY <1>t, <2>1, <2>2, ReplaceOne
  <2>4. rest' \subseteq DOMAIN occ' /\ \A j \in rest' : occ'[j].ddl # NoTime
    BY <1>t, <2>1, <2>3 DEF TypeOK, RestIsDue
  <2>5. TypeOK'
    BY <1>t, <2>1, <2>3, <2>4 DEF TypeOK
  <2> QED
    BY <2>1, <2>3, <2>4, <2>5 DEF RoutineInv, RestIsDue
<1>7. CASE Edit
  <2>1. ASSUME NEW i \in DOMAIN occ, NEW s \in Starts, SetStart(i, s) PROVE RoutineInv'
    <3> DEFINE o == [occ[i] EXCEPT !.start = s]
    <3>1. o \in Occurrence /\ o.done = occ[i].done
      BY <1>o, RangesAssumption DEF Occurrence
    <3>2. Idle /\ UNCHANGED <<routine, now, sweeping, rest>> /\ occ' = [occ EXCEPT ![i] = o]
      BY <2>1 DEF SetStart
    <3> HIDE DEF o
    <3>3. occ' \in Seq(Occurrence) /\ GoesOn'
      BY <1>t, <3>1, <3>2, ReplaceOne
    <3> QED
      BY <1>e, <1>r, <3>2, <3>3
  <2>2. ASSUME NEW i \in DOMAIN occ, NEW d \in Deadlines, SetDeadline(i, d) PROVE RoutineInv'
    <3>1. Advanced(occ[i], d) \in Occurrence /\ Advanced(occ[i], d).done = occ[i].done
      BY <1>o, AdvancedType, RangesAssumption
    <3>2. /\ Idle /\ UNCHANGED <<routine, now, sweeping, rest>>
          /\ occ' = [occ EXCEPT ![i] = Advanced(occ[i], d)]
      BY <2>2 DEF SetDeadline
    <3>3. occ' \in Seq(Occurrence) /\ GoesOn'
      BY <1>t, <3>1, <3>2, ReplaceOne
    <3> QED
      BY <1>e, <1>r, <3>2, <3>3
  <2>3. ASSUME NEW i \in DOMAIN occ, UnsetDeadline(i) PROVE RoutineInv'
    <3> DEFINE o == [occ[i] EXCEPT !.ddl = NoTime]
    <3>1. o \in Occurrence /\ o.done = occ[i].done
      BY <1>o DEF Occurrence
    <3>2. Idle /\ UNCHANGED <<routine, now, sweeping, rest>> /\ occ' = [occ EXCEPT ![i] = o]
      BY <2>3 DEF UnsetDeadline
    <3> HIDE DEF o
    <3>3. occ' \in Seq(Occurrence) /\ GoesOn'
      BY <1>t, <3>1, <3>2, ReplaceOne
    <3> QED
      BY <1>e, <1>r, <3>2, <3>3
  <2>4. ASSUME NEW d \in RoutineDeadlines, SetRoutineDeadline(d) PROVE RoutineInv'
    <3> DEFINE e == IF routine.ddl = NoTime THEN d ELSE Smaller(routine.ddl, d)
               f == [i \in DOMAIN occ |-> Advanced(occ[i], e)]
    <3>1. e \in Int
      BY <1>t, RoutineType, RangesAssumption DEF Smaller
    <3>2. /\ Idle /\ UNCHANGED <<now, sweeping, rest>>
          /\ routine' = [routine EXCEPT !.ddl = e] /\ occ' = f
      BY <2>4 DEF SetRoutineDeadline
    <3> HIDE DEF e
    <3>3. \A i \in DOMAIN occ : f[i] \in Occurrence /\ f[i].done = occ[i].done
      BY <1>o, <3>1, AdvancedType
    <3>4. occ' \in Seq(Occurrence) /\ GoesOn'
      BY <1>t, <3>2, <3>3, ReplaceAll
    <3>5. routine' \in Routine
      BY <1>r, <3>1, <3>2 DEF Routine
    <3> QED
      BY <1>e, <3>2, <3>4, <3>5
  <2>5. ASSUME NEW e \in Efforts, NEW z \in BOOLEAN, Arrange(e, z) PROVE RoutineInv'
    <3> DEFINE f == [i \in DOMAIN occ |->
                       IF occ[i].done \/ (occ[i].est = 0 /\ ~z) THEN occ[i]
                       ELSE [occ[i] EXCEPT !.est = e]]
    <3>1. Idle /\ UNCHANGED <<routine, now, sweeping, rest>> /\ occ' = f
      BY <2>5 DEF Arrange
    <3>2. \A i \in DOMAIN occ : f[i] \in Occurrence /\ f[i].done = occ[i].done
      BY <1>o, RangesAssumption DEF Occurrence
    <3>3. occ' \in Seq(Occurrence) /\ GoesOn'
      BY <1>t, <3>1, <3>2, ReplaceAll
    <3> QED
      BY <1>e, <1>r, <3>1, <3>3
  <2> QED
    BY <1>7, <2>1, <2>2, <2>3, <2>4, <2>5 DEF Edit
<1>8. CASE UNCHANGED vars
  BY <1>t, <1>8 DEF vars, RoutineInv, TypeOK, GoesOn, RestIsDue
<1> QED
  BY <1>1, <1>2, <1>3, <1>4, <1>5, <1>6, <1>7, <1>8 DEF Next, Sweep

THEOREM RoutineInvariance == Spec => []RoutineInv
<1>1. Init => RoutineInv
  BY RoutineInitInv
<1>2. RoutineInv /\ [Next]_vars => RoutineInv'
  BY RoutineNextInv
<1> QED
  BY <1>1, <1>2, PTL DEF Spec

-----------------------------------------------------------------------------
(***************************************************************************)
(* The properties                                                          *)
(***************************************************************************)
\* Every reachable state is well typed.
THEOREM RoutineTypeCorrect == Spec => []TypeOK
<1>1. RoutineInv => TypeOK
  BY DEF RoutineInv
<1> QED
  BY <1>1, RoutineInvariance, PTL

\* One occurrence of a routine is always open, whatever commands in whatever
\* order: complete_task makes the next one in the step that finishes the last.
THEOREM RoutineGoesOn == Spec => []GoesOn
<1>1. RoutineInv => GoesOn
  BY DEF RoutineInv
<1> QED
  BY <1>1, RoutineInvariance, PTL

\* Deferring moves a deadline by day forward and never brings the start
\* closer to it (execute_defer_routine).
THEOREM DefersMoveForward == Spec => DefersForward
<1>1. RoutineInv /\ [Next]_vars =>
        [\A i \in DOMAIN occ :
            /\ ByDay /\ ~occ[i].done
            /\ DeferRoutine(i) \/ SweepDefer(i)
            => /\ occ'[i].ddl > occ[i].ddl
               /\ occ'[i].ddl - occ'[i].start >= occ[i].ddl - occ[i].start]_vars
  <2> SUFFICES ASSUME RoutineInv, NEW i \in DOMAIN occ, ByDay, ~occ[i].done,
                      DeferRoutine(i) \/ SweepDefer(i)
               PROVE  /\ occ'[i].ddl > occ[i].ddl
                      /\ occ'[i].ddl - occ'[i].start >= occ[i].ddl - occ[i].start
    OBVIOUS
  <2>1. TypeOK /\ occ[i] \in Occurrence
    BY DEF RoutineInv, TypeOK
  <2>2. occ[i].ddl # NoTime
    BY DEF DeferRoutine, SweepDefer, RoutineInv, RestIsDue
  <2>3. occ'[i] = Deferred(occ[i])
    BY <2>1 DEF DeferRoutine, SweepDefer, TypeOK
  <2> QED
    BY <2>1, <2>2, <2>3, DeferredType
<1> QED
  BY <1>1, RoutineInvariance, PTL DEF Spec, DefersForward

\* The next occurrence is due after the deadline or the completion it is
\* counted from (build_next_repetition_task_attr).
THEOREM NextComesLater == Spec => NextIsLater
<1>1. RoutineInv /\ [Next]_vars =>
        [\A i \in DOMAIN occ, w \in Efforts, f \in Clock :
            ByDay /\ Complete(i, w, f)
            => occ'[Len(occ')].ddl >
                 IF routine.anchor = "deadline" /\ occ[i].ddl # NoTime THEN occ[i].ddl ELSE f]_vars
  <2> SUFFICES ASSUME RoutineInv, NEW i \in DOMAIN occ, NEW w \in Efforts, NEW f \in Clock,
                      ByDay, Complete(i, w, f)
               PROVE  occ'[Len(occ')].ddl > Anchor(occ[i], f)
    BY DEF Anchor
  <2> DEFINE worked == occ[i].act + w
             est == AdjustedEstimate(routine.est, worked)
             next == NextOccurrence(occ[i], f, est)
             o == [occ[i] EXCEPT !.act = worked, !.done = TRUE]
             before == [occ EXCEPT ![i] = o]
  <2>1. TypeOK /\ occ[i] \in Occurrence /\ f \in Int
    BY RangesAssumption DEF RoutineInv, TypeOK
  <2>2. worked \in Nat /\ worked \in Int /\ routine.est \in Int
    BY <2>1, RangesAssumption, RoutineType DEF Occurrence
  <2>3. est \in Int
    BY <2>2, AdjustedType, Zenon
  <2>4. o \in Occurrence
    BY <2>1, <2>2 DEF Occurrence
  <2>5. occ' = Append(before, next)
    BY DEF Complete
  <2>6. next.ddl > Anchor(occ[i], f) /\ next \in Occurrence
    BY <2>1, <2>3, NextOccurrenceType
  <2> HIDE DEF next, o
  <2>7. before \in Seq(Occurrence)
    BY <2>1, <2>4 DEF TypeOK
  <2>8. occ'[Len(occ')] = next
    BY <2>5, <2>6, <2>7
  <2> QED
    BY <2>6, <2>8
<1> QED
  BY <1>1, RoutineInvariance, PTL DEF Spec, NextIsLater

\* The estimate of a routine moves towards the work and never past it
\* (adjusted_repetition_estimate).
THEOREM EstimateFollows == Spec => EstimateFollowsWork
<1>1. RoutineInv /\ [Next]_vars =>
        [\A i \in DOMAIN occ, w \in Efforts, f \in Clock :
            Complete(i, w, f) /\ routine.est >= 60 /\ occ'[i].act > 0
            => \/ routine.est <= routine'.est /\ routine'.est <= occ'[i].act
               \/ occ'[i].act <= routine'.est /\ routine'.est <= routine.est
               \/ occ'[i].act < 60 /\ routine'.est = 60]_vars
  <2> SUFFICES ASSUME RoutineInv, NEW i \in DOMAIN occ, NEW w \in Efforts, NEW f \in Clock,
                      Complete(i, w, f), routine.est >= 60, occ'[i].act > 0
               PROVE  \/ routine.est <= routine'.est /\ routine'.est <= occ'[i].act
                      \/ occ'[i].act <= routine'.est /\ routine'.est <= routine.est
                      \/ occ'[i].act < 60 /\ routine'.est = 60
    OBVIOUS
  <2> DEFINE worked == occ[i].act + w
             est == AdjustedEstimate(routine.est, worked)
             next == NextOccurrence(occ[i], f, est)
             o == [occ[i] EXCEPT !.act = worked, !.done = TRUE]
             before == [occ EXCEPT ![i] = o]
  <2>1. TypeOK /\ occ[i] \in Occurrence /\ f \in Int
    BY RangesAssumption DEF RoutineInv, TypeOK
  <2>2. worked \in Nat /\ worked \in Int /\ routine.est \in Int
    BY <2>1, RangesAssumption, RoutineType DEF Occurrence
  <2>3. est \in Int
    BY <2>2, AdjustedType, Zenon
  <2>4. o \in Occurrence /\ o.act = worked
    BY <2>1, <2>2 DEF Occurrence
  <2>5. occ' = Append(before, next)
    BY DEF Complete
  <2>6. next \in Occurrence
    BY <2>1, <2>3, NextOccurrenceType
  <2>7. routine'.est = est
    BY <2>1 DEF Complete, TypeOK
  <2> HIDE DEF next, o, est, worked
  <2>8. before \in Seq(Occurrence) /\ before[i] = o /\ i \in 1..Len(before)
    BY <2>1, <2>4 DEF TypeOK
  <2>9. occ'[i] = o
    BY <2>5, <2>6, <2>8
  <2>10. worked > 0
    BY <2>4, <2>9
  <2> QED
    BY <2>2, <2>4, <2>7, <2>9, <2>10, AdjustedIsBetween DEF est
<1> QED
  BY <1>1, RoutineInvariance, PTL DEF Spec, EstimateFollowsWork

-----------------------------------------------------------------------------
(***************************************************************************)
(* The words about time                                                    *)
(***************************************************************************)
\* The hours of a day.
LEMMA HoursOfDay ==
    /\ Hour \in Nat /\ Hour > 1 /\ Minute \in Nat /\ Minute > 0 /\ Day = 24 * Hour /\ Morning = 6 * Hour
    /\ \A h \in 0..23 : h * Hour \in 0..LastSecond
<1>1. /\ Hour \in Nat /\ Hour > 1 /\ Minute \in Nat /\ Minute > 0 /\ Day = 24 * Hour /\ Morning = 6 * Hour
  BY DEF Hour, Minute, Day, Morning
<1>2. ASSUME NEW h \in 0..23 PROVE h * Hour \in Int /\ 0 <= h * Hour /\ h * Hour < Day
  BY DEF Hour, Day
<1> QED
  BY <1>1, <1>2, DayIsLong

\* The calendar of the words is the calendar of the business day.
LEMMA SameCalendar ==
    /\ Dates!Day = Day /\ Dates!Hour = Hour /\ Dates!Minute = Minute /\ Dates!Morning = Morning
    /\ Dates!LastSecond = LastSecond
    /\ \A t : /\ Dates!DateOf(t) = DateOf(t) /\ Dates!TimeOfDay(t) = TimeOfDay(t)
              /\ Dates!SubjectiveDate(t) = SubjectiveDate(t)
              /\ Dates!NextBusinessDayStart(t) = NextBusinessDayStart(t)
              /\ Dates!SubjectiveDateStart(t) = SubjectiveDateStart(t)
    /\ \A d, s : Dates!At(d, s) = At(d, s)
  BY DEF Dates!Day, Dates!Hour, Dates!Minute, Dates!Morning, Dates!LastSecond, Dates!DateOf, Dates!TimeOfDay,
         Dates!SubjectiveDate, Dates!NextBusinessDayStart, Dates!SubjectiveDateStart, Dates!At,
         Day, Hour, Minute, Morning, LastSecond, DateOf, TimeOfDay, SubjectiveDate, NextBusinessDayStart,
         SubjectiveDateStart, At

\* A date and a time of day make a time of that date and that time of day, and
\* by day it is one of the business day of the date.
LEMMA PartsOfAt ==
    ASSUME NEW date \in Int, NEW tod \in 0..LastSecond
    PROVE  /\ At(date, tod) \in Int
           /\ DateOf(At(date, tod)) = date /\ TimeOfDay(At(date, tod)) = tod
           /\ tod >= Morning => SubjectiveDate(At(date, tod)) = date
<1> DEFINE t == At(date, tod)
<1>1. tod \in Int /\ t \in Int /\ DateOf(t) = date
  BY AtType, DateOfAt, DayIsLong
<1>2. t = At(date, TimeOfDay(t)) /\ TimeOfDay(t) \in Int
  BY <1>1, DateAndTime, DayIsLong
<1>3. TimeOfDay(t) = tod
  <2>1. date * Day + tod = date * Day + TimeOfDay(t) /\ date * Day \in Int
    BY <1>2, DayIsLong DEF At
  <2> QED
    BY <1>1, <1>2, <2>1
<1> QED
  BY <1>1, <1>3, DayIsLong DEF SubjectiveDate

\* The next business day begins on the morning after the current one.
LEMMA NextIsTomorrow ==
    ASSUME NEW t \in Int
    PROVE  /\ SubjectiveDate(t) \in Int
           /\ NextBusinessDayStart(t) = At(SubjectiveDate(t) + 1, Morning)
           /\ t < NextBusinessDayStart(t) /\ NextBusinessDayStart(t) \in Int
           /\ DateOf(NextBusinessDayStart(t)) = SubjectiveDate(t) + 1
<1>1. DateOf(t) \in Int /\ TimeOfDay(t) \in Int /\ TimeOfDay(t) < Day /\ t = At(DateOf(t), TimeOfDay(t)) /\ Morning \in 0..LastSecond
  BY DateAndTime, DayIsLong
<1>2. SubjectiveDate(t) \in Int /\ NextBusinessDayStart(t) = At(SubjectiveDate(t) + 1, Morning)
  <2>1. CASE TimeOfDay(t) < Morning
    BY <1>1, <2>1 DEF SubjectiveDate, NextBusinessDayStart
  <2>2. CASE ~ (TimeOfDay(t) < Morning)
    BY <1>1, <2>2 DEF SubjectiveDate, NextBusinessDayStart
  <2> QED
    BY <2>1, <2>2
<1>3. At(SubjectiveDate(t) + 1, Morning) \in Int /\ DateOf(At(SubjectiveDate(t) + 1, Morning)) = SubjectiveDate(t) + 1
  BY <1>1, <1>2, PartsOfAt
<1>4. At(DateOf(NextBusinessDayStart(t)) + 0, Morning) > t
  BY <1>1, NextStartIsLater, DayIsLong
<1> QED
  BY <1>2, <1>3, <1>4

\* A weekday is as many days away as the first day with it is.
LEMMA DaysUntilIs ==
    ASSUME NEW t \in Int, NEW n \in 1..7
    PROVE  Dates!DaysUntil((SubjectiveDate(t) + n) % 7, t) = n
<1>1. SubjectiveDate(t) \in Int /\ Dates!SubjectiveDate(t) = SubjectiveDate(t)
  BY NextIsTomorrow, SameCalendar
<1>2. ASSUME NEW d \in Int PROVE (LET m == (((d + n) % 7) - d) % 7 IN IF m = 0 THEN 7 ELSE m) = n
  OBVIOUS
<1> QED
  BY <1>1, <1>2 DEF Dates!DaysUntil

\* Every word that names a business day names the same one to every command.
LEMMA DayNamed ==
    ASSUME Dates!AreWords, NEW t \in Nat
    PROVE  Dates!NamesOneDay(t)
<1> DEFINE today == SubjectiveDate(t)
           next == NextBusinessDayStart(t)
           Means(word, day) ==
              /\ Dates!ClearDay(word, t) = SubjectiveDateStart(day)
              /\ Dates!DeadlineDate(word, t) = day
              /\ DateOf(Dates!AppointmentTime(Dates!Noon, word, t)) = day
<1>1. /\ today \in Int /\ next = At(today + 1, Morning) /\ next \in Int /\ DateOf(next) = today + 1
      /\ 12 * Hour \in 0..LastSecond /\ Morning \in 0..LastSecond /\ Morning + 1 \in 0..LastSecond
      /\ 12 \in 0..23
  BY NextIsTomorrow, HoursOfDay, DayIsLong
<1>2. Dates!IsClockTime(Dates!Noon) /\ Dates!TimeOf(Dates!Noon) = 12 * Hour
  BY HoursOfDay, SameCalendar DEF Dates!IsClockTime, Dates!TimeOf, Dates!Noon
<1>3. ASSUME NEW n \in Int
      PROVE  /\ DateOf(At(today + n, 12 * Hour)) = today + n
             /\ SubjectiveDate(At(today + n, Morning + 1)) = today + n
             /\ SubjectiveDate(At(today + n, Morning)) = today + n
             /\ At(today + n, Morning + 1) = At(today + n, Morning) + 1
             /\ At(today + 1, Morning) + (n - 1) * Day = At(today + n, Morning)
  <2>1. today + n \in Int
    BY <1>1
  <2>2. today * Day \in Int /\ n * Day \in Int /\ (today + n) * Day = today * Day + n * Day
        /\ (today + 1) * Day = today * Day + Day /\ (n - 1) * Day = n * Day - Day
    BY <1>1, DayIsLong
  <2>3. DateOf(At(today + n, 12 * Hour)) = today + n
    BY <1>1, <2>1, PartsOfAt
  <2>4. SubjectiveDate(At(today + n, Morning + 1)) = today + n
    BY <1>1, <2>1, PartsOfAt, DayIsLong
  <2>5. SubjectiveDate(At(today + n, Morning)) = today + n
    BY <1>1, <2>1, PartsOfAt, DayIsLong
  <2> QED
    BY <1>1, <2>2, <2>3, <2>4, <2>5, DayIsLong DEF At
<1>4. ASSUME NEW day \in (today + 1)..(today + 7)
      PROVE  LET word == [is |-> "weekday", w |-> day % 7]
             IN  Means(word, day) /\ SubjectiveDate(Dates!DeferTarget(word, t)) = day
  <2> DEFINE word == [is |-> "weekday", w |-> day % 7]
             n == day - today
  <2>1. n \in 1..7 /\ day = today + n /\ n \in Int /\ day \in Int
    BY <1>1
  <2>2. Dates!DaysUntil(word.w, t) = n
    BY <2>1, DaysUntilIs
  <2> HIDE DEF n
  <2>3. word.is = "weekday"
    OBVIOUS
  <2>4. Dates!ClearDay(word, t) = SubjectiveDateStart(day) /\ Dates!DeadlineDate(word, t) = day
    BY <2>1, <2>2, <2>3, SameCalendar DEF Dates!ClearDay, Dates!DeadlineDate
  <2>5. Dates!AppointmentTime(Dates!Noon, word, t) = At(DateOf(next) + n - 1, 12 * Hour)
    BY <1>2, <2>2, <2>3, SameCalendar DEF Dates!AppointmentTime
  <2>6. DateOf(next) + n - 1 = day
    BY <1>1, <2>1
  <2>7. DateOf(Dates!AppointmentTime(Dates!Noon, word, t)) = day
    BY <1>3, <2>1, <2>5, <2>6
  <2>8. Dates!DeferTarget(word, t) = next + (n - 1) * Day + 1
    BY <2>2, <2>3, SameCalendar DEF Dates!DeferTarget
  <2>9. next + (n - 1) * Day + 1 = At(today + n, Morning + 1)
    BY <1>1, <1>3, <2>1
  <2> QED
    BY <1>3, <2>1, <2>4, <2>7, <2>8, <2>9
<1>5. Means([is |-> "tomorrow"], today + 1)
  <2> DEFINE word == [is |-> "tomorrow"]
  <2>1. word.is = "tomorrow"
    OBVIOUS
  <2>2. Dates!ClearDay(word, t) = SubjectiveDateStart(today + 1) /\ Dates!DeadlineDate(word, t) = today + 1
    BY <1>1, <2>1, SameCalendar DEF Dates!ClearDay, Dates!DeadlineDate, SubjectiveDateStart
  <2>3. Dates!AppointmentTime(Dates!Noon, word, t) = At(today + 1, 12 * Hour)
    BY <1>1, <1>2, <2>1, SameCalendar DEF Dates!AppointmentTime
  <2> QED
    BY <1>3, <2>2, <2>3
<1>6. SubjectiveDate(Dates!ShortcutTarget("d", t)) = today + 1
  <2>1. Dates!ShortcutTarget("d", t) = next + 1
    BY SameCalendar DEF Dates!ShortcutTarget
  <2> QED
    BY <1>1, <1>3, <2>1
<1>7. SubjectiveDate(Dates!ShortcutTarget("w", t)) = today + 7
  <2>1. Dates!ShortcutTarget("w", t) = next + 6 * Day + 1
    BY SameCalendar DEF Dates!ShortcutTarget
  <2>2. next + (7 - 1) * Day = At(today + 7, Morning) /\ At(today + 7, Morning + 1) = At(today + 7, Morning) + 1
    BY <1>1, <1>3
  <2>3. 6 * Day \in Int /\ next + 6 * Day = At(today + 7, Morning)
    BY <1>1, <2>2, DayIsLong
  <2> QED
    BY <1>1, <1>3, <2>1, <2>2, <2>3
<1>8. ASSUME NEW n \in 1..8 PROVE Dates!AmountTarget(n, "day", t) = SubjectiveDateStart(today + n)
  <2>1. DateOf(next) + n - 1 = today + n /\ ~ (n <= 0)
    BY <1>1
  <2> QED
    BY <2>1, SameCalendar DEF Dates!AmountTarget, Dates!BusinessDayTarget
<1> HIDE DEF next
<1> QED
  BY <1>4, <1>5, <1>6, <1>7, <1>8, SameCalendar DEF Dates!NamesOneDay

\* The hours of a time of day, and what is left of the next day.
LEMMA HoursAfterDays ==
    ASSUME NEW h \in 0..29
    PROVE  /\ h \div 24 = (IF h < 24 THEN 0 ELSE 1)
           /\ h % 24 = (IF h < 24 THEN h ELSE h - 24) /\ h % 24 \in 0..23
  OBVIOUS

\* Every time of day is the same time to every command.
LEMMA TimeNamed ==
    ASSUME NEW t \in Nat
    PROVE  Dates!NamesOneTime(t)
<1> SUFFICES ASSUME NEW h \in 0..23
             PROVE  LET v == [is |-> "time", h |-> h, m |-> 0]
                        time == Dates!AppointmentTime(v, Dates!NoWord, t)
                        late == IF TimeOfDay(t) < Morning THEN [v EXCEPT !.h = h + 24] ELSE v
                    IN  /\ Dates!ClearUntil(late, t) = time
                        /\ Dates!DeadlineTime(v, t) = time
                        /\ Dates!DeferTarget(v, t) = Dates!JustAfter(time, t)
  BY SameCalendar DEF Dates!NamesOneTime
<1> DEFINE v == [is |-> "time", h |-> h, m |-> 0]
           late == IF TimeOfDay(t) < Morning THEN [v EXCEPT !.h = h + 24] ELSE v
           time == At(DateOf(t), h * Hour)
<1>1. v.is = "time" /\ v.h = h /\ v.m = 0 /\ Dates!NoWord.is = "none"
  BY DEF Dates!NoWord
<1>2. h * Hour \in Int /\ Hour \in Int /\ Minute \in Int /\ h * Hour + 0 * Minute = h * Hour /\ DateOf(t) \in Int
      /\ h \div 24 = 0 /\ h % 24 = h /\ (h + 24) \div 24 = 1 /\ (h + 24) % 24 = h
  <2>1. h * Hour \in Int /\ Hour \in Int /\ Minute \in Int /\ DateOf(t) \in Int
    BY HoursOfDay, DateAndTime
  <2>2. h \in 0..29 /\ h + 24 \in Int /\ h \div 24 = 0 /\ h % 24 = h /\ (h + 24) \div 24 = 1 /\ (h + 24) % 24 = h
    OBVIOUS
  <2> QED
    BY <2>1, <2>2
<1> HIDE DEF v
<1>3. Dates!IsClockTime(v) /\ Dates!TimeOf(v) = h * Hour
  BY <1>1, <1>2, SameCalendar DEF Dates!IsClockTime, Dates!TimeOf
<1>4. Dates!AppointmentTime(v, Dates!NoWord, t) = time
  BY <1>1, <1>3, SameCalendar DEF Dates!AppointmentTime
<1>5. Dates!DeadlineTime(v, t) = time
  BY <1>3, SameCalendar DEF Dates!DeadlineTime
<1>6. Dates!DeferTarget(v, t) = Dates!JustAfter(time, t)
  BY <1>1, <1>2, SameCalendar DEF Dates!DeferTarget
<1>7. Dates!ClearUntil(late, t) = time
  <2>1. CASE TimeOfDay(t) < Morning
    <3>1. late.is = "time" /\ late.h = h + 24 /\ late.m = 0
      BY <2>1 DEF v
    <3>2. SubjectiveDate(t) + 1 = DateOf(t)
      BY <1>2, <2>1 DEF SubjectiveDate
    <3> HIDE DEF late
    <3> QED
      BY <1>2, <3>1, <3>2, SameCalendar DEF Dates!ClearUntil
  <2>2. CASE ~ (TimeOfDay(t) < Morning)
    <3>1. late = v /\ SubjectiveDate(t) + 0 = DateOf(t)
      BY <1>2, <2>2 DEF SubjectiveDate
    <3> HIDE DEF late
    <3> QED
      BY <1>1, <1>2, <3>1, SameCalendar DEF Dates!ClearUntil
  <2> QED
    BY <2>1, <2>2
<1> QED
  BY <1>4, <1>5, <1>6, <1>7 DEF v

\* A part of a business day lies within it.
LEMMA PartNamed ==
    ASSUME Dates!AreWords, NEW t \in Nat
    PROVE  Dates!NamesOnePart(t)
<1> DEFINE start == NextBusinessDayStart(t)
           date == SubjectiveDate(t) + 1
<1> SUFFICES ASSUME NEW h \in 0..29
             PROVE  LET v == [is |-> "time", h |-> h, m |-> 0]
                        piece == Dates!TimeRange(v, [is |-> "tomorrow"], t)
                    IN  IF h = 6 THEN piece = << >>
                        ELSE /\ piece = <<start, piece[2]>> /\ piece[2] \in (start + 1)..(start + Day - 1)
                             /\ TimeOfDay(piece[2]) = (h % 24) * Hour
  BY SameCalendar DEF Dates!NamesOnePart
<1> DEFINE v == [is |-> "time", h |-> h, m |-> 0]
           word == [is |-> "tomorrow"]
           piece == Dates!TimeRange(v, word, t)
           clock == (h % 24) * Hour
           end == At(date + h \div 24, clock)
<1> SUFFICES IF h = 6 THEN piece = << >>
             ELSE /\ piece = <<start, piece[2]>> /\ piece[2] \in (start + 1)..(start + Day - 1)
                  /\ TimeOfDay(piece[2]) = clock
  OBVIOUS
<1>1. v.is = "time" /\ v.h = h /\ v.m = 0 /\ word.is = "tomorrow"
  OBVIOUS
<1>2. /\ date \in Int /\ start = At(date, Morning) /\ start \in Int /\ DateOf(start) = date
      /\ start # NoDeadline
  BY NextIsTomorrow DEF Dates!AreWords
<1>3. clock \in 0..LastSecond /\ clock + 0 * Minute = clock /\ clock \in Int
  BY HoursAfterDays, HoursOfDay, DayIsLong
<1>4. Dates!ClearDay(word, t) = start
  BY <1>1, SameCalendar DEF Dates!ClearDay
<1> HIDE DEF v, word, start, date, clock, piece
<1>5. Dates!RangeEnd(v, start) = IF end < start THEN end + Day ELSE end
  BY <1>1, <1>2, <1>3, SameCalendar DEF Dates!RangeEnd, clock
<1> DEFINE last == IF end < start THEN end + Day ELSE end
<1>6. piece = IF last <= start THEN << >> ELSE <<start, last>>
  BY <1>1, <1>2, <1>4, <1>5 DEF Dates!TimeRange, piece
<1>7. /\ h < 6 => clock < Morning /\ h \div 24 = 0
      /\ h = 6 => clock = Morning /\ h \div 24 = 0
      /\ 6 < h /\ h < 24 => clock > Morning /\ h \div 24 = 0
      /\ 24 <= h => clock < Morning /\ h \div 24 = 1
  <2>1. /\ \A i, j \in 0..23 : i < j => i * Hour < j * Hour
        /\ h % 24 \in 0..23
    BY HoursOfDay, HoursAfterDays
  <2> QED
    BY <2>1, HoursOfDay, HoursAfterDays DEF clock
<1>8. /\ date * Day \in Int /\ (date + 1) * Day = date * Day + Day /\ date + 0 = date
      /\ \A tod \in Int : At(date, tod) = date * Day + tod /\ At(date + 1, tod) = date * Day + Day + tod
  BY <1>2, DayIsLong DEF At
<1>9. /\ TimeOfDay(At(date, clock)) = clock /\ TimeOfDay(At(date + 1, clock)) = clock
      /\ At(date, clock) \in Int /\ At(date + 1, clock) \in Int
  BY <1>2, <1>3, PartsOfAt
<1>10. CASE h = 6
  BY <1>2, <1>6, <1>7, <1>8, <1>10
<1>11. CASE 6 < h /\ h < 24
  <2>1. end = At(date, clock) /\ last = end /\ ~ (last <= start) /\ last \in (start + 1)..(start + Day - 1)
    BY <1>2, <1>3, <1>7, <1>8, <1>9, <1>11, DayIsLong
  <2> QED
    BY <1>6, <1>9, <1>11, <2>1
<1>12. CASE h < 6
  <2>1. end = At(date, clock) /\ end + Day = At(date + 1, clock) /\ last = At(date + 1, clock)
        /\ ~ (last <= start) /\ last \in (start + 1)..(start + Day - 1)
    BY <1>2, <1>3, <1>7, <1>8, <1>9, <1>12, DayIsLong
  <2> QED
    BY <1>6, <1>9, <1>12, <2>1
<1>13. CASE 24 <= h
  <2>1. end = At(date + 1, clock) /\ last = end /\ ~ (last <= start) /\ last \in (start + 1)..(start + Day - 1)
    BY <1>2, <1>3, <1>7, <1>8, <1>9, <1>13, DayIsLong
  <2> QED
    BY <1>6, <1>9, <1>13, <2>1
<1>14. h = 6 \/ (6 < h /\ h < 24) \/ h < 6 \/ 24 <= h
  OBVIOUS
<1> QED
  BY <1>10, <1>11, <1>12, <1>13, <1>14

-----------------------------------------------------------------------------
\* A year begins when the one before is over.
LEMMA YearsFollow ==
    ASSUME NEW y \in Nat
    PROVE  /\ Dates!YearStart(y) \in Nat /\ Dates!YearStart(y + 1) \in Nat
           /\ Dates!YearStart(y + 1) <= 366 * (y + 1)
           /\ Dates!YearStart(y + 1) = Dates!YearStart(y) + (IF Dates!Leap(y) THEN 366 ELSE 365)
           /\ 365 * y <= Dates!YearStart(y) /\ Dates!YearStart(y) <= 366 * y
  BY DEF Dates!YearStart, Dates!Leap

\* Every date is in a year.
LEMMA YearIs ==
    ASSUME NEW date \in Nat
    PROVE  /\ Dates!YearOf(date) \in Nat
           /\ Dates!YearStart(Dates!YearOf(date)) <= date
           /\ date < Dates!YearStart(Dates!YearOf(date) + 1)
<1> DEFINE q == date \div 1461
           r == date % 1461
           j == IF r < 366 THEN 0 ELSE 1 + ((r - 366) \div 365)
           y == 4 * q + j
<1>1. q \in Nat /\ r \in 0..1460 /\ date = 1461 * q + r
  OBVIOUS
<1> HIDE DEF q, r
<1>2. j \in 0..3 /\ 365 * j + ((j + 3) \div 4) <= r /\ r < 365 * (j + 1) + ((j + 4) \div 4)
  BY <1>1
<1> HIDE DEF j
<1>3. y \in Nat /\ y + 1 \in Nat
  BY <1>1, <1>2
<1>4. Dates!YearStart(y) = 1461 * q + 365 * j + ((j + 3) \div 4)
      /\ Dates!YearStart(y + 1) = 1461 * q + 365 * (j + 1) + ((j + 4) \div 4)
  BY <1>1, <1>2 DEF Dates!YearStart
<1>5. Dates!YearStart(y) <= date /\ date < Dates!YearStart(y + 1)
  BY <1>1, <1>2, <1>4
<1> HIDE DEF y
<1>6. y \in (date \div 366)..(date \div 365)
  <2>1. /\ Dates!YearStart(y) \in Nat /\ Dates!YearStart(y + 1) \in Nat
        /\ 365 * y <= Dates!YearStart(y) /\ Dates!YearStart(y + 1) <= 366 * (y + 1)
    BY <1>3, YearsFollow
  <2>2. 365 * y <= date /\ date < 366 * (y + 1)
    BY <1>3, <1>5, <2>1
  <2> QED
    BY <1>3, <2>2
<1>7. \A z \in Nat : Dates!YearStart(z) \in Nat /\ Dates!YearStart(z + 1) \in Nat
  BY YearsFollow
<1>8. \A z \in (date \div 366)..(date \div 365) : z \in Nat
  OBVIOUS
<1>9. \E z \in (date \div 366)..(date \div 365) : date \in Dates!YearStart(z)..(Dates!YearStart(z + 1) - 1)
  BY <1>3, <1>5, <1>6, <1>7
<1>10. /\ Dates!YearOf(date) \in (date \div 366)..(date \div 365)
       /\ date \in Dates!YearStart(Dates!YearOf(date))..(Dates!YearStart(Dates!YearOf(date) + 1) - 1)
  BY <1>9 DEF Dates!YearOf
<1> QED
  BY <1>7, <1>8, <1>10

\* A day of a year is one of its dates.
LEMMA DayIsOfYear ==
    ASSUME NEW y \in Nat, NEW k \in 0..365
    PROVE  \/ Dates!OfYear(y, k) = NoDeadline
           \/ /\ Dates!OfYear(y, k) \in Int
              /\ Dates!YearStart(y) <= Dates!OfYear(y, k)
              /\ Dates!OfYear(y, k) < Dates!YearStart(y + 1)
<1> DEFINE first == Dates!YearStart(y)
           past == Dates!YearStart(y + 1)
<1>1. first \in Nat /\ past = first + (IF Dates!Leap(y) THEN 366 ELSE 365)
  BY YearsFollow
<1>2. Dates!OfYear(y, k) = IF Dates!Leap(y) \/ k < 59 THEN first + k
                           ELSE IF k = 59 THEN NoDeadline ELSE first + k - 1
  BY DEF Dates!OfYear, Dates!LeapDay
<1> HIDE DEF first, past
<1>3. \/ Dates!OfYear(y, k) = NoDeadline
      \/ Dates!OfYear(y, k) \in Int /\ first <= Dates!OfYear(y, k) /\ Dates!OfYear(y, k) < past
  <2>1. CASE Dates!Leap(y)
    BY <1>1, <1>2, <2>1
  <2>2. CASE ~ Dates!Leap(y)
    <3>1. past = first + 365
      BY <1>1, <2>2
    <3>2. CASE k < 59
      BY <1>1, <1>2, <3>1, <3>2
    <3>3. CASE k = 59
      BY <1>2, <2>2, <3>3
    <3>4. CASE k > 59
      <4>1. ~ (k < 59) /\ k # 59 /\ first \in Int /\ k \in Int /\ k <= 365
        BY <1>1, <3>4
      <4>2. Dates!OfYear(y, k) = first + k - 1
        BY <1>2, <2>2, <4>1
      <4> QED
        BY <3>1, <3>4, <4>1, <4>2
    <3> QED
      BY <3>2, <3>3, <3>4
  <2> QED
    BY <2>1, <2>2
<1> QED
  BY <1>3 DEF first, past

\* TimesOrNothing of day on later dates are later.
LEMMA LaterDates ==
    ASSUME NEW d \in Int, NEW e \in Int, d < e, NEW s \in 0..LastSecond, NEW u \in 0..LastSecond
    PROVE  At(d, s) < At(e, u) /\ At(d, s) \in Int /\ At(e, u) \in Int
<1>1. d * Day \in Int /\ e * Day \in Int /\ s < Day /\ s \in Int /\ u \in Int /\ 0 <= u
  BY DayIsLong
<1>2. (e - d) * Day >= Day /\ (e - d) * Day = e * Day - d * Day
  BY DayIsLong
<1> QED
  BY <1>1, <1>2, DayIsLong DEF At

\* What a month and a day mean, which are a date of this year and one of the next.
IsNextOf(next, this, following, s, t) ==
    /\ next = NoDeadline \/ (next \in Int /\ next >= t)
    /\ this # NoDeadline /\ following # NoDeadline =>
          /\ next \in {At(this, s), At(following, s)} /\ next >= t
          /\ \A d \in {this, following} : At(d, s) >= t => next <= At(d, s)

LEMMA NextIsFirst ==
    ASSUME Dates!AreWords, NEW t \in Nat, NEW k \in 0..365, NEW s \in 0..LastSecond
    PROVE  IsNextOf(Dates!NextOccurrence(k, s, t), Dates!OfYear(Dates!YearOf(DateOf(t)), k),
                    Dates!OfYear(Dates!YearOf(DateOf(t)) + 1, k), s, t)
<1> DEFINE date == DateOf(t)
           y == Dates!YearOf(date)
           this == Dates!OfYear(y, k)
           following == Dates!OfYear(y + 1, k)
           next == Dates!NextOccurrence(k, s, t)
<1>1. date \in Nat /\ TimeOfDay(t) \in 0..LastSecond /\ t = At(date, TimeOfDay(t)) /\ NoDeadline \notin Int
  <2>1. date \in Int /\ TimeOfDay(t) \in 0..LastSecond /\ t = At(date, TimeOfDay(t))
    BY DateAndTime
  <2>2. date \in Nat
    BY DateIsNat
  <2> QED
    BY <2>1, <2>2 DEF Dates!AreWords
<1>2. y \in Nat /\ y + 1 \in Nat /\ date < Dates!YearStart(y + 1) /\ Dates!YearStart(y + 1) \in Nat
  <2>1. y \in Nat /\ date < Dates!YearStart(y + 1)
    BY <1>1, YearIs
  <2> HIDE DEF y
  <2>2. Dates!YearStart(y + 1) \in Nat
    BY <2>1, YearsFollow
  <2> QED
    BY <2>1, <2>2
<1>3. next = IF this = NoDeadline THEN NoDeadline
             ELSE IF At(this, s) >= t THEN At(this, s)
             ELSE IF following = NoDeadline THEN NoDeadline ELSE At(following, s)
  BY SameCalendar DEF Dates!NextOccurrence
<1>4. this = NoDeadline \/ (this \in Int /\ this < Dates!YearStart(y + 1))
  BY <1>2, DayIsOfYear
<1>5. following = NoDeadline \/ (following \in Int /\ Dates!YearStart(y + 1) <= following)
  BY <1>2, DayIsOfYear
<1> HIDE DEF y, this, following, next, date
<1>6. this # NoDeadline => At(this, s) \in Int
  BY <1>4, PartsOfAt
<1>7. ASSUME following # NoDeadline PROVE At(following, s) \in Int /\ At(following, s) > t
  <2>1. following \in Int /\ date < following /\ date \in Int
    BY <1>1, <1>2, <1>5, <1>7
  <2>2. At(date, TimeOfDay(t)) < At(following, s) /\ At(following, s) \in Int
    BY <1>1, <2>1, LaterDates
  <2> QED
    BY <1>1, <2>2
<1>8. ASSUME this # NoDeadline, following # NoDeadline PROVE At(this, s) < At(following, s)
  <2>1. following \in Int /\ this \in Int /\ this < following
    BY <1>2, <1>4, <1>5, <1>8
  <2> QED
    BY <2>1, LaterDates
<1>9. IsNextOf(next, this, following, s, t)
  <2> USE DEF IsNextOf
  <2>1. CASE this = NoDeadline
    BY <1>3, <2>1
  <2>2. CASE this # NoDeadline /\ At(this, s) >= t
    BY <1>1, <1>3, <1>6, <1>7, <1>8, <2>2
  <2>3. CASE this # NoDeadline /\ ~ (At(this, s) >= t) /\ following = NoDeadline
    BY <1>3, <2>3
  <2>4. CASE this # NoDeadline /\ ~ (At(this, s) >= t) /\ following # NoDeadline
    BY <1>1, <1>3, <1>6, <1>7, <1>8, <2>4
  <2> QED
    BY <2>1, <2>2, <2>3, <2>4
<1> QED
  BY <1>9 DEF y, this, following, next, date

LEMMA NextNamed ==
    ASSUME Dates!AreWords, NEW t \in Nat
    PROVE  Dates!NamesTheNext(t)
<1> DEFINE date == DateOf(t)
           y == Dates!YearOf(date)
<1> SUFFICES ASSUME NEW k \in {0, Dates!LeapDay - 1, Dates!LeapDay, Dates!LeapDay + 1, 364, 365},
                    NEW s \in {Morning, 12 * Hour}
             PROVE  LET dates == {Dates!OfYear(y + i, k) : i \in {0, 1}}
                        next == Dates!NextOccurrence(k, s, t)
                    IN  IF NoDeadline \in dates THEN next = NoDeadline \/ next >= t
                        ELSE /\ next \in {At(d, s) : d \in dates}
                             /\ next >= t
                             /\ \A d \in dates : At(d, s) >= t => next <= At(d, s)
  BY SameCalendar DEF Dates!NamesTheNext
<1>1. k \in 0..365
  BY DEF Dates!LeapDay
<1>2. s \in 0..LastSecond
  BY HoursOfDay, DayIsLong
<1>3. y \in Nat
  <2>1. date \in Nat
    BY DateIsNat
  <2> QED
    BY <2>1, YearIs
<1>4. {Dates!OfYear(y + i, k) : i \in {0, 1}} = {Dates!OfYear(y, k), Dates!OfYear(y + 1, k)}
  <2>1. y + 0 = y
    BY <1>3
  <2> HIDE DEF y
  <2> QED
    BY <2>1
<1> DEFINE this == Dates!OfYear(y, k)
           following == Dates!OfYear(y + 1, k)
           next == Dates!NextOccurrence(k, s, t)
<1>5. IsNextOf(next, this, following, s, t)
  BY <1>1, <1>2, NextIsFirst
<1> HIDE DEF next
<1> SUFFICES LET dates == {this, following}
             IN  IF NoDeadline \in dates THEN next = NoDeadline \/ next >= t
                 ELSE /\ next \in {At(d, s) : d \in dates}
                      /\ next >= t
                      /\ \A d \in dates : At(d, s) >= t => next <= At(d, s)
  BY <1>4 DEF next
<1> HIDE DEF this, following
<1> QED
  BY <1>5 DEF IsNextOf

-----------------------------------------------------------------------------
(***************************************************************************)
(* What the commands do to a task                                          *)
(***************************************************************************)
Leaf == [orig : {"todo", "pending", "done"}, status : {"todo", "pending", "done"},
         start : Int, pend : Int, ddl : Int \cup {NoDeadline}, est : Nat, act : Nat, synced : Nat]

LEMMA LeafEvaluated ==
    ASSUME Dates!AreWords, NEW l \in Leaf
    PROVE  LET e == Dates!S!Evaluated(l)
           IN  /\ e \in Leaf /\ e.orig = l.orig /\ e.start = l.start /\ e.ddl = l.ddl
               /\ e.est = l.est /\ e.synced = l.synced
               /\ e.pend = IF l.orig = "pending" /\ l.ddl # NoDeadline
                           THEN Dates!S!Lesser(l.pend, Dates!S!DeadlinePendingLimit(l.ddl, l.est))
                           ELSE l.pend
<1> DEFINE u == [l EXCEPT !.pend = Dates!S!Clamped(l)]
<1>1. Dates!S!Clamped(l) = IF l.orig = "pending" /\ l.ddl # NoDeadline
                           THEN Dates!S!Lesser(l.pend, Dates!S!DeadlinePendingLimit(l.ddl, l.est))
                           ELSE l.pend
  BY DEF Dates!S!Clamped
<1>2. Dates!S!Clamped(l) \in Int
  BY <1>1 DEF Dates!S!Lesser, Dates!S!DeadlinePendingLimit, Leaf, Dates!Minute, Dates!AreWords
<1>3. u \in Leaf /\ u.orig = l.orig
  BY <1>2 DEF Leaf
<1>4. Dates!S!DerivedStatus(u) \in {"todo", "pending", "done"}
  BY <1>3 DEF Dates!S!DerivedStatus, Leaf
<1>5. Dates!S!Evaluated(l) = [u EXCEPT !.status = Dates!S!DerivedStatus(u)]
  BY DEF Dates!S!Evaluated
<1> QED
  BY <1>1, <1>2, <1>3, <1>4, <1>5 DEF Leaf

LEMMA LeafHastened ==
    ASSUME Dates!AreWords, NEW l \in Leaf, NEW d \in Int
    PROVE  /\ Dates!S!Hastened(l, d) \in Leaf
           /\ Dates!S!Hastened(l, d).synced = l.synced
  BY DEF Dates!S!Hastened, Dates!S!Lesser, Leaf

\* What a word means is a time or nothing.
TimesOrNothing == Int \cup {NoDeadline}

LEMMA MonthDaysAreTimes ==
    ASSUME Dates!AreWords, NEW t \in Nat, NEW k \in 0..365, NEW s \in 0..LastSecond
    PROVE  Dates!NextOccurrence(k, s, t) \in TimesOrNothing
  BY NextIsFirst DEF IsNextOf, TimesOrNothing

\* A time of day, its hours counted on beyond midnight.
LEMMA ClockTimes ==
    ASSUME NEW d \in Int, NEW h \in Nat, NEW m \in Nat
    PROVE  At(d + h \div 24, (h % 24) * Hour + m * Minute) \in Int
<1>1. h \div 24 \in Int /\ h % 24 \in Int
  OBVIOUS
<1>2. d + h \div 24 \in Int /\ (h % 24) * Hour + m * Minute \in Int
  BY <1>1, HoursOfDay
<1> QED
  BY <1>2, AtType

LEMMA DefersAreTimes ==
    ASSUME Dates!AreWords, NEW t \in Nat, NEW v \in Words \cup {Dates!NoWord}
    PROVE  /\ Dates!DeferTarget(v, t) \in TimesOrNothing
           /\ v \in Words /\ Dates!IsAhead(v) /\ Dates!DeferTarget(v, t) # NoDeadline => Dates!DeferTarget(v, t) > t
<1> DEFINE target == Dates!DeferTarget(v, t)
<1> USE DEF TimesOrNothing
<1>1. t \in Int /\ Morning \in 0..LastSecond /\ Dates!IsWord(v)
  BY DayIsLong DEF Dates!AreWords, Dates!IsWord, Dates!NoWord
<1>2. /\ NextBusinessDayStart(t) \in Int /\ t < NextBusinessDayStart(t)
      /\ \A n \in Nat : At(DateOf(NextBusinessDayStart(t)) + n, Morning) \in Int
                        /\ At(DateOf(NextBusinessDayStart(t)) + n, Morning) > t
  BY <1>1, NextIsTomorrow, NextStartIsLater, DayIsLong
<1>3. ASSUME NEW u \in TimesOrNothing
      PROVE  Dates!JustAfter(u, t) = NoDeadline \/ (Dates!JustAfter(u, t) \in Int /\ Dates!JustAfter(u, t) > t)
  BY DEF Dates!JustAfter
<1>4. ASSUME NEW n \in Int, NEW unit
      PROVE  Dates!AmountTarget(n, unit, t) \in Int /\ (n > 0 => Dates!AmountTarget(n, unit, t) > t)
  <2>1. CASE unit = "day"
    <3>1. CASE n <= 0
      BY <2>1, <3>1 DEF Dates!AmountTarget, Dates!BusinessDayTarget
    <3>2. CASE ~ (n <= 0)
      <4>1. n - 1 \in Nat /\ DateOf(NextBusinessDayStart(t)) \in Int
        BY <1>1, <3>2, NextIsTomorrow
      <4>2. Dates!AmountTarget(n, unit, t) = At(DateOf(NextBusinessDayStart(t)) + n - 1, Morning)
        BY <2>1, <3>2, SameCalendar DEF Dates!AmountTarget, Dates!BusinessDayTarget, SubjectiveDateStart
      <4>3. DateOf(NextBusinessDayStart(t)) + n - 1 = DateOf(NextBusinessDayStart(t)) + (n - 1)
        BY <4>1
      <4> QED
        BY <1>2, <4>1, <4>2, <4>3
    <3> QED
      BY <3>1, <3>2
  <2>2. CASE unit # "day"
    <3>1. /\ n * Hour \in Int /\ n * Minute \in Int
          /\ n > 0 => n * Hour > 0 /\ n * Minute > 0
      BY HoursOfDay
    <3>2. \/ Dates!AmountTarget(n, unit, t) = t + n * Hour
          \/ Dates!AmountTarget(n, unit, t) = t + n * Minute
          \/ Dates!AmountTarget(n, unit, t) = t + n
      BY <2>2, SameCalendar DEF Dates!AmountTarget
    <3> QED
      BY <1>1, <3>1, <3>2
  <2> QED
    BY <2>1, <2>2
<1>5. CASE v.is = "date"
  <2>1. target = SubjectiveDateStart(v.date) + 1 /\ v.date \in Int
    BY <1>1, <1>5, SameCalendar DEF Dates!DeferTarget, Dates!IsWord
  <2>2. SubjectiveDateStart(v.date) \in Int
    BY <1>1, <2>1, AtType, DayIsLong DEF SubjectiveDateStart
  <2> QED
    BY <1>5, <2>1, <2>2 DEF Dates!IsAhead
<1>6. CASE v.is = "monthday"
  <2>1. target = Dates!JustAfter(Dates!NextOccurrence(v.k, Morning, t), t) /\ v.k \in 0..365
    BY <1>1, <1>6, SameCalendar DEF Dates!DeferTarget, Dates!IsWord
  <2>2. Dates!NextOccurrence(v.k, Morning, t) \in TimesOrNothing
    BY <1>1, <2>1, MonthDaysAreTimes
  <2> QED
    BY <1>3, <2>1, <2>2
<1>7. CASE v.is = "time"
  <2> DEFINE u == At(DateOf(t) + v.h \div 24, (v.h % 24) * Hour + v.m * Minute)
  <2>1. v.h \in Nat /\ v.m \in Nat /\ DateOf(t) \in Int
    BY <1>1, <1>7, DateAndTime DEF Dates!IsWord
  <2>2. u \in TimesOrNothing
    BY <2>1, ClockTimes
  <2>3. target = NoDeadline \/ target = Dates!JustAfter(u, t)
    BY <1>7, SameCalendar DEF Dates!DeferTarget
  <2> HIDE DEF u
  <2> QED
    BY <1>3, <2>2, <2>3
<1>8. CASE v.is = "weekday"
  <2> DEFINE n == Dates!DaysUntil(v.w, t)
  <2>1. target = NextBusinessDayStart(t) + (n - 1) * Day + 1
    BY <1>8, SameCalendar DEF Dates!DeferTarget
  <2>2. n \in 1..7
    <3>1. v.w \in Int /\ SubjectiveDate(t) \in Int
      BY <1>1, <1>8, NextIsTomorrow DEF Dates!IsWord
    <3> QED
      BY <3>1, SameCalendar DEF Dates!DaysUntil
  <2> HIDE DEF n
  <2>3. (n - 1) * Day \in Int /\ (n - 1) * Day >= 0
    BY <2>2, DayIsLong
  <2> QED
    BY <1>2, <2>1, <2>3
<1>9. CASE v.is = "amount"
  <2>1. target = Dates!AmountTarget(v.n, v.unit, t) /\ v.n \in Int
    BY <1>1, <1>9 DEF Dates!DeferTarget, Dates!IsWord
  <2>2. Dates!IsAhead(v) => v.n > 0
    BY <1>9 DEF Dates!IsAhead
  <2> QED
    BY <1>4, <2>1, <2>2
<1>10. CASE v.is = "number"
  <2>1. target = Dates!AmountTarget(v.n, "second", t) /\ v.n \in Int
    BY <1>1, <1>10 DEF Dates!DeferTarget, Dates!IsWord
  <2>2. Dates!IsAhead(v) => v.n > 0
    BY <1>10 DEF Dates!IsAhead
  <2> QED
    BY <1>4, <2>1, <2>2
<1>11. CASE v.is \notin {"date", "monthday", "time", "weekday", "amount", "number"}
  BY <1>11 DEF Dates!DeferTarget
<1> HIDE DEF target
<1> QED
  BY <1>5, <1>6, <1>7, <1>8, <1>9, <1>10, <1>11 DEF target

LEMMA ShortcutsAreTimes ==
    ASSUME NEW t \in Nat, NEW key \in {"t", "h", "D", "d", "w", "y"}
    PROVE  Dates!ShortcutTarget(key, t) \in Int
<1>1. NextBusinessDayStart(t) \in Int /\ Hour \in Int /\ Day \in Int /\ 6 * Day \in Int
      /\ (7 * 52 * 5 - 1) * Day \in Int
  BY NextIsTomorrow, HoursOfDay, DayIsLong
<1> QED
  BY <1>1, SameCalendar DEF Dates!ShortcutTarget

LEMMA AppointmentsAreTimes ==
    ASSUME Dates!AreWords, NEW t \in Nat, NEW v \in Words, NEW day \in Words \cup {Dates!NoWord}
    PROVE  Dates!AppointmentTime(v, day, t) \in TimesOrNothing
<1> USE DEF TimesOrNothing
<1>1. Dates!IsWord(v) /\ Dates!IsWord(day)
  BY DEF Dates!AreWords, Dates!IsWord, Dates!NoWord
<1>2. CASE ~ Dates!IsClockTime(v)
  BY <1>2 DEF Dates!AppointmentTime
<1>3. CASE Dates!IsClockTime(v)
  <2> DEFINE s == v.h * Hour + v.m * Minute
  <2>1. v.h \in 0..23 /\ v.m \in 0..59 /\ Dates!TimeOf(v) = s
    BY <1>1, <1>3, SameCalendar DEF Dates!IsClockTime, Dates!IsWord, Dates!TimeOf
  <2>2. s \in 0..LastSecond
    <3>1. ASSUME NEW h \in 0..23, NEW m \in 0..59
          PROVE  h * Hour + m * Minute \in Int /\ 0 <= h * Hour + m * Minute /\ h * Hour + m * Minute < Day
      BY DEF Hour, Minute, Day
    <3>2. s \in Int /\ 0 <= s /\ s < Day
      BY <2>1, <3>1
    <3> QED
      BY <3>2, DayIsLong
  <2> HIDE DEF s
  <2>3. s \in Int
    BY <2>2, DayIsLong
  <2>4. /\ DateOf(t) \in Int /\ DateOf(NextBusinessDayStart(t)) \in Int
    BY DateAndTime, NextIsTomorrow
  <2>5. CASE day.is = "date"
    <3>1. Dates!AppointmentTime(v, day, t) = At(day.date, s) /\ day.date \in Int
      BY <1>1, <1>3, <2>1, <2>5, SameCalendar DEF Dates!AppointmentTime, Dates!IsWord
    <3> QED
      BY <2>3, <3>1, AtType
  <2>6. CASE day.is = "monthday"
    <3>1. Dates!AppointmentTime(v, day, t) = Dates!NextOccurrence(day.k, s, t) /\ day.k \in 0..365
      BY <1>1, <1>3, <2>1, <2>6, SameCalendar DEF Dates!AppointmentTime, Dates!IsWord
    <3> QED
      BY <2>2, <3>1, MonthDaysAreTimes
  <2>7. CASE day.is = "tomorrow"
    <3>1. Dates!AppointmentTime(v, day, t) = At(DateOf(NextBusinessDayStart(t)), s)
      BY <1>3, <2>1, <2>7, SameCalendar DEF Dates!AppointmentTime
    <3> QED
      BY <2>3, <2>4, <3>1, AtType
  <2>8. CASE day.is = "weekday"
    <3>1. Dates!AppointmentTime(v, day, t) = At(DateOf(NextBusinessDayStart(t)) + Dates!DaysUntil(day.w, t) - 1, s)
      BY <1>3, <2>1, <2>8, SameCalendar DEF Dates!AppointmentTime
    <3>2. Dates!DaysUntil(day.w, t) \in Int
      <4>1. day.w \in Int /\ SubjectiveDate(t) \in Int
        BY <1>1, <2>8, NextIsTomorrow DEF Dates!IsWord
      <4> QED
        BY <4>1, SameCalendar DEF Dates!DaysUntil
    <3>3. DateOf(NextBusinessDayStart(t)) + Dates!DaysUntil(day.w, t) - 1 \in Int
      BY <2>4, <3>2
    <3> QED
      BY <2>3, <3>1, <3>3, AtType
  <2>9. CASE day.is \notin {"date", "monthday", "tomorrow", "weekday"}
    <3>1. Dates!AppointmentTime(v, day, t) = At(DateOf(t), s)
      BY <1>3, <2>1, <2>9, SameCalendar DEF Dates!AppointmentTime
    <3> QED
      BY <2>3, <2>4, <3>1, AtType
  <2> QED
    BY <2>5, <2>6, <2>7, <2>8, <2>9
<1> QED
  BY <1>2, <1>3

LEMMA WeekdaysAreNear ==
    ASSUME NEW t \in Nat, NEW w \in 0..6
    PROVE  Dates!DaysUntil(w, t) \in Int
<1>1. SubjectiveDate(t) \in Int
  BY NextIsTomorrow
<1> QED
  BY <1>1, SameCalendar DEF Dates!DaysUntil

LEMMA DeadlinesAreTimes ==
    ASSUME Dates!AreWords, NEW t \in Nat, NEW v \in Words
    PROVE  Dates!DeadlineTime(v, t) \in TimesOrNothing
<1> USE DEF TimesOrNothing
<1>1. Dates!IsWord(v) /\ DefaultDeadline \in Int /\ DateOf(t) \in Int /\ SubjectiveDate(t) \in Int
      /\ DateOf(NextBusinessDayStart(t)) \in Int
  BY NextIsTomorrow, DateAndTime, DayIsLong, SameCalendar DEF Dates!AreWords
<1>2. CASE Dates!IsClockTime(v)
  <2>1. Dates!DeadlineTime(v, t) = At(DateOf(t), v.h * Hour + v.m * Minute) /\ v.h \in Nat /\ v.m \in Nat
    BY <1>1, <1>2, SameCalendar DEF Dates!DeadlineTime, Dates!TimeOf, Dates!IsClockTime, Dates!IsWord
  <2>2. v.h * Hour + v.m * Minute \in Int
    BY <2>1, HoursOfDay
  <2> QED
    BY <1>1, <2>1, <2>2, AtType
<1>3. CASE ~ Dates!IsClockTime(v)
  <2>1. Dates!DeadlineDate(v, t) \in Int \cup {NoDeadline}
    <3>1. CASE v.is = "monthday"
      <4>1. 12 * Hour \in 0..LastSecond /\ v.k \in 0..365
        BY <1>1, <3>1, HoursOfDay DEF Dates!IsWord
      <4>2. Dates!NextOccurrence(v.k, 12 * Hour, t) \in TimesOrNothing
        BY <4>1, MonthDaysAreTimes
      <4>3. Dates!NextOccurrence(v.k, 12 * Hour, t) # NoDeadline => DateOf(Dates!NextOccurrence(v.k, 12 * Hour, t)) \in Int
        BY <4>2, DateAndTime
      <4> QED
        BY <3>1, <4>3, SameCalendar DEF Dates!DeadlineDate
    <3>2. CASE v.is = "weekday"
      <4>1. Dates!DaysUntil(v.w, t) \in Int
        BY <1>1, <3>2, WeekdaysAreNear DEF Dates!IsWord
      <4> QED
        BY <1>1, <3>2, <4>1, SameCalendar DEF Dates!DeadlineDate
    <3>3. CASE v.is \notin {"monthday", "weekday"}
      BY <1>1, <3>3, SameCalendar DEF Dates!DeadlineDate, Dates!IsWord
    <3> QED
      BY <3>1, <3>2, <3>3
  <2>2. Dates!DeadlineTime(v, t) = IF Dates!DeadlineDate(v, t) = NoDeadline THEN NoDeadline
                                   ELSE At(Dates!DeadlineDate(v, t), DefaultDeadline)
    BY <1>3, SameCalendar DEF Dates!DeadlineTime
  <2> QED
    BY <1>1, <2>1, <2>2, AtType
<1> QED
  BY <1>2, <1>3

LEMMA ClearingsAreTimes ==
    ASSUME Dates!AreWords, NEW t \in Nat, NEW v \in Words
    PROVE  /\ Dates!ClearUntil(v, t) \in TimesOrNothing
           /\ \A day \in Words : Dates!TimeRange(v, day, t) # << >> =>
                 /\ Dates!TimeRange(v, day, t)[1] \in Int /\ Dates!TimeRange(v, day, t)[2] \in Int
<1> USE DEF TimesOrNothing
<1>1. Dates!IsWord(v) /\ SubjectiveDate(t) \in Int /\ Minute \in Int /\ NextBusinessDayStart(t) \in Int
      /\ Morning \in 0..LastSecond
  BY NextIsTomorrow, HoursOfDay, DayIsLong DEF Dates!AreWords
<1>2. Dates!ClearUntil(v, t) \in TimesOrNothing
  <2>1. CASE v.is = "time" /\ v.m < 60
    <3>1. v.h \in Nat /\ v.m \in Nat
      BY <1>1, <2>1 DEF Dates!IsWord
    <3>2. Dates!ClearUntil(v, t) = At(SubjectiveDate(t) + v.h \div 24, (v.h % 24) * Hour + v.m * Minute)
      BY <2>1, SameCalendar DEF Dates!ClearUntil
    <3> QED
      BY <1>1, <3>1, <3>2, ClockTimes
  <2>2. CASE v.is = "number"
    <3>1. v.n * Minute \in Int
      BY <1>1, <2>2 DEF Dates!IsWord
    <3> QED
      BY <2>2, <3>1, SameCalendar DEF Dates!ClearUntil
  <2>3. CASE ~ (v.is = "time" /\ v.m < 60) /\ v.is # "number"
    BY <2>3 DEF Dates!ClearUntil
  <2> QED
    BY <2>1, <2>2, <2>3
<1>3. ASSUME NEW day \in Words, Dates!TimeRange(v, day, t) # << >>
      PROVE  Dates!TimeRange(v, day, t)[1] \in Int /\ Dates!TimeRange(v, day, t)[2] \in Int
  <2> DEFINE start == Dates!ClearDay(day, t)
             end == At(DateOf(start) + v.h \div 24, (v.h % 24) * Hour + v.m * Minute)
  <2>1. /\ Dates!TimeRange(v, day, t) = <<start, Dates!RangeEnd(v, start)>>
        /\ start # NoDeadline /\ v.is = "time"
    BY <1>3 DEF Dates!TimeRange
  <2>2. start \in Int
    <3>1. Dates!IsWord(day)
      BY DEF Dates!AreWords
    <3>2. CASE day.is = "weekday"
      <4>1. Dates!DaysUntil(day.w, t) \in Int
        BY <3>1, <3>2, WeekdaysAreNear DEF Dates!IsWord
      <4>2. SubjectiveDate(t) + Dates!DaysUntil(day.w, t) \in Int
        BY <1>1, <4>1
      <4>3. At(SubjectiveDate(t) + Dates!DaysUntil(day.w, t), Morning) \in Int
        BY <1>1, <4>2, PartsOfAt
      <4> QED
        BY <3>2, <4>3, SameCalendar DEF Dates!ClearDay, SubjectiveDateStart
    <3>3. CASE day.is = "monthday"
      <4>1. Dates!NextOccurrence(day.k, Morning, t) \in TimesOrNothing
        BY <1>1, <3>1, <3>3, MonthDaysAreTimes DEF Dates!IsWord
      <4>2. start = Dates!NextOccurrence(day.k, Morning, t)
        BY <3>3, SameCalendar DEF Dates!ClearDay
      <4> QED
        BY <2>1, <4>1, <4>2
    <3>4. CASE day.is \notin {"weekday", "monthday"}
      BY <1>1, <2>1, <3>4, SameCalendar DEF Dates!ClearDay
    <3> QED
      BY <3>2, <3>3, <3>4
  <2> HIDE DEF start
  <2>3. v.h \in Nat /\ v.m \in Nat /\ DateOf(start) \in Int /\ Day \in Int
    BY <1>1, <2>1, <2>2, DateAndTime, DayIsLong DEF Dates!IsWord
  <2>4. end \in Int
    BY <2>3, ClockTimes
  <2>5. Dates!RangeEnd(v, start) = IF end < start THEN end + Day ELSE end
    BY SameCalendar DEF Dates!RangeEnd
  <2> HIDE DEF end
  <2>6. Dates!RangeEnd(v, start) \in Int
    BY <2>3, <2>4, <2>5
  <2> QED
    BY <2>1, <2>2, <2>6
<1> QED
  BY <1>2, <1>3

-----------------------------------------------------------------------------
\* Every command leaves a task, whose clock shows one of the times.
LEMMA LeafKept ==
    Dates!AreWords /\ leaf \in Leaf /\ [Dates!Next]_(Dates!vars) => leaf' \in Leaf
<1> SUFFICES ASSUME Dates!AreWords, leaf \in Leaf, [Dates!Next]_(Dates!vars) PROVE leaf' \in Leaf
  OBVIOUS
<1> DEFINE Now == leaf.synced
           Put(l, p) == [l EXCEPT !.pend = p]
           As(l, o) == [l EXCEPT !.orig = o]
           Eval(l) == Dates!S!Evaluated(l)
<1>1. Now \in Nat /\ Dates!Now = Now
  BY DEF Leaf, Dates!Now
<1>2. \A l \in Leaf : Eval(l) \in Leaf
  BY LeafEvaluated
<1>3. \A l \in Leaf : /\ \A p \in Int : Put(l, p) \in Leaf /\ [l EXCEPT !.start = p] \in Leaf
                      /\ \A o \in {"todo", "pending", "done"} : As(l, o) \in Leaf
                      /\ [l EXCEPT !.est = 2 * l.est] \in Leaf
                      /\ [l EXCEPT !.ddl = NoDeadline] \in Leaf
                      /\ \A c \in Nat : [l EXCEPT !.synced = c] \in Leaf
  BY DEF Leaf
<1> HIDE DEF Now, Eval, Put, As
<1>4. \A l \in Leaf, p \in Int : Dates!PutOff(l, p) \in Leaf
  BY <1>2, <1>3 DEF Dates!PutOff, Eval, Put, As
<1>5. \A l \in Leaf, p \in Int : Dates!Cleared(l, p) \in Leaf
  BY <1>2, <1>3 DEF Dates!Cleared, Eval, Put, As
<1>6. \A l \in Leaf, d \in Int : Dates!S!Hastened(l, d) \in Leaf
  BY LeafHastened
<1>7. ASSUME NEW target \in TimesOrNothing, Dates!Defer(target) PROVE leaf' \in Leaf
  BY <1>4, <1>7 DEF Dates!Defer, Dates!vars, TimesOrNothing
<1>8. CASE Dates!SyncClock
  <2>1. PICK c \in ShownTimes : leaf' = Eval([leaf EXCEPT !.synced = c])
    BY <1>8 DEF Dates!SyncClock, Dates!Set, Eval
  <2> QED
    BY <1>2, <1>3, <2>1 DEF Dates!AreWords
<1>9. CASE Dates!Focus
  BY <1>9 DEF Dates!Focus
<1>10. CASE Dates!DeferExpression
  <2>1. PICK v \in Words : Dates!Defer(Dates!DeferTarget(v, Now))
    BY <1>1, <1>10 DEF Dates!DeferExpression
  <2>2. Dates!DeferTarget(v, Now) \in TimesOrNothing
    BY <1>1, DefersAreTimes
  <2> QED
    BY <1>7, <2>1, <2>2
<1>11. CASE Dates!Shortcut
  <2>1. PICK key \in {"t", "h", "D", "d", "w", "y"} : Dates!Defer(Dates!ShortcutTarget(key, Now))
    BY <1>1, <1>11 DEF Dates!Shortcut
  <2>2. Dates!ShortcutTarget(key, Now) \in TimesOrNothing
    BY <1>1, ShortcutsAreTimes DEF TimesOrNothing
  <2> QED
    BY <1>7, <2>1, <2>2
<1>12. CASE Dates!Escape
  <2> DEFINE doubled == [leaf EXCEPT !.est = 2 * leaf.est]
  <2>1. PICK v \in Words \cup {Dates!NoWord} :
           LET t == Dates!DeferTarget(v, Now)
           IN  IF t = NoDeadline THEN leaf' = doubled ELSE leaf' = Dates!PutOff(doubled, t)
    BY <1>1, <1>12 DEF Dates!Escape
  <2>2. Dates!DeferTarget(v, Now) \in TimesOrNothing
    BY <1>1, DefersAreTimes
  <2>3. doubled \in Leaf
    BY <1>3
  <2> HIDE DEF doubled
  <2> QED
    BY <1>4, <2>1, <2>2, <2>3 DEF TimesOrNothing
<1>13. \A t \in Dates!DayTimes : t \in Int
  BY <1>1, ClearingsAreTimes DEF Dates!DayTimes, TimesOrNothing
<1>14. \A range \in Dates!Ranges : range[1] \in Int /\ range[2] \in Int
  BY <1>1, ClearingsAreTimes DEF Dates!Ranges
<1>15. CASE Dates!Clear
  <2>1. PICK t \in Dates!DayTimes : leaf' = Dates!Cleared(leaf, t) \/ leaf' = leaf
    BY <1>15 DEF Dates!Clear
  <2> QED
    BY <1>5, <1>13, <2>1
<1>16. CASE Dates!Gather
  <2>1. leaf' = Eval(As(leaf, "todo")) \/ leaf' = leaf
    BY <1>16 DEF Dates!Gather, Eval, As
  <2> QED
    BY <1>2, <1>3, <2>1
<1>17. CASE Dates!ClearPart
  <2>1. PICK range \in Dates!Ranges : leaf' = Dates!Cleared(leaf, range[2]) \/ leaf' = leaf
    BY <1>17 DEF Dates!ClearPart
  <2> QED
    BY <1>5, <1>14, <2>1
<1>18. CASE Dates!GatherPart
  <2>1. PICK range \in Dates!Ranges : leaf' = Eval(Put(leaf, range[1])) \/ leaf' = leaf
    BY <1>18 DEF Dates!GatherPart, Eval, Put
  <2> QED
    BY <1>2, <1>3, <1>14, <2>1
<1>19. CASE Dates!Deadline
  <2>1. CASE leaf' = [leaf EXCEPT !.ddl = NoDeadline]
    BY <1>3, <2>1
  <2>2. CASE \E v \in Words : leaf' = IF Dates!DeadlineTime(v, Now) = NoDeadline THEN leaf
                                       ELSE Dates!S!Hastened(leaf, Dates!DeadlineTime(v, Now))
    <3>1. PICK v \in Words : leaf' = IF Dates!DeadlineTime(v, Now) = NoDeadline THEN leaf
                                      ELSE Dates!S!Hastened(leaf, Dates!DeadlineTime(v, Now))
      BY <2>2
    <3>2. Dates!DeadlineTime(v, Now) \in TimesOrNothing
      BY <1>1, DeadlinesAreTimes
    <3> QED
      BY <1>6, <3>1, <3>2 DEF TimesOrNothing
  <2> QED
    BY <1>1, <1>19, <2>1, <2>2 DEF Dates!Deadline
<1>20. \A t \in Dates!Appointments : t \in Int
  BY <1>1, AppointmentsAreTimes DEF Dates!Appointments, TimesOrNothing
<1>21. CASE Dates!Appointment
  <2> DEFINE free == [leaf EXCEPT !.ddl = NoDeadline]
  <2>1. PICK t \in Dates!Appointments :
           leaf' = Eval([Dates!S!Hastened(free, t + leaf.est) EXCEPT !.start = t])
    BY <1>21 DEF Dates!Appointment, Dates!Set, Eval
  <2>2. free \in Leaf /\ t \in Int /\ t + leaf.est \in Int
    BY <1>3, <1>20 DEF Leaf
  <2> HIDE DEF free
  <2>3. Dates!S!Hastened(free, t + leaf.est) \in Leaf
    BY <1>6, <2>2
  <2> QED
    BY <1>2, <1>3, <2>1, <2>2, <2>3
<1>22. CASE Dates!Start
  <2>1. PICK t \in Dates!Appointments : leaf' = Eval([leaf EXCEPT !.start = t])
    BY <1>22 DEF Dates!Start, Dates!Set, Eval
  <2> QED
    BY <1>2, <1>3, <1>20, <2>1
<1>23. CASE Dates!Finish
  <2>1. leaf' = Eval(As(leaf, "done"))
    BY <1>23 DEF Dates!Finish, Dates!Set, Eval, As
  <2> QED
    BY <1>2, <1>3, <2>1
<1>24. CASE UNCHANGED Dates!vars
  BY <1>24 DEF Dates!vars
<1> QED
  BY <1>8, <1>9, <1>10, <1>11, <1>12, <1>15, <1>16, <1>17, <1>18, <1>19, <1>21, <1>22, <1>23, <1>24 DEF Dates!Next

\* Clearing makes a task available no earlier.
LEMMA ClearingIsLater ==
    ASSUME Dates!AreWords, NEW l \in Leaf, NEW t \in Int, l.orig = "todo" \/ (l.orig = "pending" /\ l.pend < t)
    PROVE  /\ Dates!Cleared(l, t).start = l.start
           /\ Dates!S!FirstAvailable(Dates!Cleared(l, t)) >= Dates!S!FirstAvailable(Dates!S!Evaluated(l))
<1> DEFINE e == Dates!S!Evaluated(l)
           p == Dates!S!Evaluated([l EXCEPT !.orig = "pending"])
           q == [p EXCEPT !.pend = t]
           c == Dates!S!Evaluated(q)
           limit == Dates!S!DeadlinePendingLimit(l.ddl, l.est)
<1>1. [l EXCEPT !.orig = "pending"] \in Leaf
  BY DEF Leaf
<1>2. p \in Leaf /\ p.orig = "pending" /\ p.start = l.start /\ p.ddl = l.ddl /\ p.est = l.est
  BY <1>1, LeafEvaluated DEF Leaf
<1> HIDE DEF p
<1>3. q \in Leaf /\ q.orig = "pending" /\ q.start = l.start /\ q.ddl = l.ddl /\ q.est = l.est /\ q.pend = t
  BY <1>2 DEF Leaf
<1> HIDE DEF q
<1>4. /\ c \in Leaf /\ c.orig = "pending" /\ c.start = l.start
      /\ c.pend = IF l.ddl # NoDeadline THEN Dates!S!Lesser(t, limit) ELSE t
  BY <1>3, LeafEvaluated
<1>5. /\ e \in Leaf /\ e.orig = l.orig /\ e.start = l.start
      /\ e.pend = IF l.orig = "pending" /\ l.ddl # NoDeadline THEN Dates!S!Lesser(l.pend, limit) ELSE l.pend
  BY LeafEvaluated
<1>6. Dates!Cleared(l, t) = c /\ Dates!S!Evaluated(l) = e
  BY DEF Dates!Cleared, p, q
<1> HIDE DEF c, e
<1>7. /\ l.start \in Int /\ l.pend \in Int
      /\ l.ddl # NoDeadline => limit \in Int
  BY DEF Leaf, Dates!S!DeadlinePendingLimit, Dates!Minute
<1> HIDE DEF limit
<1>8. Dates!S!FirstAvailable(c) = Dates!S!Greater(l.start, c.pend)
  BY <1>4 DEF Dates!S!FirstAvailable
<1>11. /\ c.start = l.start /\ c.pend \in Int /\ l.start \in Int
       /\ Dates!S!FirstAvailable(c) >= l.start /\ Dates!S!FirstAvailable(c) >= c.pend
       /\ Dates!S!FirstAvailable(c) \in Int
  <2>1. c.pend \in Int /\ c.start = l.start
    BY <1>4 DEF Leaf
  <2> QED
    BY <1>7, <1>8, <2>1 DEF Dates!S!Greater
<1>9. CASE l.orig = "todo"
  <2>1. Dates!S!FirstAvailable(e) = l.start
    BY <1>5, <1>9 DEF Dates!S!FirstAvailable
  <2>2. c.pend \in Int
    BY <1>4 DEF Leaf
  <2> QED
    BY <1>6, <1>11, <2>1, <2>2 DEF Dates!S!Greater
<1>10. CASE l.orig = "pending" /\ l.pend < t
  <2>1. Dates!S!FirstAvailable(e) = Dates!S!Greater(l.start, e.pend)
    BY <1>5, <1>10 DEF Dates!S!FirstAvailable
  <2>2. e.pend \in Int /\ c.pend \in Int /\ e.pend <= c.pend
    BY <1>4, <1>5, <1>7, <1>10 DEF Dates!S!Lesser
  <2> QED
    BY <1>6, <1>11, <2>1, <2>2 DEF Dates!S!Greater
<1> QED
  BY <1>9, <1>10

\* What is put off waits until the time, or as long as its deadline allows.
LEMMA PutOffWaits ==
    ASSUME Dates!AreWords, NEW l \in Leaf, NEW t \in Int
    PROVE  LET p == Dates!PutOff(l, t)
           IN  /\ p.ddl = l.ddl /\ p.est = l.est
               /\ p.pend = t \/ (l.ddl # NoDeadline /\ p.pend = Dates!S!DeadlinePendingLimit(l.ddl, l.est))
<1> DEFINE a == [l EXCEPT !.pend = t]
           b == Dates!S!Evaluated(a)
           c == [b EXCEPT !.orig = "pending"]
           d == Dates!S!Evaluated(c)
           limit == Dates!S!DeadlinePendingLimit(l.ddl, l.est)
<1>1. a \in Leaf /\ a.pend = t /\ a.ddl = l.ddl /\ a.est = l.est
  BY DEF Leaf
<1> HIDE DEF a
<1>2. /\ b \in Leaf /\ b.ddl = l.ddl /\ b.est = l.est
      /\ b.pend = t \/ (l.ddl # NoDeadline /\ b.pend = limit)
  BY <1>1, LeafEvaluated DEF Dates!S!Lesser
<1> HIDE DEF b
<1>3. c \in Leaf /\ c.ddl = l.ddl /\ c.est = l.est /\ c.pend = b.pend
  BY <1>2 DEF Leaf
<1> HIDE DEF c
<1>4. /\ d.ddl = l.ddl /\ d.est = l.est
      /\ d.pend = c.pend \/ (l.ddl # NoDeadline /\ d.pend = limit)
  BY <1>3, LeafEvaluated DEF Dates!S!Lesser
<1>5. Dates!PutOff(l, t) = d
  BY DEF Dates!PutOff, a, b, c
<1> HIDE DEF d, limit
<1> QED
  BY <1>2, <1>3, <1>4, <1>5 DEF limit

LEMMA StepPutsOff ==
    ASSUME Dates!AreWords, leaf \in Leaf, leaf' \in Leaf
    PROVE  Dates!PutsOff
<1> DEFINE Now == leaf.synced
           First(l) == Dates!S!FirstAvailable(l)
<1>1. Now \in Nat /\ Dates!Now = Now
  BY DEF Leaf, Dates!Now
<1>2. First(leaf) >= First(Dates!S!Evaluated(leaf)) /\ First(Dates!S!Evaluated(leaf)) \in Int
  <2> DEFINE e == Dates!S!Evaluated(leaf)
             limit == Dates!S!DeadlinePendingLimit(leaf.ddl, leaf.est)
  <2>1. /\ e.orig = leaf.orig /\ e.start = leaf.start
        /\ e.pend = IF leaf.orig = "pending" /\ leaf.ddl # NoDeadline
                    THEN Dates!S!Lesser(leaf.pend, limit) ELSE leaf.pend
    BY LeafEvaluated
  <2>2. leaf.start \in Int /\ leaf.pend \in Int /\ (leaf.ddl # NoDeadline => limit \in Int)
    BY DEF Leaf, Dates!S!DeadlinePendingLimit, Dates!Minute
  <2> HIDE DEF e, limit
  <2>3. e.pend \in Int /\ e.pend <= leaf.pend
    BY <2>1, <2>2 DEF Dates!S!Lesser
  <2> QED
    BY <2>1, <2>2, <2>3 DEF Dates!S!FirstAvailable, Dates!S!Greater, e
<1>3. ASSUME Dates!Clear \/ Dates!ClearPart
      PROVE  leaf'.start = leaf.start /\ First(leaf') >= First(Dates!S!Evaluated(leaf))
  <2>1. CASE Dates!Clear
    <3>1. PICK t \in Dates!DayTimes : leaf' = IF Dates!ToClear(leaf, t) THEN Dates!Cleared(leaf, t) ELSE leaf
      BY <2>1 DEF Dates!Clear
    <3>2. t \in Int
      BY <1>1, ClearingsAreTimes DEF Dates!DayTimes, TimesOrNothing
    <3>3. CASE Dates!ToClear(leaf, t)
      <4>1. leaf.orig = "todo" \/ (leaf.orig = "pending" /\ leaf.pend < t)
        BY <3>3 DEF Dates!ToClear, Dates!Open, Leaf
      <4> QED
        BY <3>1, <3>2, <3>3, <4>1, ClearingIsLater
    <3> QED
      BY <1>2, <3>1, <3>3
  <2>2. CASE Dates!ClearPart
    <3>1. PICK range \in Dates!Ranges : \E planned \in Dates!Planned(range) :
             leaf' = IF \/ leaf.orig = "todo" /\ planned = "in the range"
                        \/ leaf.orig = "pending" /\ planned # "no" /\ leaf.pend \in range[1]..(range[2] - 1)
                     THEN Dates!Cleared(leaf, range[2]) ELSE leaf
      BY <2>2 DEF Dates!ClearPart
    <3>2. range[1] \in Int /\ range[2] \in Int
      BY <1>1, ClearingsAreTimes DEF Dates!Ranges
    <3>3. \/ leaf' = leaf
          \/ /\ leaf' = Dates!Cleared(leaf, range[2])
             /\ leaf.orig = "todo" \/ (leaf.orig = "pending" /\ leaf.pend \in range[1]..(range[2] - 1))
      BY <3>1
    <3>4. leaf.pend \in range[1]..(range[2] - 1) => leaf.pend < range[2]
      BY <3>2
    <3> QED
      BY <1>2, <3>2, <3>3, <3>4, ClearingIsLater
  <2> QED
    BY <1>3, <2>1, <2>2
<1>4. ASSUME leaf' # leaf, leaf'.pend <= Now,
             leaf'.ddl # NoDeadline => leaf'.pend # Dates!S!DeadlinePendingLimit(leaf'.ddl, leaf'.est),
             NEW v \in Words, Dates!IsAhead(v), Dates!Defer(Dates!DeferTarget(v, Now))
      PROVE  FALSE
  <2> DEFINE t == Dates!DeferTarget(v, Now)
  <2>1. t # NoDeadline /\ leaf' = Dates!PutOff(leaf, t)
    BY <1>4 DEF Dates!Defer, Dates!vars
  <2>2. t \in Int /\ t > Now
    BY <1>1, <1>4, <2>1, DefersAreTimes DEF TimesOrNothing
  <2> HIDE DEF t
  <2>3. leaf'.pend = t
    BY <1>4, <2>1, <2>2, PutOffWaits
  <2> QED
    BY <1>1, <1>4, <2>2, <2>3
<1>5. leaf'.start # leaf.start \/ First(leaf') < First(Dates!S!Evaluated(leaf)) => ~ (Dates!Clear \/ Dates!ClearPart)
  <2> SUFFICES ASSUME Dates!Clear \/ Dates!ClearPart
               PROVE  leaf'.start = leaf.start /\ ~ (First(leaf') < First(Dates!S!Evaluated(leaf)))
    OBVIOUS
  <2>1. leaf'.start = leaf.start /\ First(leaf') >= First(Dates!S!Evaluated(leaf))
    BY <1>3
  <2>2. First(leaf') \in Int
    BY DEF Dates!S!FirstAvailable, Dates!S!Greater, Leaf
  <2> QED
    BY <1>2, <2>1, <2>2
<1> QED
  BY <1>1, <1>4, <1>5 DEF Dates!PutsOff

LeafInv == leaf \in Leaf

LEMMA WordsInitInv == Dates!AreWords /\ Dates!Init => LeafInv
<1> SUFFICES ASSUME Dates!AreWords, Dates!Init PROVE LeafInv
  OBVIOUS
<1>1. PICK c \in ShownTimes, s \in LeafStarts, p \in LeafWaits, d \in LeafDeadlines \cup {NoDeadline},
           o \in {"todo", "pending"} :
         leaf = Dates!S!Evaluated([orig |-> o, status |-> "todo", start |-> s, pend |-> p, ddl |-> d,
                                   est |-> Hour, act |-> 0, synced |-> c])
  BY SameCalendar DEF Dates!Init
<1>2. [orig |-> o, status |-> "todo", start |-> s, pend |-> p, ddl |-> d,
       est |-> Hour, act |-> 0, synced |-> c] \in Leaf
  BY HoursOfDay DEF Dates!AreWords, Leaf
<1> QED
  BY <1>1, <1>2, LeafEvaluated DEF LeafInv

LEMMA WordsNamed == Dates!AreWords /\ LeafInv => Dates!DatesAgree
<1> SUFFICES ASSUME Dates!AreWords, LeafInv PROVE Dates!DatesAgree
  OBVIOUS
<1>1. leaf.synced \in Nat /\ Dates!Now = leaf.synced
  BY DEF LeafInv, Leaf, Dates!Now
<1> QED
  BY <1>1, DayNamed, NextNamed, TimeNamed, PartNamed DEF Dates!DatesAgree

-----------------------------------------------------------------------------
(***************************************************************************)
(* Free time                                                               *)
(***************************************************************************)
(* A day has a length.                                                     *)
LEMMA LengthOfDay == Free!Assumption => DayLength \in Nat \ {0}
    BY DEF Free!Assumption

(* The free times in a stretch up to the end of a day.                     *)
FreeTimes(a, b, d) == {t \in a..(b - 1) : Free!IsFree(t) /\ t \div DayLength <= d}
FreeTimesOf(a, b, d) == {t \in a..(b - 1) : Free!IsFree(t) /\ t \div DayLength = d}

(* What is free of a day, first and last one cut, is its free times.       *)
LEMMA FreeOnDay ==
    ASSUME Free!Assumption, NEW a \in Int, NEW b \in Int, NEW d \in Int,
           a \div DayLength <= d, d <= b \div DayLength
    PROVE  Free!FreeOn(d, a, b) = Cardinality(FreeTimesOf(a, b, d))
<1> DEFINE lo == IF d = a \div DayLength THEN a % DayLength ELSE 0
           hi == IF d = b \div DayLength THEN b % DayLength ELSE DayLength
           S == {s \in Free!FreeSlots(d) : lo <= s /\ s < hi}
           T == FreeTimesOf(a, b, d)
           f == [s \in S |-> d * DayLength + s]
<1>0. DayLength \in Nat /\ DayLength > 0
    BY DEF Free!Assumption
<1>1. Free!FreeOn(d, a, b) = Cardinality(S)
    BY DEF Free!FreeOn, Free!Cardinality, Cardinality
<1>2. \A s \in Free!Slots : s \in Free!FreeSlots(d) <=> Free!IsFree(d * DayLength + s)
    BY LengthOfDay, SlotOfDay DEF Free!Slots, Free!FreeSlots, Free!IsFree
<1>3. /\ a = (a \div DayLength) * DayLength + (a % DayLength) /\ a % DayLength \in Free!Slots
      /\ b = (b \div DayLength) * DayLength + (b % DayLength) /\ b % DayLength \in Free!Slots
      /\ a \div DayLength \in Int /\ b \div DayLength \in Int
    BY LengthOfDay, DayAndSlot DEF Free!Slots
<1>4. \A s \in Free!Slots : (lo <= s <=> a <= d * DayLength + s) /\ (s < hi <=> d * DayLength + s < b)
    <2> DEFINE p == a \div DayLength
               q == b \div DayLength
               u == a % DayLength
               v == b % DayLength
    <2>1. /\ p \in Int /\ q \in Int /\ u \in Int /\ v \in Int /\ 0 <= u /\ u < DayLength
          /\ 0 <= v /\ v < DayLength /\ a = p * DayLength + u /\ b = q * DayLength + v
          /\ p <= d /\ d <= q
        BY <1>3, <1>0 DEF Free!Slots
    <2> HIDE DEF p, q, u, v
    <2> SUFFICES ASSUME NEW s \in Int, 0 <= s, s < DayLength
                 PROVE  /\ (IF d = p THEN u ELSE 0) <= s <=> a <= d * DayLength + s
                        /\ s < (IF d = q THEN v ELSE DayLength) <=> d * DayLength + s < b
        BY <1>0 DEF Free!Slots, p, q, u, v
    <2>2. CASE d = p
        BY <2>1, <2>2, <1>0
    <2>3. ASSUME p < d PROVE a <= d * DayLength
        <3>1. (d - p) * DayLength >= DayLength
            BY <2>1, <2>3, <1>0
        <3> QED BY <2>1, <3>1, <1>0
    <2>4. CASE d = q
        BY <2>1, <2>4, <1>0
    <2>5. ASSUME d < q PROVE d * DayLength + DayLength <= b
        <3>1. (q - d) * DayLength >= DayLength
            BY <2>1, <2>5, <1>0
        <3> QED BY <2>1, <3>1, <1>0
    <2>6. (IF d = p THEN u ELSE 0) <= s <=> a <= d * DayLength + s
        <3>1. d * DayLength \in Int
            BY <1>0
        <3> QED BY <2>1, <2>3, <3>1, <1>0
    <2>7. s < (IF d = q THEN v ELSE DayLength) <=> d * DayLength + s < b
        <3>1. d * DayLength \in Int
            BY <1>0
        <3> QED BY <2>1, <2>5, <3>1, <1>0
    <2> QED BY <2>6, <2>7
<1>5. S \subseteq Free!Slots
    BY DEF Free!FreeSlots
<1> HIDE DEF lo, hi
<1>6. f \in [S -> T]
    <2> SUFFICES ASSUME NEW s \in S PROVE d * DayLength + s \in T
        OBVIOUS
    <2>1. s \in Free!Slots /\ Free!IsFree(d * DayLength + s)
        BY <1>2, <1>5
    <2>2. a <= d * DayLength + s /\ d * DayLength + s < b
        BY <1>4, <2>1
    <2>3. (d * DayLength + s) \div DayLength = d /\ d * DayLength + s \in Int
        BY <2>1, LengthOfDay, SlotOfDay DEF Free!Slots
    <2> QED BY <2>1, <2>2, <2>3 DEF FreeTimesOf
<1>7. \A x, y \in S : f[x] = f[y] => x = y
    BY <1>5, <1>0 DEF Free!Slots
<1>8. \A t \in T : \E x \in S : f[x] = t
    <2> TAKE t \in T
    <2>1. t \in Int /\ a <= t /\ t < b /\ Free!IsFree(t) /\ t \div DayLength = d
        BY DEF FreeTimesOf
    <2>2. t % DayLength \in Free!Slots /\ t = d * DayLength + (t % DayLength)
        BY <2>1, LengthOfDay, DayAndSlot DEF Free!Slots
    <2>3. t % DayLength \in S
        BY <1>2, <1>4, <2>1, <2>2
    <2> WITNESS t % DayLength \in S
    <2> QED BY <2>2, <2>3
<1>9. IsFiniteSet(S)
    <2>1. IsFiniteSet(Free!Slots)
        BY <1>0, FS_Interval DEF Free!Slots
    <2> QED BY <1>5, <2>1, FS_Subset
<1> HIDE DEF S, T, f
<1>10. Cardinality(T) = Cardinality(S)
    BY <1>6, <1>7, <1>8, <1>9, SameSize
<1> QED BY <1>1, <1>10 DEF T

(* A later time is on no sooner a day.                                     *)
LEMMA DaysInOrder ==
    ASSUME Free!Assumption, NEW t \in Int, NEW u \in Int, t <= u
    PROVE  t \div DayLength <= u \div DayLength
<1> DEFINE d == t \div DayLength
           e == u \div DayLength
           r == t % DayLength
           q == u % DayLength
<1>1. DayLength \in Nat /\ DayLength > 0
    BY DEF Free!Assumption
<1>2. /\ d \in Int /\ e \in Int /\ t = d * DayLength + r /\ u = e * DayLength + q
      /\ r \in Free!Slots /\ q \in Free!Slots
    BY LengthOfDay, DayAndSlot DEF Free!Slots
<1>3. r \in Int /\ q \in Int /\ 0 <= r /\ r < DayLength /\ 0 <= q /\ q < DayLength
    BY <1>1, <1>2 DEF Free!Slots
<1> HIDE DEF d, e, r, q
<1>4. SUFFICES ASSUME e + 1 <= d PROVE FALSE
    BY <1>2 DEF d, e
<1>5. (d - e) * DayLength >= DayLength
    BY <1>1, <1>2, <1>4
<1>6. (d - e) * DayLength = d * DayLength - e * DayLength
    BY <1>1, <1>2
<1>7. d * DayLength \in Int /\ e * DayLength \in Int
    BY <1>1, <1>2
<1> QED BY <1>1, <1>2, <1>3, <1>5, <1>6, <1>7

(* Day by day all free times between two times are counted, each once.     *)
LEMMA FreeTimeIsFree ==
    ASSUME Free!Assumption, NEW a \in Int, NEW b \in Int
    PROVE  Free!FreeTimeIn(a, b) = Free!Free(a, b)
<1> DEFINE first == a \div DayLength
           last == b \div DayLength
           S == first..last
           Value(g, d) == Free!FreeOn(d, a, b) + IF d = first THEN 0 ELSE g[d - 1]
           Is(g) == g = [d \in S |-> Value(g, d)]
           upTo == [d \in S |-> Cardinality(FreeTimes(a, b, d))]
           rank == [d \in S |-> d - first]
<1>1. first \in Int /\ last \in Int
    BY LengthOfDay, DayAndSlot DEF Free!Slots
<1>2. Free!Free(a, b) = Cardinality({t \in a..(b - 1) : Free!IsFree(t)})
    BY DEF Free!Free, Free!Cardinality, Cardinality
<1>3. CASE a >= b
    <2>1. {t \in a..(b - 1) : Free!IsFree(t)} = {}
        BY <1>3
    <2>2. Free!FreeTimeIn(a, b) = 0
        BY <1>3 DEF Free!FreeTimeIn
    <2> QED BY <1>2, <2>1, <2>2, FS_EmptySet
<1>4. CASE a < b
    <2>1. first <= last
        BY <1>4, DaysInOrder
    <2>2. \A t \in a..(b - 1) : t \in Int /\ t \div DayLength \in Int /\ first <= t \div DayLength /\ t \div DayLength <= last
        <3> SUFFICES ASSUME NEW t \in a..(b - 1)
                     PROVE  t \div DayLength \in Int /\ first <= t \div DayLength /\ t \div DayLength <= last
            OBVIOUS
        <3>1. t \in Int /\ a <= t /\ t <= b
            OBVIOUS
        <3> QED BY <3>1, DaysInOrder, LengthOfDay, DayAndSlot DEF Free!Slots
    <2>3. ASSUME NEW d \in S
          PROVE  /\ IsFiniteSet(FreeTimes(a, b, d)) /\ IsFiniteSet(FreeTimesOf(a, b, d))
                 /\ Free!FreeOn(d, a, b) = Cardinality(FreeTimesOf(a, b, d))
                 /\ Cardinality(FreeTimes(a, b, d)) \in Nat /\ Cardinality(FreeTimesOf(a, b, d)) \in Nat
        <3>1. IsFiniteSet(a..(b - 1))
            BY FS_Interval
        <3>2. IsFiniteSet(FreeTimes(a, b, d)) /\ IsFiniteSet(FreeTimesOf(a, b, d))
            BY <3>1, FS_Subset DEF FreeTimes, FreeTimesOf
        <3>3. Free!FreeOn(d, a, b) = Cardinality(FreeTimesOf(a, b, d))
            <4>1. d \in Int /\ first <= d /\ d <= last
                BY <1>1
            <4> HIDE DEF S
            <4> QED BY <4>1, FreeOnDay
        <3> QED BY <3>2, <3>3, FS_CardinalityType
    <2>4. ASSUME NEW d \in S, d # first
          PROVE  d - 1 \in S /\ Cardinality(FreeTimes(a, b, d)) = Free!FreeOn(d, a, b) + Cardinality(FreeTimes(a, b, d - 1))
        <3>1. d - 1 \in S /\ d \in Int
            BY <1>1, <2>4
        <3>2. FreeTimes(a, b, d) = FreeTimesOf(a, b, d) \cup FreeTimes(a, b, d - 1)
            BY <2>2, <3>1 DEF FreeTimes, FreeTimesOf
        <3>3. FreeTimesOf(a, b, d) \cap FreeTimes(a, b, d - 1) = {}
            BY <2>2, <3>1 DEF FreeTimes, FreeTimesOf
        <3> HIDE DEF S
        <3>4. /\ IsFiniteSet(FreeTimesOf(a, b, d)) /\ IsFiniteSet(FreeTimes(a, b, d - 1))
              /\ Free!FreeOn(d, a, b) = Cardinality(FreeTimesOf(a, b, d))
              /\ Cardinality(FreeTimesOf(a, b, d)) \in Nat /\ Cardinality(FreeTimes(a, b, d - 1)) \in Nat
            BY <2>3, <3>1
        <3>5. Cardinality(FreeTimes(a, b, d)) =
                  Cardinality(FreeTimesOf(a, b, d)) + Cardinality(FreeTimes(a, b, d - 1))
                  - Cardinality(FreeTimesOf(a, b, d) \cap FreeTimes(a, b, d - 1))
            BY <3>2, <3>4, FS_Union
        <3>6. Cardinality(FreeTimesOf(a, b, d) \cap FreeTimes(a, b, d - 1)) = 0
            BY <3>3, FS_EmptySet
        <3> QED BY <3>1, <3>4, <3>5, <3>6
    <2>5. first \in S /\ last \in S /\ FreeTimes(a, b, first) = FreeTimesOf(a, b, first)
        <3>1. first \in S /\ last \in S
            BY <1>1, <2>1
        <3>2. FreeTimes(a, b, first) = FreeTimesOf(a, b, first)
            BY <1>1, <2>2 DEF FreeTimes, FreeTimesOf
        <3> QED BY <3>1, <3>2
    <2>6. ASSUME NEW d \in S PROVE upTo[d] = Value(upTo, d)
        <3>1. CASE d = first
            BY <2>3, <2>5, <3>1
        <3>2. CASE d # first
            <4>1. d - 1 \in S /\ upTo[d - 1] = Cardinality(FreeTimes(a, b, d - 1))
                BY <2>4, <3>2
            <4> HIDE DEF S
            <4> QED BY <2>4, <3>2, <4>1
        <3> QED BY <3>1, <3>2
    <2> HIDE DEF Value
    <2>7. Is(upTo)
        BY <2>6
    <2>8. PICK sum : Is(sum) /\ Free!FreeTimeIn(a, b) = sum[last]
        <3>1. Is(CHOOSE g : Is(g))
            <4> HIDE DEF Is
            <4> QED BY <2>7
        <3>2. Free!FreeTimeIn(a, b) = (CHOOSE g : Is(g))[last]
            BY <1>1, <1>4 DEF Free!FreeTimeIn, Value
        <3> HIDE DEF Is
        <3> QED BY <3>1, <3>2
    <2>9. \A d \in S : sum[d] = Value(sum, d)
        BY <2>8
    <2> DEFINE Good == {d \in S : sum[d] = upTo[d]}
    <2>10. \A d \in S : (\A e \in S : rank[e] < rank[d] => e \in Good) => d \in Good
        <3> SUFFICES ASSUME NEW d \in S, \A e \in S : rank[e] < rank[d] => e \in Good
                     PROVE  sum[d] = upTo[d]
            OBVIOUS
        <3>1. ASSUME d # first PROVE sum[d - 1] = upTo[d - 1]
            <4>1. d - 1 \in S /\ rank[d - 1] < rank[d]
                BY <1>1, <2>4, <3>1
            <4> HIDE DEF S, rank, upTo
            <4> QED BY <4>1
        <3>2. Value(sum, d) = Value(upTo, d)
            <4> HIDE DEF upTo, S
            <4> QED BY <3>1 DEF Value
        <3> HIDE DEF upTo, S
        <3> QED BY <2>6, <2>9, <3>2
    <2>11. last - first \in Nat /\ rank \in [S -> 0..(last - first)]
        BY <1>1, <2>1
    <2>12. Good = S
        <3> HIDE DEF Good, S, rank
        <3>1. Inherited(Good, S, last - first, rank)
            BY <2>10, <2>11 DEF Inherited, Good
        <3> QED BY <3>1, RankInduction
    <2>13. sum[last] = Cardinality(FreeTimes(a, b, last))
        BY <2>5, <2>12
    <2>14. FreeTimes(a, b, last) = {t \in a..(b - 1) : Free!IsFree(t)}
        BY <2>2 DEF FreeTimes
    <2> QED BY <1>2, <2>8, <2>13, <2>14
<1> QED BY <1>3, <1>4

(* Which part of a day its capacity is the free time of.                   *)
LEMMA CapacityOfDay ==
    ASSUME Free!Assumption, hour \in Int
    PROVE  Free!CapacityIsFree
<1> DEFINE today == Free!SubjectiveDate(hour)
           d == hour \div DayLength
           s == hour % DayLength
<1>1. /\ d \in Int /\ s \in Int /\ hour = d * DayLength + s /\ 0 <= s /\ s < DayLength
      /\ DayLength \in Nat /\ MorningSlot \in Int /\ Offset \in Int /\ 0 <= MorningSlot /\ MorningSlot < DayLength
    <2>1. DayLength \in Nat /\ MorningSlot \in Int /\ Offset \in Int /\ 0 <= MorningSlot /\ MorningSlot < DayLength
        BY DEF Free!Slots, Free!Assumption
    <2>2. d \in Int /\ s \in Free!Slots /\ hour = d * DayLength + s
        BY LengthOfDay, DayAndSlot DEF Free!Slots
    <2> HIDE DEF d, s
    <2>3. s \in Int /\ 0 <= s /\ s < DayLength
        BY <2>1, <2>2 DEF Free!Slots
    <2> QED BY <2>1, <2>2, <2>3
<1>2. /\ Free!Night <=> s < MorningSlot
      /\ today = IF s < MorningSlot THEN d - 1 ELSE d
    BY DEF Free!Night, Free!SubjectiveDate
<1> HIDE DEF d, s
<1>3. ASSUME NEW e \in Int
      PROVE  /\ Free!StartOf(e) = e * DayLength + MorningSlot /\ Free!StartOf(e) \in Int
             /\ Free!StartOf(e + 1) = e * DayLength + DayLength + MorningSlot
             /\ Free!EndOf(e) \in Int /\ e * DayLength \in Int
             /\ Free!IsCurrent(e) <=> Free!StartOf(e) < hour /\ hour < Free!StartOf(e + 1)
    <2>1. e * DayLength \in Int /\ (e + 1) * DayLength = e * DayLength + DayLength
        BY <1>1
    <2> QED BY <1>1, <2>1 DEF Free!StartOf, Free!EndOf, Free!IsCurrent
<1>4. today \in Int
    BY <1>1, <1>2
<1>5. ~ Free!Night => Free!StartOf(today) <= hour /\ hour < Free!StartOf(today + 1)
    <2> SUFFICES ASSUME ~ (s < MorningSlot)
                 PROVE  Free!StartOf(d) <= hour /\ hour < Free!StartOf(d + 1)
        BY <1>2
    <2> QED BY <1>1, <1>3
<1>6. hour < Free!StartOf(today + 1)
    <2>1. CASE s < MorningSlot
        <3>1. today + 1 = d
            BY <1>1, <1>2, <2>1
        <3>2. Free!StartOf(d) = d * DayLength + MorningSlot /\ d * DayLength \in Int
            BY <1>1, <1>3
        <3> QED BY <1>1, <2>1, <3>1, <3>2
    <2>2. CASE ~ (s < MorningSlot)
        BY <1>2, <1>5, <2>2
    <2> QED BY <2>1, <2>2
<1> HIDE DEF today
<1>7. ASSUME ~ Free!Night
      PROVE  Free!Capacity(today) = Free!Free(IF hour > Free!StartOf(today) THEN hour ELSE Free!StartOf(today), Free!EndOf(today))
    <2>1. Free!StartOf(today) \in Int /\ Free!EndOf(today) \in Int
        BY <1>3, <1>4
    <2>2. CASE Free!StartOf(today) < hour
        <3>1. Free!IsCurrent(today)
            BY <1>3, <1>4, <1>6, <2>2
        <3>2. Free!Capacity(today) = Free!FreeTimeIn(hour, Free!EndOf(today))
            BY <1>7, <3>1 DEF Free!Capacity
        <3> QED BY <2>1, <2>2, <3>2, FreeTimeIsFree
    <2>3. CASE ~ (Free!StartOf(today) < hour)
        <3>1. ~ Free!IsCurrent(today)
            BY <1>3, <1>4, <2>3
        <3>2. Free!Capacity(today) = Free!FreeTimeIn(Free!StartOf(today), Free!EndOf(today))
            BY <3>1 DEF Free!Capacity
        <3>3. ~ (hour > Free!StartOf(today))
            BY <2>1, <2>3
        <3> QED BY <2>1, <3>2, <3>3, FreeTimeIsFree
    <2> QED BY <2>2, <2>3
<1>8. LET e == today + 1
      IN  Free!Capacity(e) = Free!Free(IF hour > Free!StartOf(e) THEN hour ELSE Free!StartOf(e), Free!EndOf(e))
    <2> DEFINE e == today + 1
    <2>1. e \in Int
        BY <1>4
    <2>2. hour < Free!StartOf(e)
        BY <1>6
    <2> HIDE DEF e
    <2>3. Free!StartOf(e) \in Int /\ Free!EndOf(e) \in Int
        BY <1>3, <2>1
    <2>4. ~ Free!IsCurrent(e) /\ ~ (hour > Free!StartOf(e))
        BY <1>3, <2>1, <2>2, <2>3
    <2>5. Free!Capacity(e) = Free!FreeTimeIn(Free!StartOf(e), Free!EndOf(e))
        BY <2>4 DEF Free!Capacity
    <2>6. Free!Capacity(e) = Free!Free(IF hour > Free!StartOf(e) THEN hour ELSE Free!StartOf(e), Free!EndOf(e))
        BY <2>3, <2>4, <2>5, FreeTimeIsFree
    <2> QED BY <2>6 DEF e
<1> QED BY <1>7, <1>8 DEF Free!CapacityIsFree, today

LEMMA FreeTimeCounts == Free!Assumption => Free!CountsFreeTime
<1>1. ASSUME Free!Assumption PROVE Free!Moments \subseteq Int
    BY <1>1 DEF Free!Moments, Free!Assumption
<1> QED BY <1>1, FreeTimeIsFree DEF Free!CountsFreeTime

(* The clock shows a time.                                                 *)
LEMMA FreeInitInv == Free!Assumption /\ Free!Init => hour \in Int
BY DEF Free!Init, Free!Assumption, Free!Slots

LEMMA FreeNextInv == hour \in Int /\ Free!Next => hour' \in Int
BY DEF Free!Next, Free!vars, Free!Load, Free!LoadFails, Free!Register, Free!Tick

-----------------------------------------------------------------------------
(***************************************************************************)
(* All of them together (TaskTimes)                                        *)
(***************************************************************************)
TimesInv ==
    /\ part = "free" => hour \in Int
    /\ part = "dates" => LeafInv

LEMMA TimesInvariance == TimesSpec => []TimesInv
<1> USE FreeTimeAssumption, DatesAssumption
<1>1. TimesInit => TimesInv
  BY FreeInitInv, WordsInitInv DEF TimesInit, TimesInv
<1>2. TimesInv /\ [TimesNext]_allVars => TimesInv'
  <2> SUFFICES ASSUME TimesInv, [TimesNext]_allVars PROVE TimesInv'
    OBVIOUS
  <2>1. CASE RoutineStep \/ StatusStep
    BY <2>1 DEF RoutineStep, StatusStep, TimesInv
  <2>2. CASE FreeStep
    BY <2>2, FreeNextInv DEF FreeStep, TimesInv
  <2>3. CASE DatesStep
    BY <2>3, LeafKept DEF DatesStep, TimesInv, LeafInv
  <2>4. CASE UNCHANGED allVars
    <3>1. part' = part /\ hour' = hour /\ leaf' = leaf
      BY <2>4 DEF allVars, freeVars, dateVars
    <3> QED
      BY <3>1 DEF TimesInv, LeafInv
  <2> QED
    BY <2>1, <2>2, <2>3, <2>4 DEF TimesNext
<1> QED
  BY <1>1, <1>2, PTL DEF TimesSpec

(* What get_free_minutes counts, day by day and slot by slot, is the time  *)
(* that is in no busy slot, between any two times; and the capacity of a   *)
(* day is the free time of it that is still to come, but for the current   *)
(* day after midnight: for any length of a day, any busy slots and any     *)
(* configured end of the day.                                              *)
THEOREM CapacityCounts == TimesSpec => []CapacityIsFree
<1>1. TimesInv => CapacityIsFree
  BY FreeTimeAssumption, FreeTimeCounts, CapacityOfDay DEF TimesInv, CapacityIsFree
<1> QED
  BY <1>1, TimesInvariance, PTL

(* Whatever the time is, a word is the same day to every command, a time   *)
(* of day the same time, and what is put off stays so (DateExpressions).   *)
THEOREM WordsAgree == TimesSpec => DatesAgree
<1> USE DatesAssumption
<1>1. TimesInv => (part = "dates" => Dates!DatesAgree)
  BY WordsNamed DEF TimesInv
<1>2. TimesInv /\ TimesInv' /\ [TimesNext]_allVars => [part = "dates" => Dates!PutsOff]_allVars
  <2> SUFFICES ASSUME TimesInv, TimesInv', TimesNext, part = "dates" PROVE Dates!PutsOff
    OBVIOUS
  <2>1. DatesStep
    BY DEF TimesNext, RoutineStep, StatusStep, FreeStep
  <2> QED
    BY <2>1, StepPutsOff DEF TimesInv, LeafInv, DatesStep
<1> QED
  BY <1>1, <1>2, TimesInvariance, PTL DEF TimesSpec, DatesAgree

=============================================================================
