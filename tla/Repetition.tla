------------------------------ MODULE Repetition ------------------------------
(***************************************************************************)
(* Repeated tasks: completion and the next occurrence in                   *)
(* application/task_use_case.rs, deferring one routine or all of them in   *)
(* controller/schronu/runtime.rs.                                          *)
(*                                                                         *)
(* A routine is a task with an interval of days; its children are its      *)
(* occurrences.  The routine's own start and deadline only lend their time *)
(* of day.  Deferring all routines is a loop inside one command: while it  *)
(* runs the command holds the storage and nothing else happens.            *)
(***************************************************************************)
EXTENDS BusinessTime, Sequences, FiniteSets

CONSTANTS
    Routines,        \* the routines a project file can hold: see Routine
    Starts,          \* the start times a user can set on an occurrence
    Deadlines,       \* the deadlines a user can set on an occurrence
    RoutineDeadlines,\* the deadlines a user can set on the routine
    Clock,           \* the times the clock can show
    Efforts,         \* estimates and work, in seconds
    MaxOccurrences,  \* bound: occurrences of a routine
    Horizon,         \* bound: what starts or is due after it is not put off
    NoTime           \* no deadline

ASSUME RoutinesAssumption ==
    Routines \subseteq [est : Int, start : Int, ddl : Int \cup {NoTime},
                        interval : Nat \ {0}, anchor : {"deadline", "completion"}, advance : Nat]
ASSUME RangesAssumption ==
    /\ Starts \subseteq Int /\ Deadlines \subseteq Int /\ RoutineDeadlines \subseteq Int
    /\ Clock \subseteq Int /\ Efforts \subseteq Nat /\ Horizon \in Int
    /\ NoTime \notin Int

VARIABLES
    routine,   \* the repeated task
    occ,       \* its occurrences, the oldest first
    now,       \* the time the repository was last synchronised with
    sweeping,  \* all frequent routines are being deferred
    rest       \* the occurrences still to be deferred in this round

vars == <<routine, occ, now, sweeping, rest>>

MaxFrequentInterval == 7
MinOverdue == 24 * Hour

Smaller(a, b) == IF a <= b THEN a ELSE b
Larger(a, b) == IF a >= b THEN a ELSE b
Quarter(d) == IF d >= 0 THEN d \div 4 ELSE -((-d) \div 4)
WholeDays(d) == IF d >= 0 THEN d \div Day ELSE -((-d) \div Day)

(***************************************************************************)
(* Completion and the next occurrence                                      *)
(***************************************************************************)
\* Three quarters of the way up to the work, one quarter of the way down.
AdjustedEstimate_Unweighted(est, work) ==
    IF work <= 0 \/ work = est THEN est
    ELSE IF work > est THEN est + 3 * (work - est)
    ELSE Larger(60, est + Quarter(work - est))
AdjustedEstimate(est, work) ==
    IF work <= 0 \/ work = est THEN est
    ELSE IF work > est THEN est + (3 * (work - est)) \div 4
    ELSE Larger(60, est + Quarter(work - est))

Anchor_Swapped(o, finished) ==
    IF routine.anchor = "completion" /\ o.ddl # NoTime THEN o.ddl ELSE finished
Anchor(o, finished) ==
    IF routine.anchor = "deadline" /\ o.ddl # NoTime THEN o.ddl ELSE finished

NextOccurrenceDay(o, finished) ==
    DateOf(NextBusinessDayStart(Anchor(o, finished))) + routine.interval - 1

NextOccurrence(o, finished, est) ==
    LET day == NextOccurrenceDay(o, finished)
        ddlTime == IF routine.ddl = NoTime THEN LastSecond ELSE TimeOfDay(routine.ddl)
    IN  [start |-> At(day, TimeOfDay(routine.start)) - routine.advance * Day,
         ddl   |-> At(day, ddlTime),
         est   |-> est, act |-> 0, done |-> FALSE]

Idle == ~sweeping

\* complete_task, with any finishing time an MCP client sends.  Nothing asks
\* whether the occurrence is done already.
Complete_Last(i, work, finished) ==
    /\ Idle /\ Len(occ) < MaxOccurrences
    /\ occ' = [occ EXCEPT ![i].act = @ + work, ![i].done = TRUE]
    /\ UNCHANGED <<routine, now, sweeping, rest>>
Complete(i, work, finished) ==
    LET worked == occ[i].act + work
        est == AdjustedEstimate(routine.est, worked)
        next == NextOccurrence(occ[i], finished, est)
    IN  /\ Idle /\ Len(occ) < MaxOccurrences
        /\ occ' = Append([occ EXCEPT ![i].act = worked, ![i].done = TRUE], next)
        /\ routine' = [routine EXCEPT !.est = est]
        /\ UNCHANGED <<now, sweeping, rest>>

(***************************************************************************)
(* Deferring                                                               *)
(***************************************************************************)
\* A deadline that is set never makes another one later, and is ignored by
\* what is done.
Advanced(o, d) ==
    IF o.done THEN o ELSE [o EXCEPT !.ddl = IF @ = NoTime THEN d ELSE Smaller(@, d)]

DeferredDeadline_Date(o) ==
    IF routine.ddl = NoTime THEN o.ddl + routine.interval * Day
    ELSE At(DateOf(o.ddl) + routine.interval - 1, TimeOfDay(routine.ddl))
DeferredDeadline(o) ==
    IF routine.ddl = NoTime THEN o.ddl + routine.interval * Day
    ELSE At(DateOf(NextBusinessDayStart(o.ddl)) + routine.interval - 1, TimeOfDay(routine.ddl))

StartShift(d) == WholeDays(d)

\* execute_defer_routine: a finished occurrence is opened again, and its
\* deadline, taken away first, is not set while it is still finished.
Deferred(o) ==
    LET d == DeferredDeadline(o)
    IN  [Advanced([o EXCEPT !.ddl = NoTime], d)
            EXCEPT !.done = FALSE, !.start = @ + StartShift(d - o.ddl) * Day]

DeferRoutine(i) ==
    /\ Idle /\ occ[i].ddl # NoTime
    /\ occ[i].ddl <= Horizon /\ occ[i].start <= Horizon
    /\ occ' = [occ EXCEPT ![i] = Deferred(@)]
    /\ UNCHANGED <<routine, now, sweeping, rest>>

\* An occurrence without subtasks is a leaf, and a leaf so long overdue is
\* due (TaskStatus).
Overdue ==
    {i \in DOMAIN occ :
        /\ ~occ[i].done /\ occ[i].ddl # NoTime
        /\ routine.interval <= MaxFrequentInterval
        /\ now - occ[i].ddl >= MinOverdue}

DeferAll ==
    /\ Idle /\ \A i \in DOMAIN occ : occ[i].start <= Horizon
    /\ sweeping' = TRUE
    /\ UNCHANGED <<routine, occ, now, rest>>

\* The loop ends with a round that finds nothing to defer.
SweepRound_FromZero ==
    /\ sweeping /\ rest = {}
    /\ rest' = {i - 1 : i \in Overdue}
    /\ sweeping' = (Overdue # {})
    /\ UNCHANGED <<routine, occ, now>>
SweepRound ==
    /\ sweeping /\ rest = {}
    /\ rest' = Overdue
    /\ sweeping' = (Overdue # {})
    /\ UNCHANGED <<routine, occ, now>>

SweepDefer(i) ==
    /\ sweeping /\ i \in rest
    /\ occ' = [occ EXCEPT ![i] = Deferred(@)]
    /\ rest' = rest \ {i}
    /\ UNCHANGED <<routine, now, sweeping>>

(***************************************************************************)
(* The user's changes                                                      *)
(***************************************************************************)
Tick == \E c \in Clock : Idle /\ c > now /\ now' = c /\ UNCHANGED <<routine, occ, sweeping, rest>>

SetStart(i, s) ==
    /\ Idle
    /\ occ' = [occ EXCEPT ![i].start = s]
    /\ UNCHANGED <<routine, now, sweeping, rest>>

SetDeadline(i, d) ==
    /\ Idle
    /\ occ' = [occ EXCEPT ![i] = Advanced(@, d)]
    /\ UNCHANGED <<routine, now, sweeping, rest>>

UnsetDeadline(i) ==
    /\ Idle
    /\ occ' = [occ EXCEPT ![i].ddl = NoTime]
    /\ UNCHANGED <<routine, now, sweeping, rest>>

\* The routine's deadline comes earlier, and with it those of its open
\* occurrences.
SetRoutineDeadline(d) ==
    LET effective == IF routine.ddl = NoTime THEN d ELSE Smaller(routine.ddl, d)
    IN  /\ Idle
        /\ routine' = [routine EXCEPT !.ddl = effective]
        /\ occ' = [i \in DOMAIN occ |-> Advanced(occ[i], effective)]
        /\ UNCHANGED <<now, sweeping, rest>>

\* execute_set_arrange_children_work_minutes.
Arrange(est, includesZero) ==
    /\ Idle
    /\ occ' = [i \in DOMAIN occ |->
                  IF occ[i].done \/ (occ[i].est = 0 /\ ~includesZero) THEN occ[i]
                  ELSE [occ[i] EXCEPT !.est = est]]
    /\ UNCHANGED <<routine, now, sweeping, rest>>

Init ==
    /\ routine \in Routines
    /\ \E s \in Starts, d \in Deadlines, e \in Efforts :
          occ = <<[start |-> s, ddl |-> d, est |-> e, act |-> 0, done |-> FALSE]>>
    /\ now \in Clock
    /\ sweeping = FALSE
    /\ rest = {}

Edit ==
    \/ \E i \in DOMAIN occ, s \in Starts : SetStart(i, s)
    \/ \E i \in DOMAIN occ, d \in Deadlines : SetDeadline(i, d)
    \/ \E i \in DOMAIN occ : UnsetDeadline(i)
    \/ \E d \in RoutineDeadlines : SetRoutineDeadline(d)
    \/ \E e \in Efforts, z \in BOOLEAN : Arrange(e, z)

Sweep == SweepRound \/ \E i \in rest : SweepDefer(i)

Next ==
    \/ Tick
    \/ \E i \in DOMAIN occ, w \in Efforts, f \in Clock : Complete(i, w, f)
    \/ \E i \in DOMAIN occ : DeferRoutine(i)
    \/ DeferAll \/ Sweep
    \/ Edit

Spec == Init /\ [][Next]_vars

\* The loop of one command goes on.
FairSpec == Spec /\ WF_vars(Sweep)
-----------------------------------------------------------------------------
(***************************************************************************)
(* Properties                                                              *)
(***************************************************************************)
Occurrence ==
    [start : Int, ddl : Int \cup {NoTime}, est : Int, act : Nat, done : BOOLEAN]

TypeOK ==
    /\ routine \in [est : Int, start : Int, ddl : Int \cup {NoTime}, interval : Nat \ {0},
                    anchor : {"deadline", "completion"}, advance : Nat]
    /\ occ \in Seq(Occurrence)
    /\ now \in Int
    /\ sweeping \in BOOLEAN
    /\ rest \subseteq DOMAIN occ

\* A routine never dies out: whatever is completed, put off or edited, one of
\* its occurrences is open.
GoesOn == \E i \in DOMAIN occ : ~occ[i].done

\* The deadline a routine takes its time of day from is in the day time, as
\* the business day is: not between midnight and 06:00.
ByDay == routine.ddl = NoTime \/ TimeOfDay(routine.ddl) >= Morning

\* Deferring an open occurrence makes its deadline later and never leaves
\* less time between its start and its deadline (the start moves by whole
\* days, rounded towards less).
DefersForward ==
    [][\A i \in DOMAIN occ :
          /\ ByDay /\ ~occ[i].done
          /\ DeferRoutine(i) \/ SweepDefer(i)
          => /\ occ'[i].ddl > occ[i].ddl
             /\ occ'[i].ddl - occ'[i].start >= occ[i].ddl - occ[i].start]_vars

\* "Extends the deadline by the interval" as the comment on
\* execute_defer_routine has it: for every occurrence and every routine.
DeferExtendsDeadline ==
    [][\A i \in DOMAIN occ :
          DeferRoutine(i) => occ'[i].ddl # NoTime /\ occ'[i].ddl > occ[i].ddl]_vars

\* The next occurrence is due after the one it follows, counted from the
\* deadline or from the completion.
NextIsLater ==
    [][\A i \in DOMAIN occ, w \in Efforts, f \in Clock :
          ByDay /\ Complete(i, w, f)
          => occ'[Len(occ')].ddl >
                IF routine.anchor = "deadline" /\ occ[i].ddl # NoTime THEN occ[i].ddl ELSE f]_vars

\* Completing moves the routine's estimate towards the work that was done,
\* never past it (an estimate of at least a minute, the smallest the
\* adjustment goes down to).
EstimateFollowsWork ==
    [][\A i \in DOMAIN occ, w \in Efforts, f \in Clock :
          Complete(i, w, f) /\ routine.est >= 60 /\ occ'[i].act > 0
          => \/ routine.est <= routine'.est /\ routine'.est <= occ'[i].act
             \/ occ'[i].act <= routine'.est /\ routine'.est <= routine.est
             \/ occ'[i].act < 60 /\ routine'.est = 60]_vars

\* Deferring all frequent routines comes to an end.
SweepEnds == sweeping ~> ~sweeping
=============================================================================
