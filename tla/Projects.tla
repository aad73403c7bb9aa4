------------------------------- MODULE Projects -------------------------------
(***************************************************************************)
(* The projects in memory: one tree that the commands change and its file  *)
(* is read into (TaskFile), the record of one task in such a file, field   *)
(* by field (TaskRecord), and the focus that is chosen among the leaves of *)
(* all trees (FocusSelection).  `part` says which kind of steps a          *)
(* behaviour is about; the variables of the others are at rest.            *)
(***************************************************************************)
EXTENDS TaskFile

CONSTANTS    \* of FocusSelection
    Members, ParentOf, FocusForests, Clock, Waits, Days, DayLength, Morning

CONSTANTS    \* of TaskRecord
    StatedTimes, Ticks, Amounts, Second, LongAgo, FarFuture, DefaultEstimate, Edited, Null, Ill,
    MaxChanges

CONSTANTS    \* of both
    PendingBuffer, ForceBuffer

VARIABLES
    part,             \* "tree", "file", "record" or "focus"
    tasks, now, sel,  \* of FocusSelection
    record, fresh, more, document, dirty, loading, changes   \* of TaskRecord

focusVars == <<tasks, now, sel>>
recordVars == <<record, fresh, more, document, dirty, loading, changes>>
projectVars == <<part, fileVars, focusVars, recordVars>>

Focus == INSTANCE FocusSelection WITH Tasks <- Members, Parent <- ParentOf, Forests <- FocusForests,
    NoDeadline <- NoTime

Record == INSTANCE TaskRecord WITH
    Times <- StatedTimes, NoDeadline <- NoTime, task <- record, file <- document, marked <- dirty

ASSUME FocusAssumption == Focus!Assumption

ASSUME RecordAssumption ==
    /\ StatedTimes \cup Ticks \subseteq Int /\ NoTime \notin Int
    /\ Amounts \cup {PendingBuffer, ForceBuffer} \subseteq Nat
    /\ Record!IsRecord

ProjectsInit ==
    \/ part = "tree" /\ Init
    \/ part = "file" /\ FileInit
    \/ part = "record" /\ Record!RecordInit
    \/ part = "focus" /\ Focus!Init

ProjectsNext ==
    \/ part = "tree" /\ Next /\ UNCHANGED <<part, work, file, marked, focusVars, recordVars>>
    \/ part = "file" /\ FileNext /\ UNCHANGED <<part, focusVars, recordVars>>
    \/ part = "record" /\ Record!RecordNext /\ UNCHANGED <<part, fileVars, focusVars>>
    \/ part = "focus" /\ Focus!Next /\ UNCHANGED <<part, fileVars, recordVars>>

ProjectsSpec == ProjectsInit /\ [][ProjectsNext]_projectVars

(* No command takes away from the walk to the leaves an open task that it  *)
(* reached, and a task put below one that it reached is reached as well    *)
(* (TaskTree!StaysInSight; reading a file again replaces the tree).        *)
(* The focus is chosen among what that walk finds, and who puts off one    *)
(* task after the other is shown one after the other (FocusSelection).     *)
StaysInSightOfAll ==
    /\ [][part # "file" => KeepsInSight /\ AddsInSight]_projectVars
    /\ [](part = "focus" => Focus!SelectionIsSound)
    /\ [][part = "focus" => Focus!SiftGoesOn]_projectVars

(* What is saved is read back: the tasks of a project (TaskFile) and every *)
(* attribute of a task, as it is and as another process, or the next one,  *)
(* makes of the file (TaskRecord).                                         *)
SavedIsRead ==
    /\ part = "file" => OpenWorkKept
    /\ part = "record" => Record!RecordIsKept
=============================================================================
