------------------------------ MODULE TaskRecord ------------------------------
(***************************************************************************)
(* A task as it is in a project file, attribute by attribute: task_to_yaml *)
(* in entity/task.rs and yaml_to_task_strict in adapter/gateway/yaml.rs.   *)
(* The writer leaves out what is as in a new task, and the reader puts it  *)
(* in again; a file may also have been edited by hand.  What two processes *)
(* make of one file depends on their clocks as well (TaskStatus).  The     *)
(* children are in TaskFile; a name is there and an id is kept.            *)
(***************************************************************************)
EXTENDS TaskStatus, Functions

CONSTANTS
    Second,           \* times are finer than this, their text is not
    LongAgo,          \* MIN_UTC, that a task does not wait for
    FarFuture,        \* 2037/12/31 23:59:59, that a routine waits for
    DefaultEstimate,  \* 900 seconds
    Edited,           \* what may be in the file: some fields and their values
    Null,             \* a field with nothing after it
    Ill,              \* a value that is not of the kind or the format its field has
    MaxChanges        \* bound: no more changes to the task than that

VARIABLES
    more,    \* the attributes the status does not depend on
    file,    \* the file: a function from the fields in it
    marked,  \* the task has changed since it was read or saved
    loading, \* "start", "loaded", or "refused" by the reader
    changes  \* how many there were, those of the clock not counted

recordVars == <<statusVars, more, file, marked, loading, changes>>

-----------------------------------------------------------------------------
(* Writing.                                                                *)

\* TaskAttr::with_identity.  Its start is the time it is created at.
Default ==
    [status |-> "todo", side |-> FALSE, atomic |-> FALSE, pend |-> LongAgo, prio |-> 0,
     category |-> "none", start |-> Null, end |-> NoDeadline, ddl |-> NoDeadline,
     est |-> DefaultEstimate, act |-> 0, interval |-> 0, anchor |-> "deadline", advance |-> 0]

Fields == DOMAIN Default

\* A time is written to the second.
Whole(time) == IF time = NoDeadline THEN time ELSE time - (time % Second)

Told(t, m) ==
    [status |-> t.orig, side |-> m.side, atomic |-> m.atomic, pend |-> Whole(t.pend),
     prio |-> m.prio, category |-> m.category, start |-> Whole(t.start), end |-> Whole(m.end),
     ddl |-> Whole(t.ddl), est |-> t.est, act |-> t.act, interval |-> m.interval,
     anchor |-> m.anchor, advance |-> m.advance]

\* Of a project, and not of the tasks in it.
OfProject == {"prio", "category"}

Written(t, m) ==
    LET told == Told(t, m)
    IN  Restrict(told, {f \in Fields : told[f] # Default[f] /\ (f \in OfProject => m.root)})

-----------------------------------------------------------------------------
(* Reading.                                                                *)

\* read_status, read_project_category: any case will do, and a sign.
Spellings ==
    [TODO |-> "todo", Pending |-> "pending", DONE |-> "done", Completion |-> "completion",
     Earning |-> "earning", theSignOfEarning |-> "earning"]

Meaning(field, value) ==
    IF field \in {"status", "category", "anchor"} /\ value \in DOMAIN Spellings
    THEN Spellings[value]
    ELSE value

Takes(field, value) ==
    IF value = Null THEN field \in {"category", "end", "ddl"}
    ELSE /\ value # Ill
         /\ field \in {"est", "act", "advance"} => value >= 0
         /\ field = "interval" => value > 0

IsTaken(f) == \A field \in DOMAIN f : Takes(field, f[field])

\* What is not there is as in a new task, created now.
Got(f, now) ==
    [field \in Fields |->
        IF field \in DOMAIN f /\ f[field] # Null THEN Meaning(field, f[field])
        ELSE IF field = "start" THEN now
        ELSE Default[field]]

\* The status is set before the deadline, which no finished task takes; and a
\* routine waits, whatever its status was.
ReadTask(got, now) ==
    LET routine == got.interval > 0
    IN  Evaluated(
            [orig |-> IF routine THEN "pending" ELSE got.status, status |-> "todo",
             start |-> got.start, pend |-> IF routine THEN FarFuture ELSE got.pend,
             ddl |-> IF got.status = "done" THEN NoDeadline ELSE got.ddl,
             est |-> got.est, act |-> got.act, synced |-> now])

\* A task in a project has the priority and the category of the project.
ReadMore(got, root) ==
    [root |-> root, side |-> got.side, atomic |-> got.atomic,
     prio |-> IF root THEN got.prio ELSE Default.prio,
     category |-> IF root THEN got.category ELSE Default.category,
     end |-> got.end, interval |-> got.interval, anchor |-> got.anchor, advance |-> got.advance]

-----------------------------------------------------------------------------
(* What the constants have to be: a file has values of the kind its fields *)
(* have, and whole seconds, where it has no Null and nothing Ill.          *)
WholeTimes == {time \in Int : time % Second = 0}

Values ==
    [status |-> Statuses \cup {"TODO", "Pending", "DONE"}, side |-> BOOLEAN, atomic |-> BOOLEAN,
     pend |-> WholeTimes, prio |-> Int,
     category |-> {"none", "earning", "Earning", "theSignOfEarning"},
     start |-> WholeTimes, end |-> WholeTimes, ddl |-> WholeTimes, est |-> WholeTimes, act |-> Int,
     interval |-> Int, anchor |-> {"deadline", "completion", "Completion"}, advance |-> Int]

IsText(f) ==
    /\ DOMAIN f \subseteq Fields
    /\ \A field \in DOMAIN f : f[field] \in {Null, Ill} \/ f[field] \in Values[field]

IsRecord ==
    /\ Second \in Nat \ {0}
    /\ {LongAgo, FarFuture, PendingBuffer, DefaultEstimate} \cup Amounts \subseteq WholeTimes
    /\ DefaultEstimate >= 0
    /\ \A field \in Fields : Null \notin Values[field] /\ Ill \notin Values[field]
    /\ NoDeadline \notin {Null, Ill}
    /\ \A f \in Edited : IsText(f)

-----------------------------------------------------------------------------
RecordInit ==
    /\ file \in Edited
    /\ \E root \in BOOLEAN : more = ReadMore(Default, root)
    /\ task = ReadTask([Default EXCEPT !.start = 0], 0) /\ fresh = TRUE
    /\ marked = FALSE /\ loading = "start" /\ changes = 0

\* The program starts, or finds that another one has saved.
Load(now) ==
    /\ loading # "refused" /\ now >= task.synced
    /\ UNCHANGED <<file, changes>>
    /\ IF IsTaken(file)
       THEN /\ Evaluates(ReadTask(Got(file, now), now))
            /\ more' = ReadMore(Got(file, now), more.root)
            /\ marked' = FALSE /\ loading' = "loaded"
       ELSE loading' = "refused" /\ UNCHANGED <<statusVars, more, marked>>

Loaded == loading = "loaded"

\* What of a task is in a file.
Persistent(t) == <<t.orig, t.start, t.pend, t.ddl, t.est, t.act>>

\* TaskHandle::update.
Touch ==
    /\ marked' = (marked \/ Persistent(task') # Persistent(task) \/ more' # more)
    /\ IF task'.synced # task.synced THEN UNCHANGED changes
       ELSE changes < MaxChanges /\ changes' = changes + 1
    /\ UNCHANGED <<file, loading>>

\* The setters of TaskStatus; sync_clock changes what it puts off no further
\* than a deadline allows.
SetStatus == Loaded /\ StatusNext /\ UNCHANGED more /\ Touch

SetMore(m) == Loaded /\ more' = m /\ UNCHANGED statusVars /\ Touch

WaitForOthers == SetMore([more EXCEPT !.side = TRUE])
SetPriority == more.root /\ SetMore([more EXCEPT !.prio = 1])
SetCategory == more.root /\ \E c \in {"none", "earning"} : SetMore([more EXCEPT !.category = c])

Finish ==
    /\ Loaded
    /\ Evaluates([task EXCEPT !.orig = "done"])
    /\ more' = [more EXCEPT !.end = task.synced]
    /\ Touch

Save ==
    /\ Loaded
    /\ file' = IF marked THEN Written(task, more) ELSE file
    /\ marked' = FALSE
    /\ UNCHANGED <<statusVars, more, loading, changes>>

RecordNext ==
    \/ \E now \in Ticks : Load(now)
    \/ SetStatus \/ WaitForOthers \/ SetPriority \/ SetCategory \/ Finish
    \/ Save

RecordSpec == RecordInit /\ [][RecordNext]_recordVars

-----------------------------------------------------------------------------
(***************************************************************************)
(* Properties                                                              *)
(***************************************************************************)
SeenBy(f, now) == [task |-> ReadTask(Got(f, now), now), more |-> ReadMore(Got(f, now), more.root)]

\* To the second.
Rounded(t) == [t EXCEPT !.start = Whole(@), !.pend = Whole(@), !.ddl = Whole(@)]

\* Two processes whose clocks agree see one task, the one that has it in memory
\* since it read or saved it and the one that reads it now: every attribute and
\* the status that is derived from them.  Left out are finished tasks and
\* routines, and of edited files those that say no start; a fraction of a second
\* is lost, and with it a moment of the status.
SavedIsSeen ==
    LET seen == SeenBy(file, task.synced)
    IN  Loaded /\ ~ marked /\ fresh /\ task.orig # "done" /\ more.interval = 0 /\ "start" \in DOMAIN file =>
        /\ seen.more = [more EXCEPT !.end = Whole(@)]
        /\ Rounded(task) = task => seen.task = task
        /\ seen.task.start = Whole(task.start) /\ seen.task.ddl = Whole(task.ddl)

\* What a process makes of a file, any file it takes, is what the next one makes
\* of it after that process has saved it: of finished tasks and of routines too.
ReadingSettles ==
    LET once == SeenBy(file, task.synced)
    IN  IsTaken(file) /\ "start" \in DOMAIN file =>
        LET again == Written(once.task, once.more)
        IN  IsTaken(again) /\ SeenBy(again, task.synced) = once

RecordIsKept == SavedIsSeen /\ ReadingSettles
=============================================================================
