-------------------------------- MODULE MC_Tree --------------------------------
(***************************************************************************)
(* The task tree and its file for TLC.  `part` says what a behaviour is    *)
(* about: the shape of trees of four tasks, the estimates or the deadlines *)
(* on trees of three, the project file, the record of one task in it, or   *)
(* the focus that is chosen among the leaves of two trees.  The constants  *)
(* of this module take in those of every part about one tree, so that the  *)
(* properties are about all.                                               *)
(***************************************************************************)
EXTENDS Projects, TLC

CONSTANTS a, b, c,   \* tasks of the part about shape
          x, y       \* tasks of the others

-----------------------------------------------------------------------------
(* A project alone, one with a finished task, one with a routine.          *)
At(up, status, est, repeats) ==
    [up |-> up, status |-> status, ddl |-> NoTime, est |-> est, repeats |-> repeats]

Alone(est) == Root :> At(NoTask, "todo", est, FALSE)
WithFinished(t) == Alone(2) @@ (t :> At(Root, "done", 1, FALSE))
Routine(t, status) == (Root :> At(NoTask, status, 0, TRUE)) @@ (t :> At(Root, "todo", 0, FALSE))

TreesWith(t) == {Alone(2), WithFinished(t), Routine(t, "pending")}
TreesDue == {Alone(0), Routine(x, "pending")}
TreesFiled == {Alone(0), Routine(x, "todo")}

AnyTree == TreesWith(a) \cup TreesWith(x) \cup TreesDue \cup TreesFiled
AnyId == {Root, a, b, c, x, y}
OneHour == {60}
AnyWork == {60, -60}   \* a command can add less than nothing

Shape == INSTANCE TaskTree WITH
    Ids <- {Root, a, b, c}, Times <- {}, Efforts <- {1}, NewEffort <- 1, Repetitions <- 2,
    Trees <- TreesWith(a)
Work == INSTANCE TaskTree WITH
    Ids <- {Root, x, y}, Times <- {}, Efforts <- {0, 3}, NewEffort <- 1, Repetitions <- 1,
    Trees <- TreesWith(x)
Due == INSTANCE TaskTree WITH
    Ids <- {Root, x, y}, Times <- {1, 2}, Efforts <- {0}, NewEffort <- 0, Repetitions <- 1,
    Trees <- TreesDue
Filed == INSTANCE TaskFile WITH
    Ids <- {Root, x}, Times <- {1, 2}, Efforts <- {0}, NewEffort <- 0, Repetitions <- 1,
    Trees <- TreesFiled

-----------------------------------------------------------------------------
(* A project that may be finished, with a task that begins or is due late, *)
(* and one without subtasks; days of eight, that begin at 2.               *)
Leaf(st, start, ddl, prio) ==
    [orig |-> st, status |-> "todo", start |-> start, pend |-> 0, ddl |-> ddl, est |-> 2, act |-> 0,
     synced |-> 0, prio |-> prio]
SomeForests ==
    {<<Leaf(st, 0, NoTime, 1), Leaf("todo", s, d, p), Leaf("todo", 0, e, 1)>> :
        st \in {"done", "todo"}, s \in {0, 8}, d \in {NoTime, 6, 16}, e \in {NoTime, 8}, p \in {1, 2}}

ThreeTasks == 1..3
SomeParents == <<NoTask, 1, NoTask>>

-----------------------------------------------------------------------------
(* Files with everything left out, with one field that is right or wrong,  *)
(* and with the fields that act on each other; times in half seconds.      *)
OneField ==
    [status : {"TODO", Ill}] \cup [side : {TRUE, Ill}] \cup [atomic : {TRUE}] \cup [prio : {1, -1, Ill}]
    \cup [category : {"Earning", "theSignOfEarning", Null, Ill}] \cup [end : {4, Null}]
    \cup [est : {0, -2, Ill}] \cup [act : {-1, 2}] \cup [interval : {0, Ill}]
    \cup [anchor : {"Completion", Ill}] \cup [advance : {1, -1}] \cup [start : {Null}]
Together ==
    [status : {"todo", "Pending", "DONE"}, pend : {0, 6, Null, Ill}, ddl : {8, Null}]
    \cup [status : {"todo", "DONE"}, ddl : {8}, interval : {1}, end : {6}]
SomeEdited == {<< >>} \cup {f @@ [start |-> 4] : f \in {<< >>} \cup OneField \cup Together}

-----------------------------------------------------------------------------
RecordRests ==
    /\ record = << >> /\ fresh = TRUE /\ more = << >> /\ document = << >>
    /\ dirty = TRUE /\ loading = "start" /\ changes = 0
TreeRests == task = Alone(0) /\ work = [t \in Ids |-> 0] /\ file = << >> /\ marked = TRUE
FocusRests == tasks = << >> /\ now = 0 /\ sel = << >>
FileRests == FocusRests /\ work = [t \in Ids |-> 0] /\ file = << >> /\ marked = TRUE

TreeInit ==
    \/ part = "shape" /\ Shape!Init /\ FileRests /\ RecordRests
    \/ part = "work" /\ Work!Init /\ FileRests /\ RecordRests
    \/ part = "due" /\ Due!Init /\ FileRests /\ RecordRests
    \/ part = "file" /\ Filed!FileInit /\ FocusRests /\ RecordRests
    \/ part = "record" /\ TreeRests /\ FocusRests /\ Record!RecordInit
    \/ part = "focus" /\ TreeRests /\ Focus!Init /\ RecordRests

CommandStep ==
    /\ \/ part = "shape" /\ Shape!Next
       \/ part = "work" /\ Work!Next
       \/ part = "due" /\ Due!Next
    /\ UNCHANGED <<part, work, file, marked, focusVars, recordVars>>
FileStep == part = "file" /\ Filed!FileNext /\ UNCHANGED <<part, focusVars, recordVars>>
RecordStep == part = "record" /\ Record!RecordNext /\ UNCHANGED <<part, fileVars, focusVars>>
FocusStep == part = "focus" /\ Focus!Next /\ UNCHANGED <<part, fileVars, recordVars>>

TreeNext == CommandStep \/ FileStep \/ RecordStep \/ FocusStep

TreeSpec == TreeInit /\ [][TreeNext]_projectVars

\* The tasks but the project are interchangeable.
AreAlike == Permutations({a, b, c}) \cup Permutations({x, y})
=============================================================================
