----------------------------- MODULE TaskTools -----------------------------
(***************************************************************************)
(* What the use cases of application/task_use_case.rs do to the tasks in   *)
(* memory, as the handlers of the MCP tools (adapter/mcp/handler.rs) call  *)
(* them.                                                                   *)
(*                                                                         *)
(* The tasks are a function from the ids in use to records.  A use case    *)
(* returns what it leaves in memory with "none" or the error it answers;   *)
(* new tasks take the ids it is given.  There is one deadline, so that     *)
(* what TaskTree says about several of them does not matter here; clock    *)
(* and repetition dates are those of TaskStatus and Repetition.            *)
(***************************************************************************)
EXTENDS Naturals, Sequences, FiniteSets, Functions

CONSTANTS
    Ids,        \* the ids tasks can get
    Minutes,    \* the estimates a client can send, in minutes
    MaxMinutes, \* the largest number of minutes whose seconds fit an i64
    Keep,       \* no estimate: an update leaves it alone
    NoTask      \* no parent

ASSUME ToolsAssumption == Minutes \subseteq Nat /\ MaxMinutes \in Nat /\ NoTask \notin Ids

SomeCategories == {"earning", "none"}
States == {"todo", "pending", "done"}

TaskRecord == [parent : Ids \cup {NoTask}, state : States, estimate : Nat, due : BOOLEAN,
               category : SomeCategories, routine : BOOLEAN]

\* A call, after its arguments were read: "read" the tools that change nothing.
\* An update that names no field is refused before (UpdateTaskInput).
ToolCalls ==
    [tool : {"read"}]
    \cup [tool : {"create"}, blank : BOOLEAN, estimate : Minutes \cup {Keep}, pending : BOOLEAN]
    \cup [tool : {"breakdown"}, task : Ids, names : 1..2, blank : BOOLEAN, pending : BOOLEAN]
    \cup [tool : {"defer"}, task : Ids]
    \cup [tool : {"complete"}, task : Ids, overflow : BOOLEAN]
    \cup {c \in [tool : {"update"}, task : Ids, estimate : Minutes \cup {Keep},
                 deadline : {"keep", "set", "clear"}, category : SomeCategories \cup {"keep"}] :
             c.estimate # Keep \/ c.deadline # "keep" \/ c.category # "keep"}

Mutates(c) == c.tool # "read"

\* The ids a call may give to new tasks.
Draws(c, used) ==
    LET n == CASE c.tool \in {"create", "complete"} -> 1 [] c.tool = "breakdown" -> c.names
               [] OTHER -> 0
    IN  {ids \in [1..n -> Ids \ used] : IsInjective(ids)}

-----------------------------------------------------------------------------
Fails(tasks, error) == [tasks |-> tasks, error |-> error]
Returns(tasks) == Fails(tasks, "none")

DefaultEstimate == 15
Estimated(minutes) == IF minutes = Keep THEN DefaultEstimate ELSE minutes
TooLong(minutes) == minutes # Keep /\ minutes > MaxMinutes

Children(tasks, t) == {u \in DOMAIN tasks : tasks[u].parent = t}

\* The way up from t, t and the project included: what every set has that has t
\* and with a task its parent.
Above(tasks, t) ==
    {a \in DOMAIN tasks : \A S \in SUBSET DOMAIN tasks :
        t \in S /\ (\A b \in S : tasks[b].parent \in DOMAIN tasks => tasks[b].parent \in S) => a \in S}

\* The project of t, of which there is one.
RootsOf(tasks, t) == {r \in Above(tasks, t) : tasks[r].parent = NoTask}

\* The tasks below and including t that a deadline of t is handed to: the
\* hand-down ends at what is done.
HandedTo(tasks, t) ==
    {u \in DOMAIN tasks :
        /\ t \in Above(tasks, u)
        /\ \A v \in Above(tasks, u) : t \in Above(tasks, v) => tasks[v].state # "done"}

Task(parent, pending, estimate, due) ==
    [parent |-> parent, state |-> IF pending THEN "pending" ELSE "todo", estimate |-> estimate,
     due |-> due, category |-> "none", routine |-> FALSE]

With(tasks, t, new) == [u \in DOMAIN tasks \cup {t} |-> IF u = t THEN new ELSE tasks[u]]

\* create_task: the estimate is looked at before the project is started.
CreateTask(tasks, c, ids) ==
    IF c.blank \/ TooLong(c.estimate) THEN Fails(tasks, "invalid_input")
    ELSE Returns(With(tasks, ids[1], Task(NoTask, c.pending, Estimated(c.estimate), FALSE)))

\* breakdown_task: every name is looked at first, then the children get what
\* the parent's deadline is.
BreakdownTask(tasks, c, ids) ==
    IF c.blank THEN Fails(tasks, "invalid_input")
    ELSE IF c.task \notin DOMAIN tasks THEN Fails(tasks, "task_not_found")
    ELSE LET child == Task(c.task, c.pending, DefaultEstimate, tasks[c.task].due)
             new == {ids[i] : i \in 1..c.names}
         IN  Returns([u \in DOMAIN tasks \cup new |-> IF u \in new THEN child ELSE tasks[u]])

DeferTask(tasks, c) ==
    IF c.task \notin DOMAIN tasks THEN Fails(tasks, "task_not_found")
    ELSE Returns([tasks EXCEPT ![c.task].state = "pending"])

\* complete_task: the next repetition is prepared before anything is changed,
\* and added below the routine at the end.
CompleteTask(tasks, c, ids) ==
    IF c.task \notin DOMAIN tasks THEN Fails(tasks, "task_not_found")
    ELSE LET parent == tasks[c.task].parent
             done == [tasks EXCEPT ![c.task].state = "done"]
         IN  IF \E u \in Children(tasks, c.task) : tasks[u].state # "done"
             THEN Fails(tasks, "has_undone_children")
             ELSE IF c.overflow THEN Fails(tasks, "invalid_input")
             ELSE IF parent = NoTask \/ ~ (parent \in DOMAIN tasks /\ tasks[parent].routine)
             THEN Returns(done)
             ELSE Returns(With(done, ids[1], Task(parent, FALSE, tasks[parent].estimate, TRUE)))

-----------------------------------------------------------------------------
SetEstimate(tasks, t, minutes) ==
    IF minutes > MaxMinutes THEN Fails(tasks, "invalid_input")
    ELSE IF t \notin DOMAIN tasks THEN Fails(tasks, "task_not_found")
    ELSE Returns([tasks EXCEPT ![t].estimate = minutes])

SetDeadline(tasks, t, due) ==
    IF t \notin DOMAIN tasks THEN Fails(tasks, "task_not_found")
    ELSE IF due THEN Returns([u \in DOMAIN tasks |->
                                IF u \in HandedTo(tasks, t) THEN [tasks[u] EXCEPT !.due = TRUE]
                                ELSE tasks[u]])
    ELSE Returns([tasks EXCEPT ![t].due = FALSE])

SetCategory(tasks, t, category) ==
    IF t \notin DOMAIN tasks THEN Fails(tasks, "task_not_found")
    ELSE Returns([u \in DOMAIN tasks |->
                    IF u \in RootsOf(tasks, t) THEN [tasks[u] EXCEPT !.category = category]
                    ELSE tasks[u]])

\* call_update_task: one use case after the other, the first error ends it.
\* The mutant looks at the estimate last.
UpdateTask_EstimateLast(tasks, c) ==
    LET one == IF c.category = "keep" THEN Returns(tasks) ELSE SetCategory(tasks, c.task, c.category)
        two == IF one.error # "none" \/ c.deadline = "keep" THEN one
               ELSE SetDeadline(one.tasks, c.task, c.deadline = "set")
    IN  IF two.error # "none" \/ c.estimate = Keep THEN two
        ELSE SetEstimate(two.tasks, c.task, c.estimate)
UpdateTask(tasks, c) ==
    LET one == IF c.estimate = Keep THEN Returns(tasks) ELSE SetEstimate(tasks, c.task, c.estimate)
        two == IF one.error # "none" \/ c.deadline = "keep" THEN one
               ELSE SetDeadline(one.tasks, c.task, c.deadline = "set")
    IN  IF two.error # "none" \/ c.category = "keep" THEN two
        ELSE SetCategory(two.tasks, c.task, c.category)

\* call_tool, once the arguments are read.
RunTool(tasks, c, ids) ==
    CASE c.tool = "read" -> Returns(tasks)
      [] c.tool = "create" -> CreateTask(tasks, c, ids)
      [] c.tool = "breakdown" -> BreakdownTask(tasks, c, ids)
      [] c.tool = "defer" -> DeferTask(tasks, c)
      [] c.tool = "complete" -> CompleteTask(tasks, c, ids)
      [] c.tool = "update" -> UpdateTask(tasks, c)
=============================================================================
