---------------------------- MODULE TaskService ----------------------------
(***************************************************************************)
(* What an MCP client may rely on, without memory, files, revisions and    *)
(* locks: there are the tasks, shared with everybody else, and a session.  *)
(* Every call either takes its whole effect on the tasks as they are, or   *)
(* changes nothing.  It is "refused" only when it does not make sense for  *)
(* the tasks as they are, "unavailable" when the storage could not be      *)
(* used, and "broken" when nobody can say whether it took effect; then     *)
(* the session is of no more use.                                          *)
(***************************************************************************)
EXTENDS TaskTools

VARIABLES tasks, session, reply

vars == <<tasks, session, reply>>

Is(kind) == [is |-> kind]

\* A call makes sense: what it names is there, what it wants can be done.
Sensible(c) ==
    /\ c.tool \in {"breakdown", "defer", "complete", "update"} => c.task \in DOMAIN tasks
    /\ c.tool \in {"create", "breakdown"} => ~ c.blank
    /\ c.tool \in {"create", "update"} => (c.estimate = Keep \/ c.estimate \in 0..MaxMinutes)
    /\ c.tool = "complete" =>
         /\ ~ c.overflow
         /\ \A u \in Children(tasks, c.task) : tasks[u].state = "done"

\* A whole effect: for the tasks that were there, what each field becomes.
Effect(c) ==
    LET Named(t) == c.tool # "create" /\ t = c.task
        Updated(t) == c.tool = "update" /\ Named(t)
        Handed(t) == c.tool = "update" /\ c.deadline = "set" /\ t \in HandedTo(tasks, c.task)
    IN  [t \in DOMAIN tasks |->
           [tasks[t] EXCEPT
              !.state = CASE c.tool = "defer" /\ Named(t) -> "pending"
                          [] c.tool = "complete" /\ Named(t) -> "done"
                          [] OTHER -> @,
              !.estimate = IF Updated(t) /\ c.estimate # Keep THEN c.estimate ELSE @,
              !.due = (@ \/ Handed(t)) /\ ~ (Updated(t) /\ c.deadline = "clear"),
              !.category = IF c.tool = "update" /\ c.category # "keep" /\ t \in RootsOf(tasks, c.task)
                           THEN c.category ELSE @]]

Adds(c) ==
    CASE c.tool = "create" -> Task(NoTask, c.pending, Estimated(c.estimate), FALSE)
      [] c.tool = "breakdown" -> Task(c.task, c.pending, DefaultEstimate, tasks[c.task].due)
      [] c.tool = "complete" ->
            Task(tasks[c.task].parent, FALSE, tasks[tasks[c.task].parent].estimate, TRUE)

Repeats(c) == tasks[c.task].parent \in DOMAIN tasks /\ tasks[tasks[c.task].parent].routine

TakesEffect(c) ==
    LET n == CASE c.tool = "create" -> 1 [] c.tool = "breakdown" -> c.names
               [] c.tool = "complete" /\ Repeats(c) -> 1 [] OTHER -> 0
    IN  \E new \in SUBSET (Ids \ DOMAIN tasks) :
           /\ Cardinality(new) = n
           /\ tasks' = [t \in DOMAIN tasks \cup new |->
                          IF t \in new THEN Adds(c) ELSE Effect(c)[t]]

-----------------------------------------------------------------------------
Init ==
    /\ DOMAIN tasks \subseteq Ids /\ \A t \in DOMAIN tasks : tasks[t] \in TaskRecord
    /\ session = "closed" /\ reply = Is("nothing")

Open == session' = (IF session = "closed" THEN "greeted" ELSE "open")
        /\ session \in {"closed", "greeted"} /\ reply' = Is("protocol") /\ UNCHANGED tasks

\* A call, or something else, answered with an error of the protocol.
Protocol == reply' = Is("protocol") /\ UNCHANGED <<tasks, session>>

Do(c) == session = "open" /\ Mutates(c) /\ Sensible(c) /\ TakesEffect(c)
         /\ reply' = Is("done") /\ UNCHANGED session

Show == session = "open" /\ reply' = [is |-> "shown", tasks |-> tasks] /\ UNCHANGED <<tasks, session>>

Refuse(c) == session = "open" /\ ~ Sensible(c) /\ reply' = Is("refused") /\ UNCHANGED <<tasks, session>>

Unavailable == session = "open" /\ reply' = Is("unavailable") /\ UNCHANGED <<tasks, session>>

Break(c) ==
    /\ session = "open" /\ Sensible(c)
    /\ TakesEffect(c) \/ UNCHANGED tasks
    /\ session' = "lost" /\ reply' = Is("broken")

Lost == session = "lost" /\ reply' = Is("lost") /\ UNCHANGED <<tasks, session>>

\* Another process works on the tasks, or the server is started again.
Elsewhere(c) == Sensible(c) /\ TakesEffect(c) /\ UNCHANGED <<session, reply>>

Restart == session' = "closed" /\ reply' = Is("nothing") /\ UNCHANGED tasks

Next ==
    \/ Open \/ Protocol \/ Show \/ Unavailable \/ Lost \/ Restart
    \/ \E c \in ToolCalls : Do(c) \/ Refuse(c) \/ Break(c) \/ Elsewhere(c)

Spec == Init /\ [][Next]_vars
=============================================================================
