-------------------------- MODULE McpServer_proofs --------------------------
(***************************************************************************)
(* What an MCP session answers from is what is stored, and the server is   *)
(* the service TaskService promises, for any tasks, any calls of the       *)
(* client and any changes of other processes.                              *)
(*                                                                         *)
(* MemoryIsFile is inductive as it stands.  The step that needs an         *)
(* argument is the refused call: what the tool leaves in memory is what it *)
(* found there (RefusedChangesNothing), although update_task runs three    *)
(* use cases one after the other.  The estimate comes first, and only the  *)
(* estimate can be refused for a task that is there.                       *)
(*                                                                         *)
(* For the service the stored tasks have to be well typed as well          *)
(* (ServerInv), and each tool is shown to have the effect the service      *)
(* names (CallTakesEffect), to run only when that is sensible              *)
(* (DoneIsSensible) and to refuse only when it is not                      *)
(* (RefusedIsNotSensible).                                                 *)
(*                                                                         *)
(* The decoder of the arguments and the published schema agree value by    *)
(* value (ValuesAgree); what is left is that the first error is one of the *)
(* errors, whatever the order (FirstErrorIsOne).                           *)
(*                                                                         *)
(* Interfaces puts the server beside what else is typed, sent, read and    *)
(* followed: the decoder, the lines, the editor, a run of the program, the *)
(* configuration and the link.  Its parts share no variable, so each has   *)
(* an invariant of its own (DecoderInv, LineInv, EditorInv, RunInv,        *)
(* ConfigInv, LinkInv), and InterfacesInv is all of them.                  *)
(***************************************************************************)
EXTENDS Interfaces, FiniteSums, SequenceTheorems

(* Once an update has found the task, the later use cases find it too:     *)
(* none of them takes a task away.                                         *)
LEMMA EstimateKeepsTasks ==
  ASSUME NEW tasks, NEW t, NEW minutes, SetEstimate(tasks, t, minutes).error = "none"
  PROVE  /\ t \in DOMAIN tasks
         /\ DOMAIN SetEstimate(tasks, t, minutes).tasks = DOMAIN tasks
  BY DEF SetEstimate, Fails, Returns

LEMMA DeadlineKeepsTasks ==
  ASSUME NEW tasks, NEW t, NEW due, SetDeadline(tasks, t, due).error = "none"
  PROVE  /\ t \in DOMAIN tasks
         /\ DOMAIN SetDeadline(tasks, t, due).tasks = DOMAIN tasks
  BY DEF SetDeadline, Fails, Returns

(* Each use case of an update fails without a change, and the two later    *)
(* ones only for a task that is not there (task_use_case.rs:438-486).      *)
LEMMA FailuresChangeNothing ==
  ASSUME NEW tasks, NEW t, NEW x
  PROVE  /\ SetEstimate(tasks, t, x).error # "none" => SetEstimate(tasks, t, x).tasks = tasks
         /\ SetDeadline(tasks, t, x).error # "none" =>
              t \notin DOMAIN tasks /\ SetDeadline(tasks, t, x).tasks = tasks
         /\ SetCategory(tasks, t, x).error # "none" =>
              t \notin DOMAIN tasks /\ SetCategory(tasks, t, x).tasks = tasks
  BY DEF SetEstimate, SetDeadline, SetCategory, Fails, Returns

LEMMA RefusedUpdate ==
  ASSUME NEW tasks, NEW c, UpdateTask(tasks, c).error # "none"
  PROVE  UpdateTask(tasks, c).tasks = tasks
<1> DEFINE one == IF c.estimate = Keep THEN Returns(tasks) ELSE SetEstimate(tasks, c.task, c.estimate)
           two == IF one.error # "none" \/ c.deadline = "keep" THEN one
                  ELSE SetDeadline(one.tasks, c.task, c.deadline = "set")
           three == IF two.error # "none" \/ c.category = "keep" THEN two
                    ELSE SetCategory(two.tasks, c.task, c.category)
<1>1. UpdateTask(tasks, c) = three
  BY DEF UpdateTask
<1>2. /\ one.error # "none" => one.tasks = tasks
      /\ one.error = "none" => one.tasks = tasks \/ (c.task \in DOMAIN tasks /\ c.task \in DOMAIN one.tasks)
  BY EstimateKeepsTasks, FailuresChangeNothing DEF Returns, Fails
<1>3. /\ two.error # "none" => two.tasks = tasks
      /\ two.error = "none" => two.tasks = tasks \/ c.task \in DOMAIN two.tasks
  <2> HIDE DEF one
  <2>1. CASE one.error # "none" \/ c.deadline = "keep"
    BY <2>1, <1>2
  <2>2. CASE ~ (one.error # "none" \/ c.deadline = "keep")
    <3>1. two = SetDeadline(one.tasks, c.task, c.deadline = "set")
      BY <2>2
    <3>2. CASE two.error = "none"
      BY <3>1, <3>2, DeadlineKeepsTasks
    <3>3. CASE two.error # "none"
      BY <2>2, <3>1, <3>3, <1>2, FailuresChangeNothing
    <3> QED
      BY <3>2, <3>3
  <2> QED
    BY <2>1, <2>2
<1>4. three.error # "none" => three.tasks = tasks
  <2> HIDE DEF two
  <2>1. CASE two.error # "none" \/ c.category = "keep"
    BY <2>1, <1>3
  <2>2. CASE ~ (two.error # "none" \/ c.category = "keep")
    BY <2>2, <1>3, FailuresChangeNothing
  <2> QED
    BY <2>1, <2>2
<1> QED
  BY <1>1, <1>4

(* A call that a tool refuses leaves the tasks in memory as they were      *)
(* (handler.rs:180-308).                                                   *)
LEMMA RefusedChangesNothing ==
  ASSUME NEW tasks, NEW c \in ToolCalls, NEW ids, RunTool(tasks, c, ids).error # "none"
  PROVE  RunTool(tasks, c, ids).tasks = tasks
<1>1. c.tool \in {"read", "create", "breakdown", "defer", "complete", "update"}
  BY DEF ToolCalls
<1>2. CASE c.tool = "read"
  BY <1>2 DEF RunTool, Returns, Fails
<1>3. CASE c.tool = "create"
  BY <1>3 DEF RunTool, CreateTask, Returns, Fails
<1>4. CASE c.tool = "breakdown"
  BY <1>4 DEF RunTool, BreakdownTask, Returns, Fails
<1>5. CASE c.tool = "defer"
  BY <1>5 DEF RunTool, DeferTask, Returns, Fails
<1>6. CASE c.tool = "complete"
  BY <1>6 DEF RunTool, CompleteTask, Returns, Fails
<1>7. CASE c.tool = "update"
  BY <1>7, RefusedUpdate DEF RunTool
<1> QED
  BY <1>1, <1>2, <1>3, <1>4, <1>5, <1>6, <1>7

(* The tasks a session answers from are the stored ones (mcp.rs:97-146).   *)
THEOREM AnswersFromTheFiles == Spec => []MemoryIsFile
<1>1. Init => MemoryIsFile
  BY DEF Init, MemoryIsFile
<1>2. MemoryIsFile /\ [Next]_vars => MemoryIsFile'
  <2> SUFFICES ASSUME MemoryIsFile, [Next]_vars
               PROVE  MemoryIsFile'
    OBVIOUS
  <2>1. MayCall /\ Loads => Loaded = file
    BY DEF MayCall, Loaded, MemoryIsFile
  <2>2. ASSUME NEW r \in Requests, Rejects(r) \/ Notified(r) \/ Initialize(r) \/ Answers(r)
        PROVE  MemoryIsFile'
    BY <2>2 DEF Rejects, Notified, Initialize, Answers, MemoryIsFile, storage
  <2>3. CASE CallUncertain \/ CallWithoutLock \/ CallWithoutLoad
    BY <2>3 DEF CallUncertain, CallWithoutLock, CallWithoutLoad, MemoryIsFile, storage
  <2>4. CASE CallRejected
    BY <2>4, <2>1 DEF CallRejected, MemoryIsFile, storage
  <2>5. ASSUME NEW c \in Calls, CallTool(c)
        PROVE  MemoryIsFile'
    <3>1. CASE Shows(c)
      BY <3>1, <2>1 DEF Shows, MemoryIsFile, storage
    <3>2. CASE Refuses(c)
      <4>1. c \in ToolCalls
        BY CallsAssumption
      <4>2. PICK ids \in Draws(c, DOMAIN Loaded) :
               RunTool(Loaded, c, ids).error # "none" /\ mem' = RunTool(Loaded, c, ids).tasks
        BY <3>2 DEF Refuses, Outcomes
      <4>3. mem' = Loaded
        BY <4>1, <4>2, RefusedChangesNothing
      <4> QED
        BY <3>2, <4>3, <2>1 DEF Refuses, MemoryIsFile, storage
    <3>3. CASE Succeeds(c)
      BY <3>3 DEF Succeeds, MemoryIsFile
    <3>4. CASE SaveFails(c)
      BY <3>4 DEF SaveFails, MemoryIsFile
    <3> QED
      BY <2>5, <3>1, <3>2, <3>3, <3>4 DEF CallTool
  <2>6. CASE Hold \/ Spoil \/ Repair \/ Restart
    BY <2>6 DEF Hold, Spoil, Repair, Restart, MemoryIsFile, storage
  <2>7. ASSUME NEW c \in ElsewhereCalls, Elsewhere(c)
        PROVE  MemoryIsFile'
    BY <2>7 DEF Elsewhere, MemoryIsFile
  <2>8. CASE UNCHANGED vars
    BY <2>8 DEF vars, storage, MemoryIsFile
  <2> QED
    BY <2>2, <2>3, <2>4, <2>5, <2>6, <2>7, <2>8 DEF Next
<1> QED
  BY <1>1, <1>2, PTL DEF Spec

-----------------------------------------------------------------------------
(***************************************************************************)
(* A call on the files is a call on the service.  Above all an update is:  *)
(* the three use cases one after the other do what the fields say of the   *)
(* tasks as they were, because none of them changes what the next one goes *)
(* by, the parents and the states.                                         *)
(***************************************************************************)
FileTyped == DOMAIN file \subseteq Ids /\ \A t \in DOMAIN file : file[t] \in TaskRecord

LEMMA SameAbove ==
  ASSUME NEW tasks, NEW other, DOMAIN other = DOMAIN tasks,
         \A u \in DOMAIN tasks : other[u].parent = tasks[u].parent, NEW t
  PROVE  Above(other, t) = Above(tasks, t) /\ RootsOf(other, t) = RootsOf(tasks, t)
<1>1. Above(other, t) = Above(tasks, t)
  BY DEF Above
<1>2. Above(tasks, t) \subseteq DOMAIN tasks
  BY DEF Above
<1> QED
  BY <1>1, <1>2 DEF RootsOf

LEMMA SameHandedTo ==
  ASSUME NEW tasks, NEW other, DOMAIN other = DOMAIN tasks,
         \A u \in DOMAIN tasks : other[u].parent = tasks[u].parent /\ other[u].state = tasks[u].state,
         NEW t
  PROVE  HandedTo(other, t) = HandedTo(tasks, t)
<1>1. \A u : Above(other, u) = Above(tasks, u) /\ Above(tasks, u) \subseteq DOMAIN tasks
  BY SameAbove DEF Above
<1> QED
  BY <1>1 DEF HandedTo

\* The tools the service speaks of are these.
LEMMA ServiceTools ==
  ASSUME NEW T, NEW t
  PROVE  /\ Service!HandedTo(T, t) = HandedTo(T, t)
         /\ Service!RootsOf(T, t) = RootsOf(T, t)
         /\ Service!Children(T, t) = Children(T, t)
<1>1. \A u : Service!Above(T, u) = Above(T, u)
  BY DEF Above, Service!Above
<1> QED
  BY <1>1 DEF HandedTo, Service!HandedTo, RootsOf, Service!RootsOf, Children, Service!Children

LEMMA ServiceConstants ==
  /\ Service!ToolCalls = ToolCalls /\ Service!TaskRecord = TaskRecord
  /\ \A c : Service!Mutates(c) = Mutates(c)
  /\ \A p, w, e, d : Service!Task(p, w, e, d) = Task(p, w, e, d)
  /\ \A m : Service!Estimated(m) = Estimated(m)
  /\ Service!DefaultEstimate = DefaultEstimate
BY DEF ToolCalls, Service!ToolCalls, TaskRecord, Service!TaskRecord, States, Service!States,
       SomeCategories, Service!SomeCategories, Mutates, Service!Mutates, Task, Service!Task,
       Estimated, Service!Estimated, DefaultEstimate, Service!DefaultEstimate

LEMMA EstimateDoes ==
  ASSUME NEW T, NEW t, NEW x, SetEstimate(T, t, x).error = "none"
  PROVE  /\ t \in DOMAIN T /\ ~ (x > MaxMinutes)
         /\ SetEstimate(T, t, x).tasks =
              [u \in DOMAIN T |-> IF u = t THEN [T[u] EXCEPT !.estimate = x] ELSE T[u]]
BY DEF SetEstimate, Fails, Returns

LEMMA DeadlineDoes ==
  ASSUME NEW T, NEW t, NEW due \in BOOLEAN, SetDeadline(T, t, due).error = "none"
  PROVE  /\ t \in DOMAIN T
         /\ SetDeadline(T, t, due).tasks =
              [u \in DOMAIN T |-> IF due /\ u \in HandedTo(T, t) THEN [T[u] EXCEPT !.due = TRUE]
                                  ELSE IF ~ due /\ u = t THEN [T[u] EXCEPT !.due = FALSE] ELSE T[u]]
BY DEF SetDeadline, Fails, Returns

LEMMA CategoryDoes ==
  ASSUME NEW T, NEW t, NEW x, SetCategory(T, t, x).error = "none"
  PROVE  /\ t \in DOMAIN T
         /\ SetCategory(T, t, x).tasks =
              [u \in DOMAIN T |-> IF u \in RootsOf(T, t) THEN [T[u] EXCEPT !.category = x] ELSE T[u]]
BY DEF SetCategory, Fails, Returns

\* An update, field by field.
Updated(c, t) ==
  [file[t] EXCEPT
     !.estimate = IF t = c.task /\ c.estimate # Keep THEN c.estimate ELSE @,
     !.due = (@ \/ (c.deadline = "set" /\ t \in HandedTo(file, c.task)))
             /\ ~ (t = c.task /\ c.deadline = "clear"),
     !.category = IF c.category # "keep" /\ t \in RootsOf(file, c.task) THEN c.category ELSE @]

LEMMA UpdateDoes ==
  ASSUME FileTyped, NEW c \in ToolCalls, c.tool = "update", UpdateTask(file, c).error = "none"
  PROVE  /\ c.task \in DOMAIN file
         /\ c.estimate # Keep => ~ (c.estimate > MaxMinutes)
         /\ UpdateTask(file, c).tasks = [t \in DOMAIN file |-> Updated(c, t)]
<1> DEFINE one == IF c.estimate = Keep THEN Returns(file) ELSE SetEstimate(file, c.task, c.estimate)
           two == IF one.error # "none" \/ c.deadline = "keep" THEN one
                  ELSE SetDeadline(one.tasks, c.task, c.deadline = "set")
           three == IF two.error # "none" \/ c.category = "keep" THEN two
                    ELSE SetCategory(two.tasks, c.task, c.category)
           D == DOMAIN file
           Fun(f) == f = [t \in D |-> f[t]]
<1>0. UpdateTask(file, c) = three /\ three.error = "none"
  BY DEF UpdateTask
<1>1. two.error = "none"
  <2> HIDE DEF two
  <2> QED BY <1>0
<1>2. one.error = "none"
  <2> HIDE DEF one
  <2> QED BY <1>1
<1>c. /\ c.deadline \in {"keep", "set", "clear"}
      /\ c.estimate # Keep \/ c.deadline # "keep" \/ c.category # "keep"
  BY DEF ToolCalls
<1>t. \A t \in D : file[t] \in TaskRecord /\ file[t].due \in BOOLEAN
  BY DEF FileTyped, TaskRecord
<1>3. /\ DOMAIN one.tasks = D
      /\ c.estimate = Keep \/ Fun(one.tasks)
      /\ c.estimate # Keep => c.task \in D /\ ~ (c.estimate > MaxMinutes)
      /\ \A t \in D : one.tasks[t] =
            [file[t] EXCEPT !.estimate = IF t = c.task /\ c.estimate # Keep THEN c.estimate ELSE @]
  <2>1. CASE c.estimate = Keep
    <3>1. one.tasks = file
      BY <2>1 DEF Returns, Fails
    <3> HIDE DEF one
    <3> QED
      BY <1>t, <2>1, <3>1 DEF TaskRecord
  <2>2. CASE c.estimate # Keep
    <3>1. /\ c.task \in D /\ ~ (c.estimate > MaxMinutes)
          /\ one.tasks = [u \in D |-> IF u = c.task THEN [file[u] EXCEPT !.estimate = c.estimate] ELSE file[u]]
      <4>1. SetEstimate(file, c.task, c.estimate).error = "none" /\ one = SetEstimate(file, c.task, c.estimate)
        BY <1>2, <2>2
      <4> HIDE DEF one
      <4> QED BY <4>1, EstimateDoes
    <3> HIDE DEF one
    <3> QED
      BY <1>t, <2>2, <3>1 DEF TaskRecord
  <2> QED
    BY <2>1, <2>2
<1> DEFINE A == one.tasks
           B == two.tasks
           C == three.tasks
<1>4. \A t \in D : A[t].parent = file[t].parent /\ A[t].state = file[t].state /\ A[t] \in [parent : Ids \cup {NoTask}, state : States, estimate : {A[t].estimate}, due : BOOLEAN, category : SomeCategories, routine : BOOLEAN]
  <2> HIDE DEF one
  <2> QED BY <1>3, <1>t DEF TaskRecord
<1>5. HandedTo(A, c.task) = HandedTo(file, c.task)
  <2> HIDE DEF one
  <2> QED BY <1>3, <1>4, SameHandedTo
<1>6. /\ DOMAIN B = D
      /\ c.deadline = "keep" \/ Fun(B)
      /\ c.deadline = "keep" => B = A
      /\ c.deadline # "keep" => c.task \in D
      /\ \A t \in D : B[t] =
            [A[t] EXCEPT !.due = (@ \/ (c.deadline = "set" /\ t \in HandedTo(file, c.task)))
                                 /\ ~ (t = c.task /\ c.deadline = "clear")]
  <2>1. CASE c.deadline = "keep"
    <3>1. B = A
      BY <2>1
    <3> HIDE DEF two, one
    <3> QED
      BY <1>3, <1>4, <2>1, <3>1
  <2>2. CASE c.deadline # "keep"
    <3> DEFINE set == c.deadline = "set"
    <3>1. two = SetDeadline(A, c.task, set)
      <4> HIDE DEF one
      <4> QED BY <1>2, <2>2
    <3> HIDE DEF two, one
    <3>2. SetDeadline(A, c.task, set).error = "none" /\ set \in BOOLEAN
      BY <1>1, <3>1
    <3>3. DOMAIN A = D
      BY <1>3
    <3> HIDE DEF A, set
    <3>4. c.task \in DOMAIN A /\ SetDeadline(A, c.task, set).tasks =
            [u \in DOMAIN A |-> IF set /\ u \in HandedTo(A, c.task) THEN [A[u] EXCEPT !.due = TRUE]
                                ELSE IF ~ set /\ u = c.task THEN [A[u] EXCEPT !.due = FALSE] ELSE A[u]]
      BY <3>2, DeadlineDoes
    <3>5. /\ c.task \in D
          /\ B = [u \in D |-> IF set /\ u \in HandedTo(file, c.task) THEN [A[u] EXCEPT !.due = TRUE]
                              ELSE IF ~ set /\ u = c.task THEN [A[u] EXCEPT !.due = FALSE] ELSE A[u]]
      BY <1>5, <3>1, <3>3, <3>4
    <3>6. set <=> c.deadline = "set"
      BY DEF set
    <3>7. ~ set <=> c.deadline = "clear"
      BY <1>c, <2>2, <3>6
    <3> QED
      BY <1>4, <2>2, <3>5, <3>6, <3>7 DEF set
  <2> QED
    BY <2>1, <2>2
<1>7. \A t \in D : B[t].parent = file[t].parent /\ B[t] = [A[t] EXCEPT !.due = B[t].due]
  <2> HIDE DEF two, one
  <2> QED BY <1>4, <1>6, ZenonT(30)
<1>8. RootsOf(B, c.task) = RootsOf(file, c.task)
  <2> HIDE DEF two, one
  <2>1. DOMAIN B = DOMAIN file /\ \A t \in DOMAIN file : B[t].parent = file[t].parent
    BY <1>6, <1>7
  <2> HIDE DEF B
  <2> QED BY <2>1, SameAbove
<1>9. /\ c.category = "keep" \/ (c.task \in D /\ Fun(C))
      /\ c.category = "keep" => C = B
      /\ DOMAIN C = D
      /\ \A t \in D : C[t] =
            IF c.category # "keep" /\ t \in RootsOf(file, c.task)
            THEN [B[t] EXCEPT !.category = c.category] ELSE B[t]
  <2>1. CASE c.category = "keep"
    <3>1. C = B
      BY <2>1
    <3> HIDE DEF three, two, one
    <3> QED
      BY <1>6, <2>1, <3>1
  <2>2. CASE c.category # "keep"
    <3>1. three = SetCategory(B, c.task, c.category)
      <4> HIDE DEF two, one
      <4> QED BY <1>1, <2>2
    <3> HIDE DEF three, two, one
    <3>2. /\ c.task \in D
          /\ C = [u \in D |-> IF u \in RootsOf(file, c.task) THEN [B[u] EXCEPT !.category = c.category] ELSE B[u]]
      <4>1. SetCategory(B, c.task, c.category).error = "none" /\ DOMAIN B = D
        BY <1>0, <1>6, <3>1
      <4> HIDE DEF B
      <4>2. /\ c.task \in DOMAIN B
            /\ SetCategory(B, c.task, c.category).tasks =
                 [u \in DOMAIN B |-> IF u \in RootsOf(B, c.task) THEN [B[u] EXCEPT !.category = c.category] ELSE B[u]]
        BY <4>1, CategoryDoes
      <4> QED BY <1>8, <3>1, <4>1, <4>2
    <3> QED
      BY <2>2, <3>2
  <2> QED
    BY <2>1, <2>2
<1> HIDE DEF three, two, one
<1>10. c.task \in D /\ Fun(C)
  BY <1>c, <1>3, <1>6, <1>9
<1>11. \A t \in D : C[t] = Updated(c, t)
  <2> TAKE t \in D
  <2> DEFINE e == IF t = c.task /\ c.estimate # Keep THEN c.estimate ELSE file[t].estimate
             d == (file[t].due \/ (c.deadline = "set" /\ t \in HandedTo(file, c.task)))
                  /\ ~ (t = c.task /\ c.deadline = "clear")
             k == IF c.category # "keep" /\ t \in RootsOf(file, c.task) THEN c.category ELSE file[t].category
  <2>1. A[t] = [file[t] EXCEPT !.estimate = e]
    BY <1>3
  <2>2. A[t].due = file[t].due /\ A[t].category = file[t].category
    BY <1>t, <2>1 DEF TaskRecord
  <2>3. B[t] = [A[t] EXCEPT !.due = d]
    BY <1>6, <2>2
  <2>4. B[t].category = file[t].category
    BY <1>4, <2>2, <2>3
  <2>5. C[t] = [B[t] EXCEPT !.category = k]
    BY <1>4, <1>9, <2>3, <2>4
  <2>6. Updated(c, t) = [file[t] EXCEPT !.estimate = e, !.due = d, !.category = k]
    BY DEF Updated
  <2> HIDE DEF A, B, C, e, d, k
  <2> QED
    BY <1>t, <2>1, <2>3, <2>5, <2>6 DEF TaskRecord
<1>12. C = [t \in D |-> Updated(c, t)]
  <2> HIDE DEF A, B, C
  <2> QED BY <1>10, <1>11
<1> QED
  BY <1>0, <1>3, <1>10, <1>12

\* A record is what its fields are.
LEMMA SameRecord ==
  ASSUME NEW r \in TaskRecord, NEW s, NEW d, d = r.due
  PROVE  [r EXCEPT !.state = s, !.estimate = r.estimate, !.due = d, !.category = r.category] =
         [r EXCEPT !.state = s]
BY DEF TaskRecord

LEMMA OtherFields ==
  ASSUME NEW r \in TaskRecord, NEW e, NEW d, NEW k
  PROVE  [r EXCEPT !.state = r.state, !.estimate = e, !.due = d, !.category = k] =
         [r EXCEPT !.estimate = e, !.due = d, !.category = k]
BY DEF TaskRecord

\* The effect of a call on the tasks there are.
LEMMA EffectAt ==
  ASSUME FileTyped, NEW c \in ToolCalls, NEW t \in DOMAIN file
  PROVE  /\ c.tool \in {"create", "breakdown"} => Service!Effect(c)[t] = file[t]
         /\ c.tool = "defer" =>
              Service!Effect(c)[t] = IF t = c.task THEN [file[t] EXCEPT !.state = "pending"] ELSE file[t]
         /\ c.tool = "complete" =>
              Service!Effect(c)[t] = IF t = c.task THEN [file[t] EXCEPT !.state = "done"] ELSE file[t]
         /\ c.tool = "update" => Service!Effect(c)[t] = Updated(c, t)
<1>1. file[t] \in TaskRecord
  BY DEF FileTyped
<1>2. file[t].due \in BOOLEAN /\ [file[t] EXCEPT !.state = file[t].state] = file[t]
  BY <1>1 DEF TaskRecord
<1> DEFINE state == CASE c.tool = "defer" /\ c.tool # "create" /\ t = c.task -> "pending"
                      [] c.tool = "complete" /\ c.tool # "create" /\ t = c.task -> "done"
                      [] OTHER -> file[t].state
           d == (file[t].due \/ (c.tool = "update" /\ c.deadline = "set" /\ t \in HandedTo(file, c.task)))
                /\ ~ (c.tool = "update" /\ c.tool # "create" /\ t = c.task /\ c.deadline = "clear")
           e == IF c.tool = "update" /\ c.tool # "create" /\ t = c.task /\ c.estimate # Keep
                THEN c.estimate ELSE file[t].estimate
           k == IF c.tool = "update" /\ c.category # "keep" /\ t \in RootsOf(file, c.task)
                THEN c.category ELSE file[t].category
<1>3. Service!Effect(c)[t] = [file[t] EXCEPT !.state = state, !.estimate = e, !.due = d, !.category = k]
  BY ServiceTools DEF Service!Effect
<1>4. CASE c.tool # "update"
  <2>1. d = file[t].due
    BY <1>2, <1>4
  <2>2. e = file[t].estimate /\ k = file[t].category
    BY <1>4
  <2> HIDE DEF d, e, k, state
  <2>3. Service!Effect(c)[t] = [file[t] EXCEPT !.state = state]
    BY <1>1, <1>3, <2>1, <2>2, SameRecord
  <2>4. /\ c.tool \in {"create", "breakdown"} => state = file[t].state
        /\ c.tool = "defer" => state = IF t = c.task THEN "pending" ELSE file[t].state
        /\ c.tool = "complete" => state = IF t = c.task THEN "done" ELSE file[t].state
    BY DEF state
  <2> QED
    BY <1>2, <1>4, <2>3, <2>4
<1>5. CASE c.tool = "update"
  <2>1. state = file[t].state
    BY <1>5
  <2>2. d = ((file[t].due \/ (c.deadline = "set" /\ t \in HandedTo(file, c.task)))
             /\ ~ (t = c.task /\ c.deadline = "clear"))
    BY <1>5
  <2>3. /\ e = IF t = c.task /\ c.estimate # Keep THEN c.estimate ELSE file[t].estimate
        /\ k = IF c.category # "keep" /\ t \in RootsOf(file, c.task) THEN c.category ELSE file[t].category
    BY <1>5
  <2>4. Updated(c, t) = [file[t] EXCEPT !.estimate = e, !.due = d, !.category = k]
    BY <2>2, <2>3 DEF Updated
  <2> HIDE DEF d, e, k, state
  <2> QED
    BY <1>1, <1>3, <1>5, <2>1, <2>4, OtherFields
<1> QED
  BY <1>4, <1>5

\* How many tasks a call makes, and what TakesEffect says of the tasks after it.
New(c) ==
  CASE c.tool = "create" -> 1 [] c.tool = "breakdown" -> c.names
    [] c.tool = "complete" /\ Service!Repeats(c) -> 1 [] OTHER -> 0

EffectIs(c, after) ==
  \E new \in SUBSET (Ids \ DOMAIN file) :
     /\ IsFiniteSet(new) /\ Cardinality(new) = New(c)
     /\ after = [t \in DOMAIN file \cup new |-> IF t \in new THEN Service!Adds(c) ELSE Service!Effect(c)[t]]

LEMMA CreateTakesEffect ==
  ASSUME FileTyped, NEW c \in ToolCalls, c.tool = "create", NEW ids \in Draws(c, DOMAIN file),
         CreateTask(file, c, ids).error = "none"
  PROVE  EffectIs(c, CreateTask(file, c, ids).tasks)
<1>1. ids[1] \in Ids \ DOMAIN file
  BY DEF Draws
<1>2. CreateTask(file, c, ids).tasks = With(file, ids[1], Task(NoTask, c.pending, Estimated(c.estimate), FALSE))
  BY DEF CreateTask, Fails, Returns
<1>3. Service!Adds(c) = Task(NoTask, c.pending, Estimated(c.estimate), FALSE)
  BY ServiceConstants DEF Service!Adds
<1>4. New(c) = 1 /\ IsFiniteSet({ids[1]}) /\ Cardinality({ids[1]}) = 1
  BY FS_Singleton DEF New
<1>5. With(file, ids[1], Service!Adds(c)) =
        [t \in DOMAIN file \cup {ids[1]} |-> IF t \in {ids[1]} THEN Service!Adds(c) ELSE Service!Effect(c)[t]]
  BY <1>1, EffectAt DEF With
<1>6. {ids[1]} \in SUBSET (Ids \ DOMAIN file)
  BY <1>1
<1>7. CreateTask(file, c, ids).tasks =
        [t \in DOMAIN file \cup {ids[1]} |-> IF t \in {ids[1]} THEN Service!Adds(c) ELSE Service!Effect(c)[t]]
  BY <1>2, <1>3, <1>5
<1> QED
  BY <1>4, <1>6, <1>7 DEF EffectIs

LEMMA BreakdownTakesEffect ==
  ASSUME FileTyped, NEW c \in ToolCalls, c.tool = "breakdown", NEW ids \in Draws(c, DOMAIN file),
         BreakdownTask(file, c, ids).error = "none"
  PROVE  EffectIs(c, BreakdownTask(file, c, ids).tasks)
<1> DEFINE new == {ids[i] : i \in 1..c.names}
           child == Task(c.task, c.pending, DefaultEstimate, file[c.task].due)
<1>1. c.names \in 1..2 /\ ids \in [1..c.names -> Ids \ DOMAIN file] /\ IsInjective(ids)
  BY DEF ToolCalls, Draws
<1>2. new \in SUBSET (Ids \ DOMAIN file)
  BY <1>1
<1>3. IsFiniteSet(new) /\ Cardinality(new) = New(c)
  <2>1. New(c) = c.names
    BY DEF New
  <2>2. CASE c.names = 1
    <3>1. new = {ids[1]}
      BY <2>2
    <3> QED
      BY <2>1, <2>2, <3>1, FS_Singleton
  <2>3. CASE c.names = 2
    <3>1. new = {ids[1]} \cup {ids[2]}
      BY <2>3
    <3>2. ids[1] # ids[2]
      BY <1>1, <2>3 DEF IsInjective
    <3>3. IsFiniteSet({ids[1]}) /\ Cardinality({ids[1]}) = 1
      BY FS_Singleton
    <3>4. IsFiniteSet({ids[1]} \cup {ids[2]}) /\ Cardinality({ids[1]} \cup {ids[2]}) = 1 + 1
      BY <3>2, <3>3, FS_AddElement
    <3> QED
      BY <2>1, <2>3, <3>1, <3>4
  <2>4. c.names = 1 \/ c.names = 2
    BY <1>1
  <2> HIDE DEF new
  <2> QED
    BY <2>2, <2>3, <2>4
<1>4. BreakdownTask(file, c, ids).tasks = [u \in DOMAIN file \cup new |-> IF u \in new THEN child ELSE file[u]]
  BY DEF BreakdownTask, Fails, Returns
<1>5. Service!Adds(c) = child
  BY ServiceConstants DEF Service!Adds
<1> HIDE DEF new, child
<1>6. [u \in DOMAIN file \cup new |-> IF u \in new THEN child ELSE file[u]] =
        [t \in DOMAIN file \cup new |-> IF t \in new THEN Service!Adds(c) ELSE Service!Effect(c)[t]]
  BY <1>5, EffectAt
<1> QED
  BY <1>2, <1>3, <1>4, <1>6 DEF EffectIs

LEMMA NoNewTask ==
  ASSUME NEW c, New(c) = 0, NEW after, after = [t \in DOMAIN file |-> Service!Effect(c)[t]]
  PROVE  EffectIs(c, after)
<1>1. IsFiniteSet({}) /\ Cardinality({}) = 0
  BY FS_EmptySet
<1>2. after = [t \in DOMAIN file \cup {} |-> IF t \in {} THEN Service!Adds(c) ELSE Service!Effect(c)[t]]
  OBVIOUS
<1> QED
  BY <1>1, <1>2 DEF EffectIs

LEMMA DeferTakesEffect ==
  ASSUME FileTyped, NEW c \in ToolCalls, c.tool = "defer", DeferTask(file, c).error = "none"
  PROVE  EffectIs(c, DeferTask(file, c).tasks)
<1>1. DeferTask(file, c).tasks = [file EXCEPT ![c.task].state = "pending"]
  BY DEF DeferTask, Fails, Returns
<1>2. New(c) = 0
  BY DEF New
<1>3. [file EXCEPT ![c.task].state = "pending"] =
        [t \in DOMAIN file |-> IF t = c.task THEN [file[t] EXCEPT !.state = "pending"] ELSE file[t]]
  OBVIOUS
<1>4. DeferTask(file, c).tasks = [t \in DOMAIN file |-> Service!Effect(c)[t]]
  BY <1>1, <1>3, EffectAt
<1> QED
  BY <1>2, <1>4, NoNewTask

LEMMA CompleteTakesEffect ==
  ASSUME FileTyped, NEW c \in ToolCalls, c.tool = "complete", NEW ids \in Draws(c, DOMAIN file),
         CompleteTask(file, c, ids).error = "none"
  PROVE  EffectIs(c, CompleteTask(file, c, ids).tasks)
<1> DEFINE parent == file[c.task].parent
           done == [file EXCEPT ![c.task].state = "done"]
           next == Task(parent, FALSE, file[parent].estimate, TRUE)
<1>0. ids[1] \in Ids \ DOMAIN file
  BY DEF Draws
<1>1. done = [t \in DOMAIN file |-> IF t = c.task THEN [file[t] EXCEPT !.state = "done"] ELSE file[t]]
  OBVIOUS
<1>2. done = [t \in DOMAIN file |-> Service!Effect(c)[t]]
  BY <1>1, EffectAt
<1>3. Service!Repeats(c) <=> parent \in DOMAIN file /\ file[parent].routine
  BY DEF Service!Repeats
<1>4. parent \in DOMAIN file => parent # NoTask
  BY ToolsAssumption DEF FileTyped
<1>5. CASE ~ Service!Repeats(c)
  <2>1. CompleteTask(file, c, ids).tasks = done
    <3> HIDE DEF done
    <3> QED BY <1>3, <1>5 DEF CompleteTask, Fails, Returns, done
  <2>2. New(c) = 0
    BY <1>5 DEF New
  <2> HIDE DEF done
  <2> QED
    BY <1>2, <2>1, <2>2, NoNewTask
<1>6. CASE Service!Repeats(c)
  <2>1. CompleteTask(file, c, ids).tasks = With(done, ids[1], next)
    <3>1. ~ (parent = NoTask \/ ~ (parent \in DOMAIN file /\ file[parent].routine))
      BY <1>3, <1>4, <1>6
    <3> QED BY <3>1 DEF CompleteTask, Fails, Returns
  <2>2. New(c) = 1 /\ IsFiniteSet({ids[1]}) /\ Cardinality({ids[1]}) = 1
    BY <1>6, FS_Singleton DEF New
  <2>3. Service!Adds(c) = next
    BY ServiceConstants DEF Service!Adds
  <2>4. With(done, ids[1], next) =
          [t \in DOMAIN file \cup {ids[1]} |-> IF t \in {ids[1]} THEN Service!Adds(c) ELSE Service!Effect(c)[t]]
    <3> HIDE DEF done, next
    <3> QED BY <1>2, <2>3 DEF With
  <2> HIDE DEF done, next
  <2> QED
    BY <1>0, <2>1, <2>2, <2>4 DEF EffectIs
<1> QED
  BY <1>5, <1>6

LEMMA UpdateTakesEffect ==
  ASSUME FileTyped, NEW c \in ToolCalls, c.tool = "update", UpdateTask(file, c).error = "none"
  PROVE  EffectIs(c, UpdateTask(file, c).tasks)
<1>1. New(c) = 0
  BY DEF New
<1>2. UpdateTask(file, c).tasks = [t \in DOMAIN file |-> Service!Effect(c)[t]]
  <2>1. UpdateTask(file, c).tasks = [t \in DOMAIN file |-> Updated(c, t)]
    BY UpdateDoes
  <2>2. \A t \in DOMAIN file : Service!Effect(c)[t] = Updated(c, t)
    BY EffectAt
  <2> QED
    BY <2>1, <2>2
<1> QED
  BY <1>1, <1>2, NoNewTask

LEMMA CallTakesEffect ==
  ASSUME FileTyped, NEW c \in ToolCalls, Mutates(c), NEW ids \in Draws(c, DOMAIN file),
         RunTool(file, c, ids).error = "none"
  PROVE  EffectIs(c, RunTool(file, c, ids).tasks)
<1>1. c.tool \in {"create", "breakdown", "defer", "complete", "update"}
  BY DEF ToolCalls, Mutates
<1>2. CASE c.tool = "create"
  <2>1. RunTool(file, c, ids) = CreateTask(file, c, ids)
    BY <1>2 DEF RunTool
  <2> QED BY <1>2, <2>1, CreateTakesEffect
<1>3. CASE c.tool = "breakdown"
  <2>1. RunTool(file, c, ids) = BreakdownTask(file, c, ids)
    BY <1>3 DEF RunTool
  <2> QED BY <1>3, <2>1, BreakdownTakesEffect
<1>4. CASE c.tool = "defer"
  <2>1. RunTool(file, c, ids) = DeferTask(file, c)
    BY <1>4 DEF RunTool
  <2> QED BY <1>4, <2>1, DeferTakesEffect
<1>5. CASE c.tool = "complete"
  <2>1. RunTool(file, c, ids) = CompleteTask(file, c, ids)
    BY <1>5 DEF RunTool
  <2> QED BY <1>5, <2>1, CompleteTakesEffect
<1>6. CASE c.tool = "update"
  <2>1. RunTool(file, c, ids) = UpdateTask(file, c)
    BY <1>6 DEF RunTool
  <2> QED BY <1>6, <2>1, UpdateTakesEffect
<1> QED
  BY <1>1, <1>2, <1>3, <1>4, <1>5, <1>6

\* What the service calls the effect of a call.
LEMMA ServiceEffect ==
  ASSUME NEW c, EffectIs(c, file')
  PROVE  Service!TakesEffect(c)
<1>1. \A S : Service!Cardinality(S) = Cardinality(S)
  BY DEF Cardinality, Service!Cardinality
<1>2. PICK new \in SUBSET (Ids \ DOMAIN file) :
        /\ Cardinality(new) = New(c)
        /\ file' = [t \in DOMAIN file \cup new |-> IF t \in new THEN Service!Adds(c) ELSE Service!Effect(c)[t]]
  BY DEF EffectIs
<1>3. Service!Cardinality(new) =
        CASE c.tool = "create" -> 1 [] c.tool = "breakdown" -> c.names
          [] c.tool = "complete" /\ Service!Repeats(c) -> 1 [] OTHER -> 0
  BY <1>1, <1>2 DEF New
<1> QED
  BY <1>2, <1>3 DEF Service!TakesEffect

\* The tasks keep their type.
LEMMA EffectKeepsType ==
  ASSUME FileTyped, NEW c \in ToolCalls, Mutates(c), NEW t \in DOMAIN file
  PROVE  Service!Effect(c)[t] \in TaskRecord
<1>1. c.tool \in {"create", "breakdown", "defer", "complete", "update"}
  BY DEF ToolCalls, Mutates
<1>2. file[t] \in TaskRecord
  BY DEF FileTyped
<1>3. CASE c.tool \in {"create", "breakdown"}
  BY <1>2, <1>3, EffectAt
<1>4. CASE c.tool \in {"defer", "complete"}
  <2>1. /\ [file[t] EXCEPT !.state = "pending"] \in TaskRecord
        /\ [file[t] EXCEPT !.state = "done"] \in TaskRecord
    BY <1>2 DEF TaskRecord, States
  <2> QED
    BY <1>2, <1>4, <2>1, EffectAt
<1>5. CASE c.tool = "update"
  <2> DEFINE e == IF t = c.task /\ c.estimate # Keep THEN c.estimate ELSE file[t].estimate
             d == (file[t].due \/ (c.deadline = "set" /\ t \in HandedTo(file, c.task)))
                  /\ ~ (t = c.task /\ c.deadline = "clear")
             k == IF c.category # "keep" /\ t \in RootsOf(file, c.task) THEN c.category ELSE file[t].category
  <2>1. c.estimate \in Nat \cup {Keep} /\ c.category \in SomeCategories \cup {"keep"}
    BY <1>5, ToolsAssumption DEF ToolCalls
  <2>2. e \in Nat
    BY <1>2, <2>1 DEF TaskRecord
  <2>3. d \in BOOLEAN
    OBVIOUS
  <2>4. k \in SomeCategories
    BY <1>2, <2>1 DEF TaskRecord
  <2>5. Service!Effect(c)[t] = [file[t] EXCEPT !.estimate = e, !.due = d, !.category = k]
    BY <1>5, EffectAt, ZenonT(30) DEF Updated
  <2> HIDE DEF e, d, k
  <2> QED
    BY <1>2, <2>2, <2>3, <2>4, <2>5 DEF TaskRecord
<1> QED
  BY <1>1, <1>3, <1>4, <1>5

LEMMA AddedIsTyped ==
  ASSUME FileTyped, NEW c \in ToolCalls, New(c) # 0, Service!Sensible(c)
  PROVE  Service!Adds(c) \in TaskRecord
<1>1. \A p \in Ids \cup {NoTask}, w \in BOOLEAN, e \in Nat, d \in BOOLEAN : Task(p, w, e, d) \in TaskRecord
  BY DEF Task, TaskRecord, States, SomeCategories
<1>2. c.tool \in {"create", "breakdown"} \/ (c.tool = "complete" /\ Service!Repeats(c))
  BY DEF New
<1>3. CASE c.tool = "create"
  <2>1. Service!Adds(c) = Task(NoTask, c.pending, Estimated(c.estimate), FALSE)
    BY <1>3, ServiceConstants DEF Service!Adds
  <2>2. c.pending \in BOOLEAN /\ Estimated(c.estimate) \in Nat
    BY <1>3, ToolsAssumption DEF ToolCalls, Estimated, DefaultEstimate
  <2> QED
    BY <1>1, <2>1, <2>2
<1>4. CASE c.tool = "breakdown"
  <2>1. Service!Adds(c) = Task(c.task, c.pending, DefaultEstimate, file[c.task].due)
    BY <1>4, ServiceConstants DEF Service!Adds
  <2>2. c.pending \in BOOLEAN /\ DefaultEstimate \in Nat /\ c.task \in Ids
    BY <1>4 DEF ToolCalls, DefaultEstimate
  <2>3. file[c.task].due \in BOOLEAN
    BY <1>4 DEF Service!Sensible, FileTyped, TaskRecord
  <2> QED
    BY <1>1, <2>1, <2>2, <2>3
<1>5. CASE c.tool = "complete" /\ Service!Repeats(c)
  <2> DEFINE parent == file[c.task].parent
  <2>1. Service!Adds(c) = Task(parent, FALSE, file[parent].estimate, TRUE)
    BY <1>5, ServiceConstants DEF Service!Adds
  <2>2. parent \in DOMAIN file
    BY <1>5 DEF Service!Repeats
  <2>3. parent \in Ids /\ file[parent].estimate \in Nat
    BY <2>2 DEF FileTyped, TaskRecord
  <2> QED
    BY <1>1, <2>1, <2>3
<1> QED
  BY <1>2, <1>3, <1>4, <1>5

LEMMA EffectTyped ==
  ASSUME FileTyped, NEW c \in ToolCalls, Mutates(c), Service!Sensible(c), EffectIs(c, file')
  PROVE  FileTyped'
<1>1. PICK new \in SUBSET (Ids \ DOMAIN file) :
        /\ IsFiniteSet(new) /\ Cardinality(new) = New(c)
        /\ file' = [t \in DOMAIN file \cup new |-> IF t \in new THEN Service!Adds(c) ELSE Service!Effect(c)[t]]
  BY DEF EffectIs
<1>2. \A t \in new : Service!Adds(c) \in TaskRecord
  <2> SUFFICES ASSUME NEW t \in new PROVE New(c) # 0
    BY AddedIsTyped
  <2> QED
    BY <1>1, FS_EmptySet
<1>3. \A t \in DOMAIN file : Service!Effect(c)[t] \in TaskRecord
  BY EffectKeepsType
<1>4. DOMAIN file' = DOMAIN file \cup new /\ DOMAIN file \subseteq Ids
  BY <1>1 DEF FileTyped
<1>5. \A t \in DOMAIN file' : file'[t] \in TaskRecord
  BY <1>1, <1>2, <1>3, <1>4
<1> QED
  BY <1>4, <1>5 DEF FileTyped

-----------------------------------------------------------------------------
(***************************************************************************)
(* A tool does what is sensible and refuses what is not.                   *)
(***************************************************************************)
LEMMA DoneIsSensible ==
  ASSUME FileTyped, NEW c \in ToolCalls, Mutates(c), NEW ids, RunTool(file, c, ids).error = "none"
  PROVE  Service!Sensible(c)
<1>1. c.tool \in {"create", "breakdown", "defer", "complete", "update"}
  BY DEF ToolCalls, Mutates
<1>2. CASE c.tool = "create"
  <2>1. ~ c.blank /\ ~ TooLong(c.estimate) /\ c.estimate \in Nat \cup {Keep}
    BY <1>2, ToolsAssumption DEF RunTool, CreateTask, Fails, ToolCalls
  <2>2. c.estimate = Keep \/ c.estimate \in 0..MaxMinutes
    BY <2>1, ToolsAssumption DEF TooLong
  <2> QED
    BY <1>2, <2>1, <2>2 DEF Service!Sensible
<1>3. CASE c.tool = "breakdown"
  BY <1>3 DEF RunTool, BreakdownTask, Fails, Service!Sensible
<1>4. CASE c.tool = "defer"
  BY <1>4 DEF RunTool, DeferTask, Fails, Service!Sensible
<1>5. CASE c.tool = "complete"
  <2>1. RunTool(file, c, ids) = CompleteTask(file, c, ids)
    BY <1>5 DEF RunTool
  <2>2. c.task \in DOMAIN file /\ ~ c.overflow /\ ~ \E u \in Children(file, c.task) : file[u].state # "done"
    <3>0. CompleteTask(file, c, ids).error = "none"
      BY <2>1
    <3>1. CASE c.task \notin DOMAIN file
      BY <3>0, <3>1 DEF CompleteTask, Fails
    <3>2. CASE c.task \in DOMAIN file
      <4>1. CASE \E u \in Children(file, c.task) : file[u].state # "done"
        BY <3>0, <3>2, <4>1 DEF CompleteTask, Fails
      <4>2. CASE ~ \E u \in Children(file, c.task) : file[u].state # "done"
        BY <3>0, <3>2, <4>2 DEF CompleteTask, Fails
      <4> QED
        BY <3>2, <4>1, <4>2
    <3> QED
      BY <3>1, <3>2
  <2> QED
    BY <1>5, <2>2, ServiceTools DEF Service!Sensible
<1>6. CASE c.tool = "update"
  <2>1. UpdateTask(file, c).error = "none" /\ c.estimate \in Nat \cup {Keep}
    BY <1>6, ToolsAssumption DEF RunTool, ToolCalls
  <2>2. c.task \in DOMAIN file /\ (c.estimate # Keep => ~ (c.estimate > MaxMinutes))
    BY <1>6, <2>1, UpdateDoes
  <2>3. c.estimate = Keep \/ c.estimate \in 0..MaxMinutes
    BY <2>1, <2>2, ToolsAssumption
  <2> QED
    BY <1>6, <2>2, <2>3 DEF Service!Sensible
<1> QED
  BY <1>1, <1>2, <1>3, <1>4, <1>5, <1>6

\* A use case refuses an update only for the number or for a task that is not there.
LEMMA RefusedUpdateHasReason ==
  ASSUME NEW c, UpdateTask(file, c).error # "none", c.task \in DOMAIN file
  PROVE  c.estimate # Keep /\ c.estimate > MaxMinutes
<1> DEFINE one == IF c.estimate = Keep THEN Returns(file) ELSE SetEstimate(file, c.task, c.estimate)
           two == IF one.error # "none" \/ c.deadline = "keep" THEN one
                  ELSE SetDeadline(one.tasks, c.task, c.deadline = "set")
           three == IF two.error # "none" \/ c.category = "keep" THEN two
                    ELSE SetCategory(two.tasks, c.task, c.category)
<1>1. three.error # "none"
  BY DEF UpdateTask
<1> SUFFICES ASSUME one.error = "none"
             PROVE  FALSE
  BY DEF SetEstimate, Returns, Fails
<1>2. c.task \in DOMAIN one.tasks
  BY EstimateKeepsTasks DEF Returns, Fails
<1>3. two.error = "none" /\ c.task \in DOMAIN two.tasks
  <2> HIDE DEF one
  <2>1. CASE c.deadline = "keep"
    BY <1>2, <2>1
  <2>2. CASE c.deadline # "keep"
    BY <1>2, <2>2, FailuresChangeNothing, DeadlineKeepsTasks
  <2> QED
    BY <2>1, <2>2
<1>4. three.error = "none"
  <2> HIDE DEF two
  <2> QED
    BY <1>3, FailuresChangeNothing
<1> QED
  BY <1>1, <1>4

LEMMA RefusedIsNotSensible ==
  ASSUME NEW c \in ToolCalls, NEW ids, RunTool(file, c, ids).error # "none"
  PROVE  ~ Service!Sensible(c)
<1>1. c.tool \in {"read", "create", "breakdown", "defer", "complete", "update"}
  BY DEF ToolCalls
<1>2. CASE c.tool = "read"
  BY <1>2 DEF RunTool, Returns, Fails
<1>3. CASE c.tool = "create"
  <2>1. c.blank \/ TooLong(c.estimate)
    BY <1>3 DEF RunTool, CreateTask, Returns, Fails
  <2>2. TooLong(c.estimate) => c.estimate # Keep /\ c.estimate \notin 0..MaxMinutes
    BY ToolsAssumption DEF TooLong
  <2> QED
    BY <1>3, <2>1, <2>2 DEF Service!Sensible
<1>4. CASE c.tool = "breakdown"
  BY <1>4 DEF RunTool, BreakdownTask, Returns, Fails, Service!Sensible
<1>5. CASE c.tool = "defer"
  BY <1>5 DEF RunTool, DeferTask, Returns, Fails, Service!Sensible
<1>6. CASE c.tool = "complete"
  <2>1. RunTool(file, c, ids) = CompleteTask(file, c, ids)
    BY <1>6 DEF RunTool
  <2>2. \/ c.task \notin DOMAIN file
        \/ c.overflow
        \/ \E u \in Children(file, c.task) : file[u].state # "done"
    BY <2>1 DEF CompleteTask, Returns, Fails
  <2> QED
    BY <1>6, <2>2, ServiceTools DEF Service!Sensible
<1>7. CASE c.tool = "update"
  <2>1. UpdateTask(file, c).error # "none"
    BY <1>7 DEF RunTool
  <2>2. c.task \notin DOMAIN file \/ (c.estimate # Keep /\ c.estimate > MaxMinutes)
    BY <2>1, RefusedUpdateHasReason
  <2>3. c.estimate > MaxMinutes => c.estimate \notin 0..MaxMinutes
    BY <1>7, ToolsAssumption DEF ToolCalls
  <2> QED
    BY <1>7, <2>2, <2>3 DEF Service!Sensible
<1> QED
  BY <1>1, <1>2, <1>3, <1>4, <1>5, <1>6, <1>7

-----------------------------------------------------------------------------
(***************************************************************************)
(* Step by step: the server is the service.                                *)
(***************************************************************************)
ServerInv ==
  /\ FileTyped
  /\ lifecycle \in {"uninitialized", "responded", "initialized"} /\ uncertain \in BOOLEAN
  /\ MemoryIsFile

LEMMA SessionOpen == ServerInv /\ MayCall => Session = "open" /\ Loaded = file
BY DEF ServerInv, MayCall, Session, Loaded, MemoryIsFile

LEMMA SameSession ==
  ASSUME UNCHANGED <<lifecycle, uncertain>>
  PROVE  UNCHANGED Session
BY DEF Session

LEMMA ToolStep ==
  ASSUME ServerInv, NEW c \in Calls, CallTool(c)
  PROVE  Service!Next /\ FileTyped'
<1>1. c \in Service!ToolCalls /\ c \in ToolCalls
  BY CallsAssumption, ServiceConstants
<1>2. FileTyped
  BY DEF ServerInv
<1>3. Session = "open" /\ Loaded = file
  BY SessionOpen DEF CallTool, Shows, Refuses, Succeeds, SaveFails
<1>4. CASE Shows(c)
  <2>1. UNCHANGED <<lifecycle, uncertain>> /\ UNCHANGED file /\ reply' = [is |-> "shown", tasks |-> file]
    BY <1>3, <1>4 DEF Shows, storage
  <2>2. UNCHANGED Session
    BY <2>1, SameSession
  <2> QED
    BY <1>2, <1>3, <2>1, <2>2 DEF Service!Next, Service!Show, FileTyped
<1>5. CASE Refuses(c)
  <2>1. UNCHANGED <<lifecycle, uncertain>> /\ UNCHANGED file /\ reply' = [is |-> "refused"]
    BY <1>5 DEF Refuses, storage, Says
  <2>2. PICK ids \in Draws(c, DOMAIN file) : RunTool(file, c, ids).error # "none"
    BY <1>3, <1>5 DEF Refuses, Outcomes
  <2>3. ~ Service!Sensible(c)
    BY <1>1, <2>2, RefusedIsNotSensible
  <2>4. UNCHANGED Session
    BY <2>1, SameSession
  <2>5. Service!Refuse(c)
    BY <1>3, <2>1, <2>3, <2>4 DEF Service!Refuse, Service!Is
  <2> QED
    BY <1>1, <1>2, <2>1, <2>5 DEF Service!Next, FileTyped
<1>6. CASE Succeeds(c)
  <2>1. UNCHANGED <<lifecycle, uncertain>> /\ Mutates(c) /\ reply' = [is |-> "done"]
    BY <1>6 DEF Succeeds, Says
  <2>2. PICK ids \in Draws(c, DOMAIN file) :
          RunTool(file, c, ids).error = "none" /\ file' = RunTool(file, c, ids).tasks
    BY <1>3, <1>6 DEF Succeeds, Outcomes
  <2>3. Service!Sensible(c) /\ EffectIs(c, file')
    BY <1>1, <1>2, <2>1, <2>2, DoneIsSensible, CallTakesEffect
  <2>4. Service!TakesEffect(c)
    BY <2>3, ServiceEffect
  <2>5. UNCHANGED Session
    BY <2>1, SameSession
  <2>6. Service!Do(c)
    BY <1>3, <2>1, <2>3, <2>4, <2>5, ServiceConstants DEF Service!Do, Service!Is
  <2> QED
    BY <1>1, <1>2, <2>1, <2>3, <2>6, EffectTyped DEF Service!Next
<1>7. CASE SaveFails(c)
  <2>1. Mutates(c) /\ reply' = [is |-> "broken"] /\ Session' = "lost"
    BY <1>7 DEF SaveFails, Says, Session
  <2>2. PICK ids \in Draws(c, DOMAIN file) :
          RunTool(file, c, ids).error = "none" /\ file' \in {file, RunTool(file, c, ids).tasks}
    BY <1>3, <1>7 DEF SaveFails, Outcomes
  <2>3. Service!Sensible(c)
    BY <1>1, <1>2, <2>1, <2>2, DoneIsSensible
  <2>4. CASE file' = file
    BY <1>1, <1>2, <1>3, <2>1, <2>3, <2>4 DEF Service!Next, Service!Break, Service!Is, FileTyped
  <2>5. CASE file' = RunTool(file, c, ids).tasks
    <3>1. EffectIs(c, file')
      BY <1>1, <1>2, <2>1, <2>2, <2>5, CallTakesEffect
    <3>2. Service!Break(c)
      BY <1>3, <2>1, <2>3, <3>1, ServiceEffect DEF Service!Break, Service!Is
    <3> QED
      BY <1>1, <1>2, <2>1, <2>3, <3>1, <3>2, EffectTyped DEF Service!Next
  <2> QED
    BY <2>2, <2>4, <2>5
<1> QED
  BY <1>4, <1>5, <1>6, <1>7 DEF CallTool

LEMMA ElsewhereStep ==
  ASSUME ServerInv, NEW c \in ElsewhereCalls, Elsewhere(c)
  PROVE  Service!Next /\ FileTyped'
<1>1. c \in Service!ToolCalls /\ c \in ToolCalls
  BY CallsAssumption, ServiceConstants
<1>2. FileTyped
  BY DEF ServerInv
<1>3. PICK ids \in Draws(c, DOMAIN file) :
        /\ RunTool(file, c, ids).error = "none"
        /\ RunTool(file, c, ids).tasks # file /\ file' = RunTool(file, c, ids).tasks
  BY DEF Elsewhere
<1>4. Mutates(c)
  BY <1>3 DEF Mutates, RunTool, Returns, Fails
<1>5. Service!Sensible(c) /\ EffectIs(c, file')
  BY <1>1, <1>2, <1>3, <1>4, DoneIsSensible, CallTakesEffect
<1>6. UNCHANGED <<lifecycle, uncertain>> /\ UNCHANGED reply
  BY DEF Elsewhere
<1>7. UNCHANGED Session
  BY <1>6, SameSession
<1>8. Service!Elsewhere(c)
  BY <1>5, <1>6, <1>7, ServiceEffect DEF Service!Elsewhere
<1> QED
  BY <1>1, <1>2, <1>4, <1>5, <1>8, EffectTyped DEF Service!Next

LEMMA ServerInvariance == Spec => []ServerInv
<1>1. Init => ServerInv
  BY StartAssumption DEF Init, ServerInv, FileTyped, MemoryIsFile
<1>2. ServerInv /\ MemoryIsFile' /\ [Next]_vars => ServerInv'
  <2> SUFFICES ASSUME ServerInv, MemoryIsFile', [Next]_vars
               PROVE  ServerInv'
    OBVIOUS
  <2>1. /\ lifecycle' \in {"uninitialized", "responded", "initialized"} /\ uncertain' \in BOOLEAN
    BY DEF Next, vars, ServerInv, Rejects, Notified, Initialize, Answers, CallUncertain, CallWithoutLock,
       CallWithoutLoad, CallRejected, CallTool, Shows, Refuses, Succeeds, SaveFails, Hold, Spoil, Repair,
       Restart, Elsewhere
  <2>2. FileTyped'
    <3>1. CASE \E c \in Calls : CallTool(c)
      BY <3>1, ToolStep
    <3>2. CASE \E c \in ElsewhereCalls : Elsewhere(c)
      BY <3>2, ElsewhereStep
    <3>3. CASE ~ ((\E c \in Calls : CallTool(c)) \/ \E c \in ElsewhereCalls : Elsewhere(c))
      <4>1. UNCHANGED file
        BY <3>3 DEF Next, vars, storage, Rejects, Notified, Initialize, Answers, CallUncertain,
           CallWithoutLock, CallWithoutLoad, CallRejected, Hold, Spoil, Repair, Restart
      <4> QED
        BY <4>1 DEF ServerInv, FileTyped
    <3> QED
      BY <3>1, <3>2, <3>3
  <2> QED
    BY <2>1, <2>2 DEF ServerInv
<1> QED
  BY <1>1, <1>2, AnswersFromTheFiles, PTL DEF Spec

(* The server is the service that TaskService promises: each call takes    *)
(* its whole effect on the tasks as they are or none, an update through    *)
(* three use cases included, and is refused only for a reason that lies in *)
(* those tasks; after a save that failed the session answers nothing else  *)
(* (mcp.rs:97-146, handler.rs:180-308).                                    *)
THEOREM ImplementsService == Spec => ImplementsTaskService
<1>1. Init => Service!Init
  BY StartAssumption, ServiceConstants DEF Init, Service!Init, Session, Service!Is
<1>2. ServerInv /\ [Next]_vars => [Service!Next]_(Service!vars)
  <2> SUFFICES ASSUME ServerInv, [Next]_vars
               PROVE  [Service!Next]_(Service!vars)
    OBVIOUS
  <2>1. CASE \E r \in Requests : Rejects(r) \/ Answers(r)
    <3>1. UNCHANGED <<lifecycle, uncertain>> /\ UNCHANGED file /\ reply' = [is |-> "protocol"]
      BY <2>1 DEF Rejects, Answers, storage, Says
    <3> QED
      BY <3>1, SameSession DEF Service!Next, Service!Protocol, Service!Is
  <2>2. CASE \E r \in Requests : Notified(r) \/ Initialize(r)
    <3>1. UNCHANGED uncertain /\ UNCHANGED file /\ reply' = [is |-> "protocol"]
      BY <2>2 DEF Notified, Initialize, storage, Says
    <3>2. \/ lifecycle' = lifecycle
          \/ lifecycle = "responded" /\ lifecycle' = "initialized"
          \/ lifecycle = "uninitialized" /\ lifecycle' = "responded"
      BY <2>2 DEF Notified, Initialize
    <3>3. CASE lifecycle' = lifecycle \/ uncertain
      <4>1. UNCHANGED Session
        <5>1. CASE lifecycle' = lifecycle
          BY <3>1, <5>1, SameSession
        <5>2. CASE uncertain
          BY <3>1, <5>2 DEF Session
        <5> QED
          BY <3>3, <5>1, <5>2
      <4> QED
        BY <3>1, <4>1 DEF Service!Next, Service!Protocol, Service!Is
    <3>4. CASE lifecycle' # lifecycle /\ ~ uncertain
      <4>1. /\ Session \in {"closed", "greeted"}
            /\ Session' = IF Session = "closed" THEN "greeted" ELSE "open"
        BY <3>1, <3>2, <3>4 DEF Session
      <4> QED
        BY <3>1, <4>1 DEF Service!Next, Service!Open, Service!Is
    <3> QED
      BY <3>3, <3>4
  <2>3. CASE CallUncertain
    <3>1. UNCHANGED <<lifecycle, uncertain>> /\ UNCHANGED file /\ reply' = [is |-> "lost"] /\ Session = "lost"
      BY <2>3 DEF CallUncertain, storage, Says, Session
    <3> QED
      BY <3>1, SameSession DEF Service!Next, Service!Lost, Service!Is
  <2>4. CASE CallWithoutLock \/ CallWithoutLoad
    <3>1. UNCHANGED <<lifecycle, uncertain>> /\ UNCHANGED file /\ reply' = [is |-> "unavailable"] /\ MayCall
      BY <2>4 DEF CallWithoutLock, CallWithoutLoad, storage, Says
    <3> QED
      BY <3>1, SameSession, SessionOpen DEF Service!Next, Service!Unavailable, Service!Is
  <2>5. CASE CallRejected
    <3>1. UNCHANGED <<lifecycle, uncertain>> /\ UNCHANGED file /\ reply' = [is |-> "protocol"]
      BY <2>5 DEF CallRejected, storage, Says
    <3> QED
      BY <3>1, SameSession DEF Service!Next, Service!Protocol, Service!Is
  <2>6. CASE \E c \in Calls : CallTool(c)
    BY <2>6, ToolStep
  <2>7. CASE Hold \/ Spoil \/ Repair
    <3>1. UNCHANGED <<lifecycle, uncertain>> /\ UNCHANGED <<file, reply>>
      BY <2>7 DEF Hold, Spoil, Repair
    <3> QED
      BY <3>1, SameSession DEF Service!vars
  <2>8. CASE Restart
    <3>1. UNCHANGED file /\ reply' = [is |-> "nothing"] /\ Session' = "closed"
      BY <2>8 DEF Restart, storage, Says, Session
    <3> QED
      BY <3>1 DEF Service!Next, Service!Restart, Service!Is
  <2>9. CASE \E c \in ElsewhereCalls : Elsewhere(c)
    BY <2>9, ElsewhereStep
  <2>10. CASE UNCHANGED vars
    BY <2>10, SameSession DEF vars, storage, Service!vars
  <2> QED
    BY <2>1, <2>2, <2>3, <2>4, <2>5, <2>6, <2>7, <2>8, <2>9, <2>10 DEF Next
<1> QED
  BY <1>1, <1>2, ServerInvariance, PTL DEF Spec, ImplementsTaskService, Service!Spec

-----------------------------------------------------------------------------
(* What the arguments of a call are read as.                               *)

(* What a value is by its type.                                            *)
LEMMA JsonShape ==
  ASSUME NEW v, IsJson(v)
  PROVE  /\ v.json = "null" <=> v = Null
         /\ v.json = "string" => v = Text(v.text)
         /\ v.json = "number" => v = Number(v.number)
         /\ v.json = "array" => Len(v.items) \in Nat /\ DOMAIN v.items = 1..Len(v.items)
         /\ v.json = "object" => DOMAIN v.members \subseteq Names
BY DEF IsJson, Null, Text, Number, List, Object

(* The first error is one of the errors, if there is any.                  *)
LEMMA FirstErrorIsOne ==
  ASSUME NEW s, DOMAIN s \subseteq Nat
  PROVE  \/ (\A i \in DOMAIN s : s[i] = "read") /\ FirstError(s) = "read"
         \/ \E i \in DOMAIN s : s[i] # "read" /\ FirstError(s) = s[i]
<1> DEFINE errors == {i \in DOMAIN s : s[i] # "read"}
<1>1. CASE errors = {}
  BY <1>1 DEF FirstError
<1>2. CASE errors # {}
  <2>1. errors \in SUBSET Nat
    OBVIOUS
  <2>2. \E i \in errors : \A j \in errors : i <= j
    BY <1>2, <2>1, LeastNatural
  <2>3. (CHOOSE i \in errors : \A j \in errors : i <= j) \in errors
    BY <2>2
  <2>4. FirstError(s) = s[CHOOSE i \in errors : \A j \in errors : i <= j]
    BY <1>2 DEF FirstError
  <2> QED BY <2>3, <2>4
<1> QED BY <1>1, <1>2

(* Which names these are.                                                 *)
LEMMA NamesAre ==
  /\ DOMAIN NameOrder = 1..17
  /\ Names = {"additional_actual_work_seconds", "categories", "category", "deadline_time",
              "estimated_work_minutes", "extra", "field", "finished_at", "from", "name", "names",
              "parent_id", "pending_until", "period", "statuses", "task_id", "until"}
<1>1. DOMAIN NameOrder = 1..17
  BY DEF NameOrder
<1> QED BY <1>1 DEF Names, NameOrder

\* The kinds of values fields take.
Kinds == {"id", "day", "moment", "moment_or_null", "amount", "name", "names", "category_or_null",
          "statuses", "categories", "period"}

(* The fields of each tool.                                                *)
LEMMA InputOfTools ==
  /\ \A t : t = "get_focus" => Input[t] = GetFocusInput
  /\ \A t : t = "get_task" => Input[t] = GetTaskInput
  /\ \A t : t = "create_task" => Input[t] = CreateTaskInput
  /\ \A t : t = "breakdown_task" => Input[t] = BreakdownTaskInput
  /\ \A t : t = "defer_task" => Input[t] = DeferTaskInput
  /\ \A t : t = "complete_task" => Input[t] = CompleteTaskInput
  /\ \A t : t = "update_task" => Input[t] = UpdateTaskInput
  /\ \A t : t = "list_tasks" => Input[t] = ListTasksInput
  /\ \A t : t = "get_schedule" => Input[t] = GetScheduleInput
  BY DEF Input

(* The fields of every tool are among the names, and each has its kind.    *)
LEMMA FieldsOfTools ==
  ASSUME NEW tool \in Tools, NEW f \in DOMAIN Input[tool]
  PROVE  f \in Names \ {"extra"} /\ Input[tool][f] \in Kinds
<1>1. tool \in {"get_focus", "get_task", "create_task", "breakdown_task", "defer_task",
                "complete_task", "update_task", "list_tasks", "get_schedule"}
  BY DEF Tools, Input
<1>2. CASE tool = "get_focus"
  BY <1>2, NamesAre, InputOfTools DEF GetFocusInput, Kinds
<1>3. CASE tool = "get_task"
  BY <1>3, NamesAre, InputOfTools DEF GetTaskInput, Kinds
<1>4. CASE tool = "create_task"
  BY <1>4, NamesAre, InputOfTools DEF CreateTaskInput, Kinds
<1>5. CASE tool = "breakdown_task"
  BY <1>5, NamesAre, InputOfTools DEF BreakdownTaskInput, Kinds
<1>6. CASE tool = "defer_task"
  BY <1>6, NamesAre, InputOfTools DEF DeferTaskInput, Kinds
<1>7. CASE tool = "complete_task"
  BY <1>7, NamesAre, InputOfTools DEF CompleteTaskInput, Kinds
<1>8. CASE tool = "update_task"
  BY <1>8, NamesAre, InputOfTools DEF UpdateTaskInput, Kinds
<1>9. CASE tool = "list_tasks"
  BY <1>9, NamesAre, InputOfTools DEF ListTasksInput, Kinds
<1>10. CASE tool = "get_schedule"
  BY <1>10, NamesAre, InputOfTools DEF GetScheduleInput, Kinds
<1> QED BY <1>1, <1>2, <1>3, <1>4, <1>5, <1>6, <1>7, <1>8, <1>9, <1>10

(* A list is read when all its items are, and else as one of the errors.   *)
LEMMA ListIsRead ==
  ASSUME NEW kind \in {"names", "statuses", "categories"}, NEW v, IsJson(v), v.json = "array",
         NEW Item,
         Item = [i \in DOMAIN v.items |->
                   CASE kind = "names" -> ReadName(v.items[i])
                     [] kind = "statuses" -> ReadChoice(Statuses, v.items[i])
                     [] kind = "categories" -> ReadCategory(v.items[i])]
  PROVE  \/ (\A i \in DOMAIN v.items : Item[i] = "read") /\ ReadList(kind, v) = "read"
         \/ \E i \in DOMAIN v.items : Item[i] # "read" /\ ReadList(kind, v) = Item[i]
<1>1. DOMAIN v.items \subseteq Nat
  BY JsonShape
<1>2. ReadList(kind, v) = FirstError(Item)
  BY DEF ReadList
<1>3. DOMAIN Item = DOMAIN v.items
  OBVIOUS
<1> QED BY <1>1, <1>2, <1>3, FirstErrorIsOne

(* The members of an object are read when all are, and else as one of the  *)
(* errors.                                                                 *)
LEMMA MembersAreRead ==
  ASSUME NEW read, DOMAIN read \subseteq Names
  PROVE  \/ (\A f \in DOMAIN read : read[f] = "read") /\ InNameOrder(read) = "read"
         \/ \E f \in DOMAIN read : read[f] # "read" /\ InNameOrder(read) = read[f]
<1> DEFINE all == [i \in DOMAIN NameOrder |->
                     IF NameOrder[i] \in DOMAIN read THEN read[NameOrder[i]] ELSE "read"]
<1>1. DOMAIN all = DOMAIN NameOrder /\ DOMAIN all \subseteq Nat
  BY NamesAre
<1>2. InNameOrder(read) = FirstError(all)
  BY DEF InNameOrder
<1>3. \A f \in DOMAIN read : \E i \in DOMAIN NameOrder : NameOrder[i] = f
  BY DEF Names
<1>4. CASE (\A i \in DOMAIN all : all[i] = "read") /\ FirstError(all) = "read"
  <2>1. ASSUME NEW f \in DOMAIN read PROVE read[f] = "read"
    <3>1. PICK i \in DOMAIN NameOrder : NameOrder[i] = f
      BY <1>3
    <3>2. all[i] = read[f]
      BY <3>1
    <3> QED BY <3>1, <3>2, <1>4, <1>1
  <2> QED BY <2>1, <1>2, <1>4
<1>5. CASE \E i \in DOMAIN all : all[i] # "read" /\ FirstError(all) = all[i]
  BY <1>1, <1>2, <1>5
<1> HIDE DEF all
<1> QED BY <1>1, <1>4, <1>5, FirstErrorIsOne

(* How the decoder of one value agrees with its schema: what the schema    *)
(* admits is no violation of it, what is read is what the schema admits,   *)
(* and means what the field is for.                                        *)
Takes(kind, v) == Admits(kind, v) => ReadValue(kind, v) # "schema"
TakesNoMore(kind, v) == ReadValue(kind, v) = "read" => Admits(kind, v)
Means(kind, v) ==
    /\ kind \in {"id", "day"} => v = Text(kind)
    /\ Moments(kind, v) \subseteq {Text("moment")}
    /\ kind = "amount" => v = Number("count")

(* Strings of a format (input.rs:29-122), and a deadline that may be null  *)
(* (296-341).                                                              *)
LEMMA StringsAgree ==
  ASSUME NEW kind \in {"id", "day", "moment", "moment_or_null"}, NEW v, IsJson(v)
  PROVE  Takes(kind, v) /\ TakesNoMore(kind, v) /\ (ReadValue(kind, v) = "read" => Means(kind, v))
<1>1. /\ v.json = "null" <=> v = Null
      /\ v.json = "string" => v = Text(v.text)
  BY JsonShape
<1>2. CASE kind \in {"id", "day", "moment"}
  <2>1. ReadValue(kind, v) = ReadString(kind, v)
    BY <1>2 DEF ReadValue
  <2>2. Admits(kind, v) <=> v.json = "string"
    BY <1>2 DEF Admits, IsString
  <2>3. ReadString(kind, v) = "read" => v = Text(kind)
    BY <1>1 DEF ReadString
  <2> QED BY <1>2, <2>1, <2>2, <2>3 DEF Takes, TakesNoMore, Means, Moments, ReadString
<1>3. CASE kind = "moment_or_null"
  <2>1. ReadValue(kind, v) = ReadDeadline(v)
    BY <1>3 DEF ReadValue
  <2>2. Admits(kind, v) <=> v.json \in {"null", "string"}
    BY <1>3 DEF Admits, IsString
  <2>3. ReadDeadline(v) = "read" => v = Null \/ v = Text("moment")
    BY <1>1 DEF ReadDeadline, ReadString
  <2>4. ReadDeadline(v) # "schema" <=> v.json \in {"null", "string"}
    BY <1>1 DEF ReadDeadline, ReadString
  <2> QED BY <1>3, <2>1, <2>2, <2>3, <2>4 DEF Takes, TakesNoMore, Means, Moments
<1> QED BY <1>2, <1>3

(* Amounts (input.rs:124-179) and names (181-211).                         *)
LEMMA AmountsAgree ==
  ASSUME NEW v, IsJson(v)
  PROVE  /\ Takes("amount", v) /\ TakesNoMore("amount", v)
         /\ ReadValue("amount", v) = "read" => Means("amount", v)
<1>1. v.json = "number" => v = Number(v.number)
  BY JsonShape
<1>2. ReadValue("amount", v) = ReadAmount(v) /\ (Admits("amount", v) <=> IsAmount(v))
  BY DEF ReadValue, Admits
<1>3. /\ IsAmount(v) => ReadAmount(v) # "schema"
      /\ ReadAmount(v) = "read" => v.json = "number" /\ v.number = "count"
  BY DEF IsAmount, ReadAmount
<1> QED BY <1>1, <1>2, <1>3 DEF Takes, TakesNoMore, Means, Moments, IsAmount

(* A name must not be empty.                                               *)
LEMMA NameAgrees ==
  ASSUME NEW v
  PROVE  /\ Takes("name", v) /\ TakesNoMore("name", v)
         /\ ReadName(v) = "read" <=> IsName(v)
  BY DEF Takes, TakesNoMore, ReadValue, Admits, ReadName, IsName, IsString

(* One of a number of words (input.rs:666-682), or a category that may be  *)
(* null (789-818).                                                         *)
LEMMA ChoicesAgree ==
  ASSUME NEW v, IsJson(v), NEW choices
  PROVE  /\ ReadChoice(choices, v) = "read" <=> IsOneOf(choices, v)
         /\ ReadCategory(v) = "read" <=> IsCategoryOrNull(v)
         /\ ReadChoice(choices, v) \in {"read", "schema"}
         /\ Takes("category_or_null", v) /\ TakesNoMore("category_or_null", v)
<1>1. ReadChoice(choices, v) = "read" <=> IsOneOf(choices, v)
  BY DEF ReadChoice, IsOneOf, IsString
<1>2. ReadCategory(v) = "read" <=> IsCategoryOrNull(v)
  BY DEF ReadCategory, IsCategoryOrNull, ReadChoice, IsOneOf, IsString
<1>3. /\ ReadValue("category_or_null", v) = ReadCategory(v)
      /\ Admits("category_or_null", v) <=> IsCategoryOrNull(v)
  BY DEF ReadValue, Admits
<1> QED BY <1>1, <1>2, <1>3 DEF Takes, TakesNoMore, ReadChoice

(* Lists of names (input.rs:213-254), of states (701-750) and of           *)
(* categories (752-818).                                                   *)
LEMMA ListsAgree ==
  ASSUME NEW kind \in {"names", "statuses", "categories"}, NEW v, IsJson(v),
         \A x \in Parts(v) : IsJson(x)
  PROVE  Takes(kind, v) /\ TakesNoMore(kind, v)
<1>1. CASE v.json # "array"
  <2>1. ~ Admits(kind, v)
    BY <1>1 DEF Admits, IsNames, IsStatuses, IsCategories
  <2>2. ReadValue(kind, v) = "schema"
    BY <1>1 DEF ReadValue, ReadNames, ReadList
  <2> QED BY <2>1, <2>2 DEF Takes, TakesNoMore
<1>2. CASE v.json = "array"
  <2> DEFINE Item == [i \in DOMAIN v.items |->
                        CASE kind = "names" -> ReadName(v.items[i])
                          [] kind = "statuses" -> ReadChoice(Statuses, v.items[i])
                          [] kind = "categories" -> ReadCategory(v.items[i])]
  <2>1. \/ (\A i \in DOMAIN v.items : Item[i] = "read") /\ ReadList(kind, v) = "read"
        \/ \E i \in DOMAIN v.items : Item[i] # "read" /\ ReadList(kind, v) = Item[i]
    <3>1. Item = [i \in DOMAIN v.items |->
                        CASE kind = "names" -> ReadName(v.items[i])
                          [] kind = "statuses" -> ReadChoice(Statuses, v.items[i])
                          [] kind = "categories" -> ReadCategory(v.items[i])]
      OBVIOUS
    <3> HIDE DEF Item
    <3> QED BY <1>2, <3>1, ListIsRead
  <2>2. \A i \in DOMAIN v.items : IsJson(v.items[i])
    BY <1>2 DEF Parts
  <2>3. CASE kind = "names"
    <3>1. \A i \in DOMAIN v.items : Item[i] = "read" <=> IsName(v.items[i])
      BY <2>3, NameAgrees
    <3>2. IsNames(v) <=> v.items # << >> /\ \A i \in DOMAIN v.items : IsName(v.items[i])
      BY <1>2 DEF IsNames
    <3>3. ReadValue(kind, v) = IF ReadList(kind, v) = "read" /\ v.items = << >> THEN "schema" ELSE ReadList(kind, v)
      BY <2>3 DEF ReadValue, ReadNames
    <3>4. Admits(kind, v) <=> IsNames(v)
      BY <2>3 DEF Admits
    <3> HIDE DEF Item
    <3> QED BY <2>1, <3>1, <3>2, <3>3, <3>4 DEF Takes, TakesNoMore
  <2>4. CASE kind = "statuses"
    <3>1. \A i \in DOMAIN v.items : Item[i] = "read" <=> IsOneOf(Statuses, v.items[i])
      BY <2>2, <2>4, ChoicesAgree
    <3>2. IsStatuses(v) <=> \A i \in DOMAIN v.items : IsOneOf(Statuses, v.items[i])
      BY <1>2 DEF IsStatuses
    <3>3. ReadValue(kind, v) = ReadList(kind, v) /\ (Admits(kind, v) <=> IsStatuses(v))
      BY <2>4 DEF ReadValue, Admits
    <3> HIDE DEF Item
    <3> QED BY <2>1, <3>1, <3>2, <3>3 DEF Takes, TakesNoMore
  <2>5. CASE kind = "categories"
    <3>1. \A i \in DOMAIN v.items : Item[i] = "read" <=> IsCategoryOrNull(v.items[i])
      BY <2>2, <2>5, ChoicesAgree
    <3>2. IsCategories(v) <=> \A i \in DOMAIN v.items : IsCategoryOrNull(v.items[i])
      BY <1>2 DEF IsCategories
    <3>3. ReadValue(kind, v) = ReadList(kind, v) /\ (Admits(kind, v) <=> IsCategories(v))
      BY <2>5 DEF ReadValue, Admits
    <3> HIDE DEF Item
    <3> QED BY <2>1, <3>1, <3>2, <3>3 DEF Takes, TakesNoMore
  <2> QED BY <2>3, <2>4, <2>5
<1> QED BY <1>1, <1>2

(* A period given as an object (input.rs:594-699, 1027-1063).              *)
LEMMA PeriodAgrees ==
  ASSUME NEW v, IsJson(v), \A x \in Parts(v) : IsJson(x), v.json = "object"
  PROVE  /\ Takes("period", v) /\ TakesNoMore("period", v)
         /\ ReadValue("period", v) = "read" => Means("period", v)
<1> DEFINE read == [f \in DOMAIN v.members |-> ReadMember(f, v.members[f])]
           given == InNameOrder(read)
<1>1. DOMAIN v.members \subseteq Names /\ \A f \in DOMAIN v.members : IsJson(v.members[f])
  BY JsonShape DEF Parts
<1>2. \/ (\A f \in DOMAIN v.members : read[f] = "read") /\ given = "read"
      \/ \E f \in DOMAIN v.members : read[f] # "read" /\ given = read[f]
  <2>1. DOMAIN read = DOMAIN v.members
    OBVIOUS
  <2> HIDE DEF read
  <2> QED BY <1>1, <2>1, MembersAreRead
<1>3. ReadValue("period", v) = IF given = "read" /\ ~ (DOMAIN TaskPeriodInput \subseteq DOMAIN v.members)
                               THEN "schema" ELSE given
  BY DEF ReadValue, ReadPeriod
<1>4. Admits("period", v) <=> IsPeriod(v)
  BY DEF Admits
<1>5. \A f : f \in DOMAIN TaskPeriodInput <=> f \in {"field", "from", "until"}
  BY DEF TaskPeriodInput
<1>6. ASSUME NEW f \in DOMAIN v.members
      PROVE  /\ f = "field" => (read[f] = "read" <=> IsOneOf(PeriodFields, v.members[f]))
             /\ f = "field" => read[f] \in {"read", "schema"}
             /\ f \in {"from", "until"} => (read[f] # "schema" <=> IsString(v.members[f]))
             /\ f \in {"from", "until"} => (read[f] = "read" => v.members[f] = Text("moment"))
             /\ f \notin {"field", "from", "until"} => read[f] = "schema"
  <2>1. v.members[f].json = "string" => v.members[f] = Text(v.members[f].text)
    BY <1>1, JsonShape
  <2>2. f = "field" => read[f] = ReadChoice(PeriodFields, v.members[f])
    BY DEF ReadMember
  <2>3. f \in {"from", "until"} => read[f] = ReadString("moment", v.members[f])
    BY DEF ReadMember
  <2>4. f \notin {"field", "from", "until"} => read[f] = "schema"
    BY DEF ReadMember
  <2> HIDE DEF read
  <2>5. /\ f = "field" => (read[f] = "read" <=> IsOneOf(PeriodFields, v.members[f]))
        /\ f = "field" => read[f] \in {"read", "schema"}
    BY <1>1, <2>2, ChoicesAgree
  <2>6. /\ f \in {"from", "until"} => (read[f] # "schema" <=> IsString(v.members[f]))
        /\ f \in {"from", "until"} => (read[f] = "read" => v.members[f] = Text("moment"))
    BY <2>1, <2>3 DEF ReadString, IsString
  <2> QED BY <2>4, <2>5, <2>6
<1> HIDE DEF read, given
<1>7. Takes("period", v)
  <2> SUFFICES ASSUME IsPeriod(v) PROVE ReadValue("period", v) # "schema"
    BY <1>4 DEF Takes
  <2>1. \A f : f \in DOMAIN v.members <=> f \in {"field", "from", "until"}
    BY <1>5 DEF IsPeriod
  <2>2. /\ IsOneOf(PeriodFields, v.members["field"])
        /\ IsString(v.members["from"]) /\ IsString(v.members["until"])
    BY DEF IsPeriod
  <2>3. \A f \in DOMAIN v.members : read[f] # "schema"
    BY <1>6, <2>1, <2>2
  <2>4. DOMAIN TaskPeriodInput \subseteq DOMAIN v.members
    BY <1>5, <2>1
  <2> QED BY <1>2, <1>3, <2>3, <2>4
<1>8. ASSUME ReadValue("period", v) = "read"
      PROVE  Admits("period", v) /\ Means("period", v)
  <2>1. given = "read" /\ DOMAIN TaskPeriodInput \subseteq DOMAIN v.members
    BY <1>3, <1>8
  <2>2. \A f \in DOMAIN v.members : read[f] = "read"
    BY <1>2, <2>1
  <2>3. \A f : f \in DOMAIN v.members <=> f \in {"field", "from", "until"}
    BY <1>5, <1>6, <2>1, <2>2
  <2>4. DOMAIN v.members = DOMAIN TaskPeriodInput
    BY <1>5, <2>3
  <2>5. IsOneOf(PeriodFields, v.members["field"])
    BY <1>6, <2>2, <2>3
  <2>6. /\ v.members["from"] = Text("moment") /\ IsString(v.members["from"])
        /\ v.members["until"] = Text("moment") /\ IsString(v.members["until"])
    BY <1>6, <2>2, <2>3
  <2>7. IsPeriod(v)
    BY <2>4, <2>5, <2>6 DEF IsPeriod
  <2>8. Moments("period", v) = {v.members["from"], v.members["until"]}
    BY DEF Moments
  <2> QED BY <1>4, <2>6, <2>7, <2>8 DEF Means
<1> QED BY <1>7, <1>8 DEF TakesNoMore

(* A period given as the list of its fields, which the schema does not     *)
(* admit, is read all the same, and means as much.                         *)
LEMMA PeriodListMeans ==
  ASSUME NEW v, IsJson(v), \A x \in Parts(v) : IsJson(x), v.json # "object"
  PROVE  /\ Takes("period", v)
         /\ ReadValue("period", v) = "read" => v.json = "array" /\ Means("period", v)
<1>1. ~ Admits("period", v)
  BY DEF Admits, IsPeriod
<1>2. CASE v.json # "array"
  BY <1>1, <1>2 DEF Takes, ReadValue, ReadPeriod
<1>3. ASSUME v.json = "array", ReadValue("period", v) = "read"
      PROVE  Means("period", v)
  <2> DEFINE declared == <<"field", "from", "until">>
             n == IF Len(v.items) < 3 THEN Len(v.items) ELSE 3
             Item == [i \in 1..n |-> ReadMember(declared[i], v.items[i])]
  <2>1. Len(v.items) \in Nat /\ DOMAIN v.items = 1..Len(v.items)
    BY <1>3, JsonShape
  <2>2. ReadValue("period", v) = IF FirstError(Item) = "read" /\ Len(v.items) # 3
                                 THEN "schema" ELSE FirstError(Item)
    BY <1>3 DEF ReadValue, ReadPeriod
  <2>3. FirstError(Item) = "read" /\ Len(v.items) = 3
    BY <1>3, <2>2
  <2>4. DOMAIN Item = 1..3 /\ DOMAIN Item \subseteq Nat
    BY <2>3
  <2>5. \A i \in DOMAIN Item : Item[i] = "read"
    <3> HIDE DEF Item
    <3> QED BY <2>3, <2>4, FirstErrorIsOne
  <2>6. ReadMember("from", v.items[2]) = "read" /\ ReadMember("until", v.items[3]) = "read"
    BY <2>4, <2>5, <2>3
  <2>7. IsJson(v.items[2]) /\ IsJson(v.items[3])
    BY <1>3, <2>1, <2>3 DEF Parts
  <2>8. /\ v.items[2].json = "string" => v.items[2] = Text(v.items[2].text)
        /\ v.items[3].json = "string" => v.items[3] = Text(v.items[3].text)
    BY <2>7, JsonShape
  <2>9. v.items[2] = Text("moment") /\ v.items[3] = Text("moment")
    BY <2>6, <2>8 DEF ReadMember, ReadString
  <2>10. Moments("period", v) = {v.items[2], v.items[3]}
    BY <1>3 DEF Moments
  <2> QED BY <2>9, <2>10 DEF Means
<1> QED BY <1>1, <1>2, <1>3 DEF Takes

(* The decoder and the schema agree on every kind of value.                *)
LEMMA ValuesAgree ==
  ASSUME NEW kind \in Kinds, NEW v, IsJson(v), \A x \in Parts(v) : IsJson(x)
  PROVE  /\ Takes(kind, v)
         /\ ReadValue(kind, v) = "read" => Means(kind, v)
         /\ kind # "period" \/ v.json # "array" => TakesNoMore(kind, v)
<1>1. CASE kind \in {"id", "day", "moment", "moment_or_null"}
  BY <1>1, StringsAgree
<1>2. CASE kind = "amount"
  BY <1>2, AmountsAgree
<1>3. CASE kind = "name"
  BY <1>3, NameAgrees DEF Means, Moments
<1>4. CASE kind = "category_or_null"
  BY <1>4, ChoicesAgree DEF Means, Moments
<1>5. CASE kind \in {"names", "statuses", "categories"}
  BY <1>5, ListsAgree DEF Means, Moments
<1>6. CASE kind = "period"
  BY <1>6, PeriodAgrees, PeriodListMeans DEF TakesNoMore
<1> QED BY <1>1, <1>2, <1>3, <1>4, <1>5, <1>6 DEF Kinds

(* Whatever the arguments of a call are, and in whatever order they are    *)
(* read: a call that the published schema admits is not answered with the  *)
(* error of the protocol, one that is read means something, and but for a  *)
(* period given as a list it is one that the schema admits                 *)
(* (input.rs:892-995).                                                     *)
THEOREM DecoderAgrees ==
  ASSUME NEW tool \in Tools, NEW v, IsArguments(v)
  PROVE  /\ SchemaAdmits(tool, v) => Decode(tool, v) # "schema"
         /\ Decode(tool, v) = "read" => MeansSomething(tool, v)
         /\ /\ Decode(tool, v) = "read"
            /\ \A f \in DOMAIN v.members : Input[tool][f] = "period" => v.members[f].json # "array"
            => SchemaAdmits(tool, v)
<1> DEFINE read == [f \in DOMAIN v.members |-> ReadValue(Input[tool][f], v.members[f])]
<1>1. CASE ~ Preflight(tool, v)
  BY <1>1 DEF Preflight, SchemaAdmits, Decode
<1>2. CASE Preflight(tool, v)
  <2>1. v.json = "object" /\ DOMAIN v.members \subseteq DOMAIN Input[tool]
    BY <1>2 DEF Preflight
  <2>2. ASSUME NEW f \in DOMAIN v.members
        PROVE  /\ f \in Names /\ Input[tool][f] \in Kinds
               /\ IsJson(v.members[f]) /\ \A x \in Parts(v.members[f]) : IsJson(x)
    BY <2>1, FieldsOfTools DEF IsArguments, Parts
  <2>3. ASSUME NEW f \in DOMAIN v.members
        PROVE  /\ Admits(Input[tool][f], v.members[f]) => read[f] # "schema"
               /\ read[f] = "read" => Means(Input[tool][f], v.members[f])
               /\ /\ read[f] = "read"
                  /\ Input[tool][f] = "period" => v.members[f].json # "array"
                  => Admits(Input[tool][f], v.members[f])
    BY <2>2, ValuesAgree DEF Takes, TakesNoMore
  <2>4. DOMAIN read = DOMAIN v.members /\ Decode(tool, v) = InNameOrder(read)
    BY <1>2 DEF Decode
  <2> HIDE DEF read
  <2>5. \/ (\A f \in DOMAIN v.members : read[f] = "read") /\ Decode(tool, v) = "read"
        \/ \E f \in DOMAIN v.members : read[f] # "read" /\ Decode(tool, v) = read[f]
    BY <2>2, <2>4, MembersAreRead
  <2>6. SchemaAdmits(tool, v) => Decode(tool, v) # "schema"
    BY <2>3, <2>5 DEF SchemaAdmits
  <2>7. ASSUME Decode(tool, v) = "read" PROVE MeansSomething(tool, v)
    <3>1. \A f \in DOMAIN v.members : Means(Input[tool][f], v.members[f])
      BY <2>3, <2>5, <2>7
    <3>2. Required(tool) \subseteq DOMAIN v.members
      BY <1>2 DEF Preflight
    <3>3. tool = "update_task" => \E f \in UpdateTaskFields : Patch(v, f) # "keep"
      BY <1>2 DEF Preflight, Patch
    <3> QED BY <3>1, <3>2, <3>3 DEF MeansSomething, Means
  <2>8. ASSUME Decode(tool, v) = "read",
               \A f \in DOMAIN v.members : Input[tool][f] = "period" => v.members[f].json # "array"
        PROVE  SchemaAdmits(tool, v)
    <3>1. \A f \in DOMAIN v.members : Admits(Input[tool][f], v.members[f])
      BY <2>3, <2>5, <2>8
    <3> QED BY <1>2, <3>1 DEF Preflight, SchemaAdmits
  <2> QED BY <2>6, <2>7, <2>8
<1> QED BY <1>1, <1>2

-----------------------------------------------------------------------------
(***************************************************************************)
(* The link that is given to a browser                                     *)
(***************************************************************************)
(* Where the bisection of a name goes on from two bounds that it comes to: *)
(* the lower one is nothing or a link, the upper one is beyond the link or *)
(* too short for one, and then there is nothing below it.                  *)
Bounds(end) == (0..end) \X (0..end)

Reached(name, p) ==
    /\ p[1] < p[2]
    /\ p[1] = 0 \/ Link!IsLink(name, p[1])
    /\ p[2] > name.link \/ (p[1] = 0 /\ p[2] < Shortest)

(* The whole link or nothing; the link when the bounds are not too near.   *)
Finds(name, p, found) ==
    /\ found \in {0, name.link}
    /\ p[2] > name.link /\ name.link + 1 >= 2 * Shortest => found = name.link

LEMMA NamesHaveLinks ==
    ASSUME NEW name \in Link!Names
    PROVE  name.link \in Nat /\ name.rest \in Nat
<1>1. MaxLink \in Nat
    BY LinkAssumption
<1>2. CASE name = Link!NoLink
    BY <1>2 DEF Link!NoLink
<1>3. CASE name \in [http : {TRUE}, link : 0..MaxLink, rest : 0..MaxLink]
    <2>1. name.link \in 0..MaxLink /\ name.rest \in 0..MaxLink
        BY <1>3
    <2> QED BY <1>1, <2>1
<1> QED BY <1>2, <1>3 DEF Link!Names

LEMMA BisectionFinds ==
    ASSUME NEW name \in Link!Names, NEW end \in Nat, end > name.link
    PROVE  Finds(name, <<0, end>>, Link!Bisected(name, end))
<1> DEFINE S == Bounds(end)
           V == 0..end
           mid(p) == (p[1] + p[2]) \div 2
           next(p) == IF Link!IsLink(name, mid(p)) THEN <<mid(p), p[2]>> ELSE <<p[1], mid(p)>>
           Value(p, f) == IF p[2] - p[1] <= 1 THEN p[1] ELSE f[next(p)]
           rank == [p \in S |-> IF p[1] < p[2] THEN p[2] - p[1] ELSE 0]
           step == [q \in S \X [S -> V] |-> Value(q[1], q[2])]
<1>0. Shortest \in Nat \ {0} /\ name.link \in Nat
    BY LinkAssumption, NamesHaveLinks
<1>1. \A p \in S : p[1] \in 0..end /\ p[2] \in 0..end /\ p = <<p[1], p[2]>>
    BY DEF Bounds
<1>2. \A p \in S : ~ (p[2] - p[1] <= 1) =>
          /\ mid(p) \in 0..end /\ p[1] < mid(p) /\ mid(p) < p[2]
          /\ next(p) \in S
    <2> SUFFICES ASSUME NEW p \in S, ~ (p[2] - p[1] <= 1)
                 PROVE  /\ mid(p) \in 0..end /\ p[1] < mid(p) /\ mid(p) < p[2]
                        /\ next(p) \in S
        OBVIOUS
    <2>1. mid(p) \in 0..end /\ p[1] < mid(p) /\ mid(p) < p[2]
        BY <1>1
    <2> HIDE DEF mid
    <2>2. next(p) \in S
        BY <1>1, <2>1 DEF Bounds
    <2> QED BY <2>1, <2>2
<1>3. rank \in [S -> 0..end]
    BY <1>1
<1>4. \A p \in S : ~ (p[2] - p[1] <= 1) => rank[next(p)] < rank[p]
    <2> SUFFICES ASSUME NEW p \in S, ~ (p[2] - p[1] <= 1) PROVE rank[next(p)] < rank[p]
        OBVIOUS
    <2>1. mid(p) \in Int /\ p[1] \in Int /\ p[2] \in Int /\ p[1] < mid(p) /\ mid(p) < p[2] /\ next(p) \in S
        BY <1>1, <1>2
    <2> HIDE DEF mid, S
    <2>2. rank[p] = p[2] - p[1]
        BY <2>1
    <2>3. rank[next(p)] = p[2] - mid(p) \/ rank[next(p)] = mid(p) - p[1]
        BY <2>1
    <2> QED BY <2>1, <2>2, <2>3
<1> HIDE DEF mid, next, rank
<1>5. \A p \in S, f \in [S -> V] : Value(p, f) \in V
    BY <1>1, <1>2
<1>6. \A p \in S, f \in [S -> V] : step[<<p, f>>] = Value(p, f)
    OBVIOUS
<1>7. Recursion(S, V, end, rank, step)
    <2>1. step \in [S \X [S -> V] -> V]
        BY <1>5
    <2>2. \A p \in S : \A g, h \in [S -> V] :
              (\A y \in S : rank[y] < rank[p] => g[y] = h[y]) => Value(p, g) = Value(p, h)
        BY <1>1, <1>2, <1>4
    <2> HIDE DEF step, Value, S, V
    <2>3. \A x \in S : \A g, h \in [S -> V] :
              (\A y \in S : rank[y] < rank[x] => g[y] = h[y]) => step[<<x, g>>] = step[<<x, h>>]
        BY <1>6, <2>2
    <2>4. V # {}
        BY DEF V
    <2> QED BY <1>3, <2>1, <2>3, <2>4 DEF Recursion, V
<1>8. PICK f \in [S -> V] : \A p \in S : f[p] = step[<<p, f>>]
    <2> HIDE DEF step, S, V
    <2> QED BY <1>7, RecursionExists
<1>9. f = [p \in S |-> Value(p, f)]
    <2>1. \A p \in S : f[p] = Value(p, f)
        BY <1>6, <1>8
    <2> HIDE DEF Value, step, S
    <2> QED BY <1>8, <2>1
<1> DEFINE w == CHOOSE g : g = [p \in S |-> Value(p, g)]
<1>10. Link!Bisected(name, end) = w[<<0, end>>]
    BY DEF Link!Bisected, Bounds, next, mid
<1>11. w = [p \in S |-> Value(p, w)]
    <2> HIDE DEF Value, S
    <2> QED BY <1>9
<1>12. \A p \in S : w[p] = Value(p, w)
    <2> HIDE DEF Value, S, w
    <2> QED BY <1>11
<1> HIDE DEF w
<1> DEFINE Good == {p \in S : Reached(name, p) => Finds(name, p, w[p])}
<1>13. ASSUME NEW p \in S, \A q \in S : rank[q] < rank[p] => q \in Good, Reached(name, p)
       PROVE  Finds(name, p, w[p])
    <2>1. CASE p[2] - p[1] <= 1
        <3>1. w[p] = p[1]
            BY <1>12, <2>1
        <3> QED BY <1>0, <1>1, <1>13, <2>1, <3>1 DEF Reached, Finds, Link!IsLink
    <2>2. CASE ~ (p[2] - p[1] <= 1)
        <3>1. /\ next(p) \in S /\ rank[next(p)] < rank[p]
              /\ mid(p) \in Int /\ p[1] \in Int /\ p[2] \in Int /\ p[1] < mid(p) /\ mid(p) < p[2] /\ p[1] >= 0
            BY <1>1, <1>2, <1>4, <2>2
        <3>2. w[p] = w[next(p)]
            BY <1>12, <2>2
        <3>3. Reached(name, next(p)) => Finds(name, next(p), w[next(p)])
            BY <1>13, <3>1
        <3>4. mid(p) >= Shortest \/ mid(p) < Shortest
            BY <1>0, <3>1
        <3>5. CASE Link!IsLink(name, mid(p))
            <4>1. next(p) = <<mid(p), p[2]>>
                BY <3>5 DEF next
            <4>2. p[2] > name.link
                BY <1>0, <1>13, <3>1, <3>5 DEF Reached, Link!IsLink
            <4> QED BY <1>0, <3>1, <3>2, <3>3, <3>5, <4>1, <4>2 DEF Reached, Finds
        <3>6. CASE ~ Link!IsLink(name, mid(p))
            <4>1. next(p) = <<p[1], mid(p)>>
                BY <3>6 DEF next
            <4>2. mid(p) > name.link \/ mid(p) < Shortest
                BY <1>0, <3>1, <3>6 DEF Link!IsLink
            <4>3. mid(p) < Shortest => p[1] = 0
                BY <1>0, <1>13, <3>1 DEF Reached, Link!IsLink
            <4>4. Reached(name, next(p))
                BY <1>0, <1>13, <3>1, <4>1, <4>2, <4>3 DEF Reached
            <4>5. name.link + 1 >= 2 * Shortest /\ p[2] > name.link => mid(p) > name.link
                <5>1. ASSUME mid(p) < Shortest, name.link + 1 >= 2 * Shortest, p[2] > name.link PROVE FALSE
                    <6>1. p[1] = 0 /\ mid(p) = p[2] \div 2
                        BY <4>3, <5>1, <3>1 DEF mid
                    <6>2. p[2] \in Int /\ p[2] >= 2 * Shortest /\ Shortest \in Int
                        BY <1>0, <3>1, <5>1
                    <6> QED BY <5>1, <6>1, <6>2
                <5> QED BY <1>0, <3>1, <4>2, <5>1
            <4> QED BY <3>1, <3>2, <3>3, <4>1, <4>4, <4>5 DEF Finds
        <3> QED BY <3>5, <3>6
    <2> QED BY <2>1, <2>2
<1>14. Inherited(Good, S, end, rank)
    <2>1. \A p \in S : (\A q \in S : rank[q] < rank[p] => q \in Good) => p \in Good
        BY <1>13
    <2> HIDE DEF Good, S
    <2> QED BY <1>3, <2>1 DEF Inherited, Good
<1>15. Good = S
    <2> HIDE DEF Good, S
    <2> QED BY <1>14, RankInduction
<1>16. <<0, end>> \in S /\ Reached(name, <<0, end>>)
    BY <1>0 DEF Bounds, Reached
<1> QED BY <1>10, <1>15, <1>16

(* What is left of the names of the ancestors are names.                   *)
LinkInv ==
    /\ names \in Seq(Link!Names)
    /\ search = "opened" =>
         names # << >> /\ Head(names).http /\ opened = Link!ExtractUrl(Head(names))

LEMMA LinkInvariance ==
    /\ Link!Init => LinkInv
    /\ LinkInv /\ [Link!Next]_linkVars => LinkInv'
<1>1. Link!Init => LinkInv
    BY DEF Link!Init, LinkInv
<1>2. LinkInv /\ UNCHANGED linkVars => LinkInv'
    BY DEF LinkInv, linkVars
<1>3. ASSUME LinkInv, Link!Next PROVE LinkInv'
    <2> USE <1>3 DEF LinkInv, Link!Next, Link!OpenLink
    <2>0. search = "on"
        OBVIOUS
    <2>1. CASE names = << >> /\ search' = "no link" /\ UNCHANGED <<names, opened>>
        BY <2>1
    <2>2. CASE names # << >> /\ ~ Head(names).http /\ names' = Tail(names) /\ UNCHANGED <<search, opened>>
        BY <2>0, <2>2
    <2>3. CASE /\ names # << >> /\ Head(names).http
               /\ opened' = Link!ExtractUrl(Head(names)) /\ search' = "opened"
               /\ UNCHANGED names
        BY <2>3
    <2> QED BY <2>1, <2>2, <2>3
<1> QED BY <1>1, <1>2, <1>3

LEMMA LinkIsWhole == LinkInv => Link!WholeLinkOrNothing
<1> SUFFICES ASSUME LinkInv, search = "opened" PROVE Link!WholeLinkOrNothing
    BY DEF Link!WholeLinkOrNothing
<1> DEFINE name == Head(names)
<1>1. name \in Link!Names
    BY DEF LinkInv
<1>2. name.link \in Nat /\ name.rest \in Nat
    BY <1>1, NamesHaveLinks
<1>3. Finds(name, <<0, name.link + name.rest + 1>>, opened)
    <2> HIDE DEF name
    <2>1. name.link + name.rest + 1 \in Nat /\ name.link + name.rest + 1 > name.link
        BY <1>2
    <2> QED BY <1>1, <2>1, BisectionFinds DEF LinkInv, Link!ExtractUrl, name
<1> QED BY <1>2, <1>3 DEF Finds, Link!WholeLinkOrNothing

-----------------------------------------------------------------------------
(***************************************************************************)
(* The configuration                                                       *)
(***************************************************************************)
(* A list of days that is taken leaves a day out: seven different ones     *)
(* would be all, and more there are not.                                   *)
LEMMA SomeDayIsLeft ==
    ASSUME NEW v, Config!SkipsDays(v),
           v.list \in Seq({v.list[k] : k \in DOMAIN v.list}),
           \A k \in DOMAIN v.list : Config!Is("text", v.list[k]) => v.list[k] = Config!Text(v.list[k].text)
    PROVE  \E d \in 0..6 : Config!DayNames[d + 1] \notin {v.list[k].text : k \in DOMAIN v.list}
<1> SUFFICES ASSUME \A d \in 0..6 : Config!DayNames[d + 1] \in {v.list[k].text : k \in DOMAIN v.list}
             PROVE  FALSE
    OBVIOUS
<1> DEFINE n == Len(v.list)
           Names7 == {Config!DayNames[i] : i \in 1..7}
           f == [k \in 1..n |-> v.list[k].text]
           g == [i \in 1..7 |-> Config!DayNames[i]]
<1>1. n \in Nat /\ DOMAIN v.list = 1..n /\ n # 7
    BY DEF Config!SkipsDays
<1>2. \A k \in 1..n : v.list[k].text \in Names7 /\ v.list[k] = Config!Text(v.list[k].text)
    <2>1. Config!ToSet(Config!DayNames) = Names7
        BY DEF Config!ToSet, Config!DayNames
    <2> QED BY <1>1, <2>1 DEF Config!SkipsDays, Config!NamesDay
<1>3. f \in [1..n -> Names7]
    BY <1>2
<1>4. \A x, y \in 1..n : f[x] = f[y] => x = y
    BY <1>1, <1>2 DEF Config!SkipsDays, Config!IsInjective
<1>5. \A t \in Names7 : \E x \in 1..n : f[x] = t
    <2> SUFFICES ASSUME NEW i \in 1..7 PROVE \E x \in 1..n : f[x] = Config!DayNames[i]
        OBVIOUS
    <2>1. i - 1 \in 0..6 /\ (i - 1) + 1 = i
        OBVIOUS
    <2> QED BY <1>1, <2>1
<1>6. g \in [1..7 -> Names7] /\ \A t \in Names7 : \E x \in 1..7 : g[x] = t
    OBVIOUS
<1>7. \A x, y \in 1..7 : g[x] = g[y] => x = y
    <2>1. /\ g[1] = "Mon" /\ g[2] = "Tue" /\ g[3] = "Wed" /\ g[4] = "Thu"
          /\ g[5] = "Fri" /\ g[6] = "Sat" /\ g[7] = "Sun"
        BY DEF Config!DayNames
    <2>2. \A x \in 1..7 : x \in {1, 2, 3, 4, 5, 6, 7}
        OBVIOUS
    <2> HIDE DEF g
    <2> QED BY <2>1, <2>2
<1>8. /\ IsFiniteSet(1..n) /\ Cardinality(1..n) = n
      /\ IsFiniteSet(1..7) /\ Cardinality(1..7) = 7
    <2>1. 7 \in Nat
        OBVIOUS
    <2> HIDE DEF n
    <2> QED BY <1>1, <2>1, OneTo
<1>9. Cardinality(Names7) = n
    <2>1. IsFiniteSet(1..n)
        BY <1>8
    <2> HIDE DEF f, Names7, n
    <2>2. Cardinality(Names7) = Cardinality(1..n)
        BY <1>3, <1>4, <1>5, <2>1, SameSize
    <2> QED BY <1>8, <2>2
<1>10. Cardinality(Names7) = 7
    <2> HIDE DEF g, Names7
    <2> QED BY <1>6, <1>7, <1>8, SameSize
<1> QED BY <1>1, <1>9, <1>10

(* What was read has been taken, and the days that were skipped for this   *)
(* task are those before the one it has come to.                           *)
ConfigInv ==
    /\ document \in Documents
    /\ outcome \in {"none", "read", "refused"}
    /\ outcome = "read" => Config!IsTaken(document) /\ config = Config!Read(document)
    /\ outcome = "refused" => ~ Config!IsTaken(document)
    /\ weekday \in 0..6 /\ skipped \in 0..6
    /\ moving => outcome = "read"
    /\ moving => \A d \in 0..6 : (weekday - d) % 7 \in 1..skipped => Config!IsSkipped(d)

LEMMA SomeDayIsNotSkipped ==
    ASSUME ConfigInv, outcome = "read"
    PROVE  \E d \in 0..6 : ~ Config!IsSkipped(d)
<1>1. /\ IsDocument(document) /\ Config!IsTaken(document)
      /\ config.skip = IF "skip" \in DOMAIN document.keys
                       THEN Config!Meaning("skip", document.keys["skip"]) ELSE {}
    BY DocumentsAssumption DEF ConfigInv, Config!Read, Config!Keys, Config!Defaults
<1>2. CASE "skip" \notin DOMAIN document.keys
    BY <1>1, <1>2 DEF Config!IsSkipped
<1>3. CASE "skip" \in DOMAIN document.keys
    <2> DEFINE v == document.keys["skip"]
    <2>1. Config!SkipsDays(v)
        BY <1>1, <1>3 DEF IsDocument, Config!IsTaken, Config!Takes
    <2>2. Config!Is("list", v)
        BY <2>1 DEF Config!SkipsDays
    <2>3. /\ v.list \in Seq({v.list[k] : k \in DOMAIN v.list})
          /\ \A k \in DOMAIN v.list : Config!Is("text", v.list[k]) => v.list[k] = Config!Text(v.list[k].text)
        BY <1>1, <1>3, <2>2 DEF IsDocument
    <2>4. \E d \in 0..6 : Config!DayNames[d + 1] \notin {v.list[k].text : k \in DOMAIN v.list}
        BY <2>1, <2>3, SomeDayIsLeft
    <2>5. config.skip = {v.list[k].text : k \in DOMAIN v.list}
        BY <1>1, <1>3 DEF Config!Meaning
    <2> QED BY <2>4, <2>5 DEF Config!IsSkipped
<1> QED BY <1>2, <1>3

LEMMA ConfigInvariance ==
    /\ Config!Init => ConfigInv
    /\ ConfigInv /\ [Config!Next]_configVars => ConfigInv'
<1>1. Config!Init => ConfigInv
    BY DEF Config!Init, ConfigInv
<1>2. ConfigInv /\ UNCHANGED configVars => ConfigInv'
    BY DEF ConfigInv, configVars, Config!IsSkipped
<1>3. ConfigInv /\ Config!Load => ConfigInv'
    BY DEF ConfigInv, Config!Load
<1>4. ASSUME ConfigInv, NEW days \in 0..6, Config!Extrude(days) PROVE ConfigInv'
    BY <1>4 DEF ConfigInv, Config!Extrude, Config!Ready
<1>5. ASSUME ConfigInv, Config!SkipDay PROVE ConfigInv'
    <2> USE <1>5 DEF ConfigInv, Config!SkipDay
    <2>1. outcome = "read" /\ weekday \in 0..6 /\ skipped \in 0..6 /\ weekday' = (weekday + 1) % 7 /\ skipped' = skipped + 1
        OBVIOUS
    <2>2. \A d \in 0..6 : (weekday' - d) % 7 \in 1..(skipped + 1) => d = weekday \/ (weekday - d) % 7 \in 1..skipped
        BY <2>1
    <2>3. \A d \in 0..6 : (weekday' - d) % 7 \in 1..(skipped + 1) => Config!IsSkipped(d)
        BY <2>2
    <2>4. skipped < 6
        <3> SUFFICES ASSUME skipped = 6 PROVE FALSE
            BY <2>1
        <3>1. \A d \in 0..6 : (weekday' - d) % 7 \in 1..(skipped + 1) \/ d = weekday'
            BY <2>1
        <3>2. weekday' \in 0..6
            BY <2>1
        <3>3. \A d \in 0..6 : d = weekday' => (weekday - d) % 7 \in 1..skipped
            BY <2>1
        <3>4. \A d \in 0..6 : Config!IsSkipped(d)
            BY <2>1, <2>3, <3>1, <3>3
        <3> QED BY <2>1, <3>4, SomeDayIsNotSkipped
    <2>5. \A d \in 0..6 : Config!IsSkipped(d)' <=> Config!IsSkipped(d)
        BY DEF Config!IsSkipped
    <2> QED BY <2>1, <2>3, <2>4, <2>5
<1>6. ConfigInv /\ Config!Settle => ConfigInv'
    BY DEF ConfigInv, Config!Settle
<1> QED BY <1>1, <1>2, <1>3, <1>4, <1>5, <1>6 DEF Config!Next

LEMMA ConfigIsSound == ConfigInv => Config!ConfigurationSound
<1> SUFFICES ASSUME ConfigInv PROVE Config!ConfigurationSound
    OBVIOUS
<1>1. Config!KeysAreOptional
    BY DEF ConfigInv, Config!KeysAreOptional, Config!Ready, Config!Read, Config!IsTaken
<1>2. Config!DayHasItsTime
    <2> SUFFICES ASSUME outcome = "read" PROVE 24 * 60 + config.offset \in (6 * 60 + 1)..(48 * 60 - 1)
        BY DEF Config!DayHasItsTime, Config!Ready
    <2>1. config.offset = IF "offset" \in DOMAIN document.keys THEN document.keys["offset"].number ELSE 30
        BY DEF ConfigInv, Config!Read, Config!Keys, Config!Defaults, Config!Meaning
    <2>2. ASSUME "offset" \in DOMAIN document.keys PROVE document.keys["offset"].number \in (-1079)..1439
        <3>1. Config!Takes("offset", document.keys["offset"])
            BY <2>2, DocumentsAssumption DEF ConfigInv, IsDocument, Config!IsTaken
        <3> QED BY <3>1 DEF Config!Takes
    <2>3. config.offset \in (-1079)..1439
        BY <2>1, <2>2
    <2>4. PICK o \in (-1079)..1439 : config.offset = o
        BY <2>3
    <2>5. 24 * 60 + o \in (6 * 60 + 1)..(48 * 60 - 1)
        OBVIOUS
    <2> QED BY <2>4, <2>5
<1>3. Config!ExtrusionEnds
    BY DEF ConfigInv, Config!ExtrusionEnds
<1> QED BY <1>1, <1>2, <1>3 DEF Config!ConfigurationSound

-----------------------------------------------------------------------------
(***************************************************************************)
(* The line and its cursor                                                 *)
(***************************************************************************)
(* The columns of the first characters of a line.                          *)
Widths(s) == [i \in 1..Len(s) |-> Width[s[i]]]
Shown(s, c) == SumOver(Widths(s), 1..c)

LEMMA WidthsAreNumbers ==
    ASSUME NEW s \in Seq(Chars)
    PROVE  Len(s) \in Nat /\ \A i \in 1..Len(s) : Widths(s)[i] = Width[s[i]] /\ Width[s[i]] \in Nat
BY EditorAssumption DEF Widths

LEMMA ShownOneMore ==
    ASSUME NEW s \in Seq(Chars), NEW c \in 0..Len(s)
    PROVE  /\ Shown(s, c) \in Int
           /\ c = 0 => Shown(s, c) = 0
           /\ c > 0 => Shown(s, c) = Shown(s, c - 1) + Width[s[c]] /\ Shown(s, c - 1) \in Int
<1> DEFINE w == Widths(s)
<1>1. Len(s) \in Nat /\ \A i \in 1..Len(s) : w[i] = Width[s[i]] /\ Width[s[i]] \in Nat
    BY WidthsAreNumbers
<1> HIDE DEF w
<1>2. IsFiniteSet(1..c) /\ \A i \in 1..c : w[i] \in Int
    <2>1. c \in Nat
        BY <1>1
    <2> QED BY <1>1, <2>1, OneTo
<1>3. CASE c = 0
    <2>1. 1..c = {}
        BY <1>3
    <2> QED BY <1>3, <2>1, SumOfNothing DEF Shown
<1>4. CASE c > 0
    <2>1. c \in 1..c /\ (1..c) \ {c} = 1..(c - 1) /\ c \in 1..Len(s)
        BY <1>1, <1>4
    <2>2. /\ SumOver(w, 1..c) \in Int /\ SumOver(w, (1..c) \ {c}) \in Int
          /\ SumOver(w, 1..c) = w[c] + SumOver(w, (1..c) \ {c})
        BY <1>2, <2>1, SumWithout
    <2>3. Shown(s, c) = SumOver(w, 1..c) /\ Shown(s, c - 1) = SumOver(w, 1..(c - 1))
        BY DEF Shown, w
    <2>4. w[c] = Width[s[c]] /\ w[c] \in Int
        BY <1>1, <2>1
    <2>5. Shown(s, c - 1) = SumOver(w, (1..c) \ {c})
        BY <2>1, <2>3
    <2>6. Shown(s, c) = Shown(s, c - 1) + Width[s[c]] /\ Shown(s, c) \in Int /\ Shown(s, c - 1) \in Int
        BY <2>2, <2>3, <2>4, <2>5
    <2> QED BY <1>4, <2>6
<1> QED BY <1>1, <1>3, <1>4

(* The fold of Columns is that sum.                                        *)
LEMMA ColumnsAreShown ==
    ASSUME NEW s \in Seq(Chars)
    PROVE  Editor!Columns(s) = Shown(s, Len(s))
<1> DEFINE n == Len(s)
           S == 1..n
           w == Widths(s)
           Value(t, g) == IF t = {} THEN 0 ELSE g[t \ {Editor!Max(t)}] + Width[s[Editor!Max(t)]]
           iter == CHOOSE g : g = [t \in SUBSET S |-> Value(t, g)]
           sums == [t \in SUBSET S |-> SumOver(w, t)]
<1>1. n \in Nat /\ DOMAIN s = S /\ \A i \in S : w[i] = Width[s[i]] /\ Width[s[i]] \in Nat
    BY WidthsAreNumbers
<1>2. Editor!Columns(s) = iter[S]
    BY <1>1 DEF Editor!Columns, Editor!FoldLeft, Editor!MapThenFoldSet
<1>3. \A t \in SUBSET S : t # {} => Editor!Max(t) \in t
    <2> SUFFICES ASSUME NEW t \in SUBSET S, t # {} PROVE Editor!Max(t) \in t
        OBVIOUS
    <2>0. IsFiniteSet(S) /\ S \subseteq Int
        BY <1>1, OneTo
    <2>1. IsFiniteSet(t) /\ t \subseteq Int
        BY <2>0, FS_Subset
    <2>2. \E x \in t : \A y \in t : x >= y
        BY <2>1, GreatestOfFinite
    <2> QED BY <2>2 DEF Editor!Max
<1>4. ASSUME NEW t \in SUBSET S PROVE sums[t] = Value(t, sums)
    <2>1. CASE t = {}
        BY <2>1, SumOfNothing
    <2>2. CASE t # {}
        <3> DEFINE x == Editor!Max(t)
        <3>6. x \in t
            BY <1>3, <2>2
        <3>7. IsFiniteSet(S)
            BY <1>1, OneTo
        <3>8. IsFiniteSet(t)
            BY <3>7, FS_Subset
        <3>9. \A i \in S : w[i] \in Int
            BY <1>1
        <3>1. x \in t /\ IsFiniteSet(t) /\ \A i \in t : w[i] \in Int
            BY <3>6, <3>8, <3>9
        <3> HIDE DEF x, w
        <3>2. SumOver(w, t) = w[x] + SumOver(w, t \ {x}) /\ SumOver(w, t \ {x}) \in Int
            BY <3>1, SumWithout
        <3>3. sums[t] = SumOver(w, t) /\ sums[t \ {x}] = SumOver(w, t \ {x})
            OBVIOUS
        <3>4. w[x] = Width[s[x]] /\ w[x] \in Int
            BY <1>1, <3>1
        <3> HIDE DEF sums
        <3>5. sums[t] = sums[t \ {x}] + Width[s[x]]
            BY <3>2, <3>3, <3>4
        <3> QED BY <2>2, <3>5 DEF x
    <2> QED BY <2>1, <2>2
<1>5. sums = [t \in SUBSET S |-> Value(t, sums)]
    <2> HIDE DEF Value
    <2> QED BY <1>4
<1>6. iter = [t \in SUBSET S |-> Value(t, iter)]
    <2> HIDE DEF Value, sums, S
    <2> QED BY <1>5
<1>7. \A t \in SUBSET S : iter[t] = Value(t, iter)
    <2> HIDE DEF iter, Value
    <2> QED BY <1>6
<1> HIDE DEF iter
<1> DEFINE N == {k \in Nat : k <= n => iter[1..k] = Shown(s, k)}
<1>8. 0 \in N
    <2>1. 1..0 = {}
        OBVIOUS
    <2>2. iter[{}] = 0
        BY <1>7
    <2>3. Shown(s, 0) = 0
        BY <1>1, ShownOneMore
    <2> QED BY <2>1, <2>2, <2>3
<1>9. ASSUME NEW k \in N PROVE k + 1 \in N
    <2> SUFFICES ASSUME k + 1 <= n PROVE iter[1..(k + 1)] = Shown(s, k + 1)
        OBVIOUS
    <2>0. k \in Nat /\ k + 1 \in 1..(k + 1)
        OBVIOUS
    <2>1. 1..(k + 1) \in SUBSET S /\ 1..(k + 1) # {} /\ (1..(k + 1)) \ {k + 1} = 1..k
        <3>1. \A i \in 1..(k + 1) : i \in 1..n
            BY <1>1, <2>0
        <3>2. (1..(k + 1)) \ {k + 1} = 1..k
            BY <2>0
        <3> QED BY <2>0, <3>1, <3>2
    <2>2. Editor!Max(1..(k + 1)) = k + 1
        BY DEF Editor!Max
    <2>3. iter[1..(k + 1)] = iter[1..k] + Width[s[k + 1]]
        BY <1>7, <2>1, <2>2
    <2>4. k + 1 \in 0..n /\ k + 1 > 0 /\ (k + 1) - 1 = k /\ k <= n
        BY <1>1
    <2>5. Shown(s, k + 1) = Shown(s, k) + Width[s[k + 1]]
        BY <2>4, ShownOneMore
    <2> QED BY <2>3, <2>4, <2>5
<1>10. N = Nat
    <2>1. N \in SUBSET Nat
        OBVIOUS
    <2> HIDE DEF N
    <2> QED BY <1>8, <1>9, <2>1, NaturalsByStep
<1> QED BY <1>1, <1>2, <1>10

(* The columns before the cursor.                                          *)
LEMMA ColumnsBefore ==
    ASSUME NEW l \in Seq(Chars), NEW c \in 0..Len(l)
    PROVE  Editor!WidthForRerender(l, c) = 9 + Shown(l, c)
<1> DEFINE s == SubSeq(l, 1, c)
<1>1. Len(l) \in Nat /\ c \in Nat /\ \A i \in 1..c : l[i] \in Chars
    OBVIOUS
<1>2. s \in Seq(Chars) /\ Len(s) = c /\ \A i \in 1..c : s[i] = l[i]
    <2>1. s \in Seq(Chars) /\ Len(s) = (IF 1 <= c THEN c - 1 + 1 ELSE 0) /\ \A i \in 1..(c - 1 + 1) : s[i] = l[1 + i - 1]
        BY <1>1, SubSeqProperties
    <2> HIDE DEF s
    <2> QED BY <1>1, <2>1
<1> HIDE DEF s
<1>3. \A i \in 1..c : Widths(s)[i] \in Int /\ Widths(s)[i] = Widths(l)[i]
    BY <1>1, <1>2, WidthsAreNumbers
<1>4. Shown(s, c) = Shown(l, c)
    BY <1>1, <1>3, OneTo, SumOfTheSame DEF Shown
<1>5. Editor!Columns(s) = Shown(s, c)
    BY <1>2, ColumnsAreShown
<1> QED BY <1>4, <1>5 DEF Editor!WidthForRerender, Editor!Header, s

(* The columns between two places of the cursor.                           *)
LEMMA ColumnsBetween ==
    ASSUME NEW l \in Seq(Chars), NEW c \in 0..Len(l), NEW d \in c..Len(l)
    PROVE  Shown(l, c) + Editor!Columns(SubSeq(l, c + 1, d)) = Shown(l, d)
<1> DEFINE s == SubSeq(l, c + 1, d)
           n == d - c
<1>1. Len(l) \in Nat /\ c \in Nat /\ d \in Nat /\ n \in Nat /\ \A i \in (c + 1)..d : l[i] \in Chars
    OBVIOUS
<1>2. s \in Seq(Chars) /\ Len(s) = n /\ \A i \in 1..n : s[i] = l[c + i]
    <2>1. /\ s \in Seq(Chars) /\ Len(s) = IF c + 1 <= d THEN d - (c + 1) + 1 ELSE 0
          /\ \A i \in 1..(d - (c + 1) + 1) : s[i] = l[(c + 1) + i - 1]
        BY <1>1, SubSeqProperties
    <2>2. d - (c + 1) + 1 = n /\ \A i \in 1..n : (c + 1) + i - 1 = c + i
        BY <1>1
    <2> HIDE DEF s
    <2> QED BY <1>1, <2>1, <2>2
<1> HIDE DEF s
<1> DEFINE N == {k \in Nat : k <= n => Shown(l, c) + Shown(s, k) = Shown(l, c + k)}
<1>3. 0 \in N
    <2>1. Shown(s, 0) = 0 /\ Shown(l, c) \in Int /\ c + 0 = c
        BY <1>1, <1>2, ShownOneMore
    <2> QED BY <2>1
<1>4. ASSUME NEW k \in N PROVE k + 1 \in N
    <2> SUFFICES ASSUME k + 1 <= n PROVE Shown(l, c) + Shown(s, k + 1) = Shown(l, c + (k + 1))
        OBVIOUS
    <2>1. /\ k + 1 \in 0..Len(s) /\ k + 1 > 0 /\ (k + 1) - 1 = k /\ k + 1 \in 1..n
          /\ c + (k + 1) \in 0..Len(l) /\ c + (k + 1) > 0 /\ (c + (k + 1)) - 1 = c + k
        BY <1>1, <1>2
    <2>2. Shown(s, k + 1) = Shown(s, k) + Width[s[k + 1]] /\ Shown(s, k) \in Int
        BY <1>2, <2>1, ShownOneMore
    <2>3. Shown(l, c + (k + 1)) = Shown(l, c + k) + Width[l[c + (k + 1)]]
        BY <2>1, ShownOneMore
    <2>4. s[k + 1] = l[c + (k + 1)] /\ Width[s[k + 1]] \in Int /\ Shown(l, c) \in Int
        <3>1. s[k + 1] = l[c + (k + 1)] /\ Shown(l, c) \in Int
            BY <1>2, <2>1, ShownOneMore
        <3>2. Width[s[k + 1]] \in Nat
            BY <1>2, <2>1, WidthsAreNumbers
        <3> QED BY <3>1, <3>2
    <2>5. Shown(l, c) + Shown(s, k) = Shown(l, c + k)
        BY <1>1
    <2> QED BY <2>2, <2>3, <2>4, <2>5
<1>5. N = Nat
    <2>1. N \in SUBSET Nat
        OBVIOUS
    <2> HIDE DEF N
    <2> QED BY <1>3, <1>4, <2>1, NaturalsByStep
<1>6. Shown(l, c) + Shown(s, n) = Shown(l, c + n) /\ c + n = d
    BY <1>1, <1>5
<1> QED BY <1>2, <1>6, ColumnsAreShown DEF s

(* The cursor is where the screen shows it, as long as there is one.       *)
EditorInv ==
    /\ line \in Seq(Chars) /\ cursor \in 0..Len(line)
    /\ Editor!CursorIsShown

\* What is drawn anew is right wherever the cursor is.
LEMMA RedrawnIsShown ==
    ASSUME line' \in Seq(Chars), cursor' \in 0..Len(line'), Editor!Redraw
    PROVE  EditorInv'
BY DEF EditorInv, Editor!Redraw, Editor!CursorIsShown

(* The parts of a line that a key leaves or takes away.                    *)
LEMMA LineParts ==
    ASSUME NEW l \in Seq(Chars), NEW c \in 0..Len(l)
    PROVE  /\ Editor!Before(l, c) \in Seq(Chars) /\ Len(Editor!Before(l, c)) = c
           /\ \A i \in 1..c : Editor!Before(l, c)[i] = l[i]
           /\ Editor!After(l, c) \in Seq(Chars) /\ Len(Editor!After(l, c)) = Len(l) - c
           /\ \A i \in 1..(Len(l) - c) : Editor!After(l, c)[i] = l[c + i]
<1>1. Len(l) \in Nat /\ c \in Nat /\ \A i \in 1..Len(l) : l[i] \in Chars
    OBVIOUS
<1>2. /\ SubSeq(l, 1, c) \in Seq(Chars) /\ Len(SubSeq(l, 1, c)) = IF 1 <= c THEN c - 1 + 1 ELSE 0
      /\ \A i \in 1..(c - 1 + 1) : SubSeq(l, 1, c)[i] = l[1 + i - 1]
    <2>1. \A i \in 1..c : l[i] \in Chars
        BY <1>1
    <2> QED BY <1>1, <2>1, SubSeqProperties
<1>3. /\ SubSeq(l, c + 1, Len(l)) \in Seq(Chars)
      /\ Len(SubSeq(l, c + 1, Len(l))) = IF c + 1 <= Len(l) THEN Len(l) - (c + 1) + 1 ELSE 0
      /\ \A i \in 1..(Len(l) - (c + 1) + 1) : SubSeq(l, c + 1, Len(l))[i] = l[(c + 1) + i - 1]
    <2>1. \A i \in (c + 1)..Len(l) : l[i] \in Chars
        BY <1>1
    <2>2. c + 1 \in Int /\ Len(l) \in Int
        BY <1>1
    <2> QED BY <2>1, <2>2, SubSeqProperties
<1>4. /\ Editor!Before(l, c) \in Seq(Chars) /\ Len(Editor!Before(l, c)) = c
      /\ \A i \in 1..c : Editor!Before(l, c)[i] = l[i]
    <2> DEFINE s == SubSeq(l, 1, c)
    <2>1. c - 1 + 1 = c /\ \A i \in 1..c : 1 + i - 1 = i
        BY <1>1
    <2> HIDE DEF s
    <2>2. s \in Seq(Chars) /\ Len(s) = c /\ \A i \in 1..c : s[i] = l[i]
        BY <1>1, <1>2, <2>1 DEF s
    <2> QED BY <2>2 DEF Editor!Before, s
<1>5. /\ Editor!After(l, c) \in Seq(Chars) /\ Len(Editor!After(l, c)) = Len(l) - c
      /\ \A i \in 1..(Len(l) - c) : Editor!After(l, c)[i] = l[c + i]
    <2> DEFINE s == SubSeq(l, c + 1, Len(l))
    <2>1. Len(l) - (c + 1) + 1 = Len(l) - c /\ \A i \in 1..(Len(l) - c) : (c + 1) + i - 1 = c + i
        BY <1>1
    <2> HIDE DEF s
    <2>2. s \in Seq(Chars) /\ \A i \in 1..(Len(l) - c) : s[i] = l[c + i]
        BY <1>3, <2>1 DEF s
    <2>3. Len(s) = IF c + 1 <= Len(l) THEN Len(l) - (c + 1) + 1 ELSE 0
        BY <1>3 DEF s
    <2>4. Len(s) = Len(l) - c
        BY <1>1, <2>3
    <2> QED BY <2>2, <2>4 DEF Editor!After, s
<1> QED BY <1>4, <1>5

(* What the parts make, one after the other, is that.                      *)
LEMMA JoinedParts ==
    ASSUME NEW b \in Seq(Chars), NEW a \in Seq(Chars)
    PROVE  /\ b \o a \in Seq(Chars) /\ Len(b \o a) = Len(b) + Len(a)
           /\ Editor!Before(b \o a, Len(b)) = b /\ Editor!After(b \o a, Len(b)) = a
<1> DEFINE l == b \o a
           c == Len(b)
<1>1. /\ l \in Seq(Chars) /\ Len(l) = Len(b) + Len(a)
      /\ \A i \in 1..(Len(b) + Len(a)) : l[i] = IF i <= Len(b) THEN b[i] ELSE a[i - Len(b)]
    BY ConcatProperties
<1>2. Len(b) \in Nat /\ Len(a) \in Nat /\ c \in 0..Len(l) /\ Len(l) - c = Len(a)
    BY <1>1
<1> HIDE DEF l
<1>3. Editor!Before(l, c) = b
    <2>1. \A i \in 1..c : Editor!Before(l, c)[i] = b[i]
        <3>1. \A i \in 1..c : Editor!Before(l, c)[i] = l[i]
            BY <1>1, <1>2, LineParts
        <3>2. \A i \in 1..c : l[i] = b[i]
            BY <1>1, <1>2
        <3> QED BY <3>1, <3>2
    <2>2. Editor!Before(l, c) \in Seq(Chars) /\ Len(Editor!Before(l, c)) = c
        BY <1>1, <1>2, LineParts
    <2> QED BY <2>1, <2>2, SeqEqual
<1>4. Editor!After(l, c) = a
    <2>1. /\ Editor!After(l, c) \in Seq(Chars) /\ Len(Editor!After(l, c)) = Len(a)
          /\ \A i \in 1..Len(a) : Editor!After(l, c)[i] = l[c + i]
        <3>1. /\ Editor!After(l, c) \in Seq(Chars) /\ Len(Editor!After(l, c)) = Len(l) - c
              /\ \A i \in 1..(Len(l) - c) : Editor!After(l, c)[i] = l[c + i]
            BY <1>1, <1>2, LineParts
        <3> QED BY <1>2, <3>1
    <2>2. \A i \in 1..Len(a) : l[c + i] = a[i]
        <3> SUFFICES ASSUME NEW i \in 1..Len(a) PROVE l[c + i] = a[i]
            OBVIOUS
        <3>1. c + i \in 1..(Len(b) + Len(a)) /\ ~ (c + i <= Len(b)) /\ (c + i) - Len(b) = i
            BY <1>2
        <3> QED BY <1>1, <3>1
    <2>3. \A i \in 1..Len(a) : Editor!After(l, c)[i] = a[i]
        BY <2>1, <2>2
    <2> QED BY <2>1, <2>3, SeqEqual
<1> QED BY <1>1, <1>3, <1>4 DEF l

(* Right as long as it moves: to the end or to the first character that    *)
(* has no width.                                                           *)
LEMMA EndIsReached ==
    ASSUME EditorInv, Editor!ToEnd
    PROVE  /\ cursor' \in cursor..Len(line)
           /\ cursor' = Len(line) \/ Width[line[cursor' + 1]] = 0
<1> DEFINE Stop(c) == /\ Editor!ForwardWidth(line, c) = 0
                      /\ \A b \in cursor..(c - 1) : Editor!ForwardWidth(line, b) > 0
           N == {c \in cursor..Len(line) : Editor!ForwardWidth(line, c) = 0}
<1>1. Len(line) \in Nat /\ cursor \in 0..Len(line) /\ \A i \in 1..Len(line) : Width[line[i]] \in Nat
    BY WidthsAreNumbers DEF EditorInv
<1>2. Len(line) \in N
    BY <1>1 DEF Editor!ForwardWidth
<1>3. N \in SUBSET Nat /\ N # {}
    BY <1>1, <1>2
<1>4. PICK c \in N : \A b \in N : c <= b
    <2> HIDE DEF N
    <2> QED BY <1>3, LeastNatural
<1>5. \A b \in cursor..(c - 1) : Editor!ForwardWidth(line, b) > 0
    <2> SUFFICES ASSUME NEW b \in cursor..(c - 1), ~ (Editor!ForwardWidth(line, b) > 0) PROVE FALSE
        OBVIOUS
    <2>1. c \in Nat /\ c <= Len(line) /\ b \in Nat /\ b < c /\ b \in cursor..Len(line)
        BY <1>1, <1>4
    <2>2. b + 1 \in 1..Len(line) /\ b < Len(line)
        BY <1>1, <2>1
    <2>3. Editor!ForwardWidth(line, b) = Width[line[b + 1]] /\ Width[line[b + 1]] \in Nat
        BY <1>1, <2>2 DEF Editor!ForwardWidth
    <2>4. b \in N
        BY <2>1, <2>3
    <2> QED BY <1>4, <2>1, <2>4
<1>6. c \in cursor..Len(line) /\ Stop(c)
    BY <1>4, <1>5
<1>7. cursor' = CHOOSE d \in cursor..Len(line) : Stop(d)
    BY DEF Editor!ToEnd
<1>8. cursor' \in cursor..Len(line) /\ Stop(cursor')
    <2> HIDE DEF Stop
    <2> QED BY <1>6, <1>7
<1> QED BY <1>1, <1>8 DEF Editor!ForwardWidth

(* Each key keeps the cursor where it is shown, and edits there.           *)
LEMMA KeysEdit ==
    ASSUME EditorInv, Editor!Edit
    PROVE  EditorInv' /\ Editor!EditsAtCursor
<1>0. /\ Len(line) \in Nat /\ cursor \in Nat /\ cursor <= Len(line) /\ line \in Seq(Chars)
      /\ \A i \in 1..Len(line) : Width[line[i]] \in Nat
    BY WidthsAreNumbers DEF EditorInv
<1>1. over' = over /\ (~ over => column = 9 + Shown(line, cursor))
    BY <1>0, ColumnsBefore DEF EditorInv, Editor!Edit, Editor!CursorIsShown
<1>2. CASE Editor!Left
    <2>1. /\ cursor > 0 /\ cursor' = cursor - 1 /\ line' = line /\ column' = column - Width[line[cursor]]
        BY <1>0, <1>2 DEF Editor!Left, Editor!BackwardWidth
    <2>2. cursor \in 0..Len(line) /\ cursor' \in 0..Len(line)
        BY <1>0, <2>1
    <2>3. Shown(line, cursor) = Shown(line, cursor') + Width[line[cursor]] /\ Shown(line, cursor') \in Int
        BY <1>0, <2>1, <2>2, ShownOneMore
    <2>4. Width[line[cursor]] \in Nat
        BY <1>0, <2>1
    <2>5. ~ over' => column' = 9 + Shown(line', cursor')
        BY <1>1, <2>1, <2>3, <2>4
    <2>6. Editor!WidthForRerender(line', cursor') = 9 + Shown(line', cursor')
        BY <1>0, <2>1, <2>2, ColumnsBefore
    <2> QED BY <1>0, <2>1, <2>2, <2>5, <2>6 DEF EditorInv, Editor!CursorIsShown, Editor!EditsAtCursor
<1>3. CASE Editor!Right
    <2>1. /\ cursor < Len(line) /\ cursor' = cursor + 1 /\ line' = line /\ column' = column + Width[line[cursor + 1]]
        BY <1>0, <1>3 DEF Editor!Right, Editor!ForwardWidth
    <2>2. cursor \in 0..Len(line) /\ cursor' \in 0..Len(line) /\ cursor' > 0 /\ cursor' - 1 = cursor
        BY <1>0, <2>1
    <2>3. Shown(line, cursor') = Shown(line, cursor) + Width[line[cursor']] /\ Shown(line, cursor) \in Int
        BY <1>0, <2>2, ShownOneMore
    <2>4. Width[line[cursor']] \in Nat
        BY <1>0, <2>2
    <2>5. ~ over' => column' = 9 + Shown(line', cursor')
        BY <1>1, <2>1, <2>3, <2>4
    <2>6. Editor!WidthForRerender(line', cursor') = 9 + Shown(line', cursor')
        BY <1>0, <2>1, <2>2, ColumnsBefore
    <2> QED BY <1>0, <2>1, <2>2, <2>5, <2>6 DEF EditorInv, Editor!CursorIsShown, Editor!EditsAtCursor
<1>4. CASE Editor!ToBegin
    <2>1. line' = line /\ cursor' = 0 /\ Editor!Redraw
        BY <1>4 DEF Editor!ToBegin
    <2> QED BY <1>0, <2>1, RedrawnIsShown DEF Editor!EditsAtCursor
<1>5. CASE Editor!ToEnd
    <2>1. /\ cursor' \in cursor..Len(line)
          /\ cursor' = Len(line) \/ Width[line[cursor' + 1]] = 0
        BY <1>5, EndIsReached
    <2>2. line' = line /\ column' = column + Editor!Columns(SubSeq(line, cursor + 1, cursor'))
        BY <1>5 DEF Editor!ToEnd
    <2>3. cursor \in 0..Len(line) /\ cursor' \in 0..Len(line) /\ (cursor' = cursor \/ cursor' > cursor)
        BY <1>0, <2>1
    <2>4. Shown(line, cursor) + Editor!Columns(SubSeq(line, cursor + 1, cursor')) = Shown(line, cursor')
        BY <1>0, <2>1, <2>3, ColumnsBetween
    <2>5. Editor!Columns(SubSeq(line, cursor + 1, cursor')) \in Int
        <3> DEFINE s == SubSeq(line, cursor + 1, cursor')
        <3>1. \A i \in (cursor + 1)..cursor' : line[i] \in Chars
            BY <1>0, <2>3
        <3>2. cursor + 1 \in Int /\ cursor' \in Int
            BY <1>0, <2>3
        <3>3. s \in Seq(Chars)
            BY <3>1, <3>2, SubSeqProperties
        <3> HIDE DEF s
        <3>4. Len(s) \in 0..Len(s)
            BY <3>3
        <3> QED BY <3>3, <3>4, ColumnsAreShown, ShownOneMore DEF s
    <2>6. Shown(line, cursor) \in Int
        BY <1>0, <2>3, ShownOneMore
    <2>7. ~ over' => column' = 9 + Shown(line', cursor')
        BY <1>1, <2>2, <2>4, <2>5, <2>6
    <2>8. Editor!WidthForRerender(line', cursor') = 9 + Shown(line', cursor')
        BY <1>0, <2>2, <2>3, ColumnsBefore
    <2> QED BY <1>0, <2>1, <2>2, <2>3, <2>7, <2>8 DEF EditorInv, Editor!CursorIsShown, Editor!EditsAtCursor
<1>6. CASE Editor!CutLine
    <2>1. line' = << >> /\ cursor' = 0 /\ Editor!Redraw
        BY <1>6 DEF Editor!CutLine
    <2>2. << >> \in Seq(Chars) /\ 0 \in 0..Len(<< >>)
        BY EmptySeq
    <2> QED BY <2>1, <2>2, RedrawnIsShown DEF Editor!EditsAtCursor
<1>7. CASE Editor!CutRest
    <2>1. line' = Editor!Before(line, cursor) /\ cursor' = cursor /\ Editor!Redraw
        BY <1>7 DEF Editor!CutRest, Editor!Before
    <2>2. cursor \in 0..Len(line)
        BY <1>0
    <2>3. Editor!Before(line, cursor) \in Seq(Chars) /\ Len(Editor!Before(line, cursor)) = cursor
        BY <1>0, <2>2, LineParts
    <2> QED BY <1>0, <2>1, <2>3, RedrawnIsShown DEF Editor!EditsAtCursor
<1>8. CASE Editor!Backspace
    <2>1. CASE line = << >> \/ cursor = 0
        <3>1. line' = line /\ cursor' = cursor /\ Editor!Redraw
            BY <1>8, <2>1 DEF Editor!Backspace
        <3> QED BY <1>0, <3>1, RedrawnIsShown DEF Editor!EditsAtCursor
    <2>2. CASE ~ (line = << >> \/ cursor = 0)
        <3> DEFINE b == Editor!Before(line, cursor - 1)
                   a == Editor!After(line, cursor)
        <3>1. cursor - 1 \in 0..Len(line) /\ cursor \in 0..Len(line) /\ cursor > 0
            BY <1>0, <2>2
        <3>2. line' = b \o a /\ cursor' = cursor - 1 /\ Editor!Redraw
            BY <1>8, <2>2 DEF Editor!Backspace, Editor!RemoveAt, Editor!Before, Editor!After
        <3>7. b \in Seq(Chars) /\ Len(b) = cursor - 1
            BY <1>0, <3>1, LineParts
        <3>8. a \in Seq(Chars)
            BY <1>0, <3>1, LineParts
        <3>9. Len(a) \in Nat
            BY <3>8, LenProperties
        <3>3. b \in Seq(Chars) /\ Len(b) = cursor - 1 /\ a \in Seq(Chars) /\ Len(a) \in Nat
            BY <3>7, <3>8, <3>9
        <3> HIDE DEF a, b
        <3>4. /\ b \o a \in Seq(Chars) /\ Len(b \o a) = Len(b) + Len(a)
              /\ Editor!Before(b \o a, Len(b)) = b /\ Editor!After(b \o a, Len(b)) = a
            BY <3>3, JoinedParts
        <3>5. line' \in Seq(Chars) /\ cursor' \in 0..Len(line')
            BY <1>0, <3>1, <3>2, <3>3, <3>4
        <3>6. Editor!After(line', cursor') = a /\ Editor!Before(line', cursor') = b
            BY <3>2, <3>3, <3>4
        <3> QED BY <3>1, <3>2, <3>5, <3>6, RedrawnIsShown DEF Editor!EditsAtCursor, a, b
    <2> QED BY <2>1, <2>2
<1>9. ASSUME NEW character \in Chars, Editor!Type(character) PROVE EditorInv' /\ Editor!EditsAtCursor
    <2> DEFINE b == Editor!Before(line, cursor)
               e == Append(b, character)
               a == Editor!After(line, cursor)
    <2>1. cursor \in 0..Len(line) /\ cursor + 1 - 1 = cursor
        BY <1>0
    <2>9. b \in Seq(Chars) /\ Len(b) = cursor
        BY <1>0, <2>1, LineParts
    <2>10. a \in Seq(Chars)
        BY <1>0, <2>1, LineParts
    <2>11. Len(a) \in Nat
        BY <2>10, LenProperties
    <2>2. b \in Seq(Chars) /\ Len(b) = cursor /\ a \in Seq(Chars) /\ Len(a) \in Nat
        BY <2>9, <2>10, <2>11
    <2>3. line' = b \o <<character>> \o a /\ cursor' = cursor + 1 /\ Editor!Redraw
        BY <1>9, <2>1 DEF Editor!Type, Editor!InsertAt, Editor!Before, Editor!After
    <2> HIDE DEF a, b
    <2>4. e \in Seq(Chars) /\ Len(e) = cursor + 1 /\ e = b \o <<character>>
        BY <2>2, AppendProperties, AppendIsConcat
    <2> HIDE DEF e
    <2>5. /\ e \o a \in Seq(Chars) /\ Len(e \o a) = Len(e) + Len(a)
          /\ Editor!Before(e \o a, Len(e)) = e /\ Editor!After(e \o a, Len(e)) = a
        BY <2>2, <2>4, JoinedParts
    <2>6. line' = e \o a
        BY <2>3, <2>4
    <2>7. line' \in Seq(Chars) /\ cursor' \in 0..Len(line')
        BY <1>0, <2>2, <2>3, <2>4, <2>5, <2>6
    <2>8. Editor!After(line', cursor') = a /\ Editor!Before(line', cursor') = e
        BY <2>3, <2>4, <2>5, <2>6
    <2> QED BY <2>3, <2>7, <2>8, RedrawnIsShown DEF Editor!EditsAtCursor, a, b, e
<1> QED BY <1>2, <1>3, <1>4, <1>5, <1>6, <1>7, <1>8, <1>9 DEF Editor!Edit

LEMMA EditorInvariance ==
    /\ Editor!Init => EditorInv
    /\ EditorInv /\ UNCHANGED editorVars => EditorInv'
    /\ EditorInv /\ Editor!Next => EditorInv' /\ Editor!EditsAtCursor
<1>0. << >> \in Seq(Chars) /\ 0 \in 0..Len(<< >>)
    BY EmptySeq
<1>1. ASSUME Editor!Init PROVE EditorInv
    <2>1. Editor!WidthForRerender(<< >>, 0) = 9 + Shown(<< >>, 0) /\ Shown(<< >>, 0) = 0
        BY <1>0, ColumnsBefore, ShownOneMore
    <2> QED BY <1>0, <1>1, <2>1 DEF Editor!Init, Editor!Header, EditorInv, Editor!CursorIsShown
<1>2. EditorInv /\ UNCHANGED editorVars => EditorInv'
    BY DEF EditorInv, editorVars, Editor!CursorIsShown
<1>3. ASSUME EditorInv, Editor!DrawnAgain PROVE EditorInv' /\ Editor!EditsAtCursor
    <2>1. line' = line /\ cursor' = cursor /\ Editor!Redraw
        BY <1>3 DEF Editor!DrawnAgain
    <2> QED BY <1>3, <2>1, RedrawnIsShown DEF EditorInv, Editor!EditsAtCursor
<1>4. ASSUME EditorInv, Editor!Stops PROVE EditorInv' /\ Editor!EditsAtCursor
    BY <1>4 DEF Editor!Stops, EditorInv, Editor!CursorIsShown, Editor!EditsAtCursor
<1>5. ASSUME EditorInv, Editor!Submit PROVE EditorInv' /\ Editor!EditsAtCursor
    <2>1. CASE line' = << >> /\ cursor' = 0 /\ UNCHANGED over /\ Editor!Redraw
        BY <1>0, <2>1, RedrawnIsShown DEF Editor!EditsAtCursor
    <2> QED BY <1>3, <1>4, <1>5, <2>1 DEF Editor!Submit
<1>6. ASSUME EditorInv, Editor!Next PROVE EditorInv' /\ Editor!EditsAtCursor
    BY <1>3, <1>4, <1>5, <1>6, KeysEdit
    DEF Editor!Next, Editor!Event, Editor!Exit, Editor!Refresh, Editor!Interrupted
<1> QED BY <1>1, <1>2, <1>6

-----------------------------------------------------------------------------
(***************************************************************************)
(* A run of the program                                                    *)
(***************************************************************************)
Early == {"start", "configured", "parsed", "ready", "loaded"}

\* The errors with which changes are lost.
Losses == {{"refused"}, {"tree"}, {"output"}, {"save"}}

(* What is known at each step of a run: before the first task nothing has  *)
(* changed and nothing is wrong; only while an operation is on its way has *)
(* memory what the files have not, or at the end with the error that is    *)
(* the reason; files are torn only there; and as long as it can be read,   *)
(* or the program is no session, whatever went wrong is told or is the     *)
(* error that will be.                                                     *)
RunInv ==
    /\ Run!TypeOK
    /\ doing \in Early \cup {"prompt", "submitted", "executed", "operated", "saved", "end"}
    /\ doing # "end" => error = {}
    /\ doing \in Early => ~ unsaved /\ files = "old"
    /\ doing \in Early /\ exit = "none" => met = {} /\ told = {}
    /\ doing \in {"prompt", "submitted", "executed", "saved"} => program = "session"
    /\ doing = "operated" => program \in {"command", "session"}
    /\ doing \in {"prompt", "submitted", "saved"} => ~ unsaved
    /\ doing = "submitted" => met = {} /\ told = {}
    /\ unsaved => (doing \in {"executed", "operated"} /\ exit = "none") \/ (doing = "end" /\ error \in Losses)
    /\ files = "torn" => doing = "end" /\ error = {"save"}
    /\ program # "session" /\ files # "old" => exit = "success" \/ (doing = "end" /\ error = {"save"})
    /\ program # "session" /\ exit = "none" /\ doing # "end" => met = {} /\ told = {}
    /\ output = "open" \/ program # "session" => met \subseteq told \cup error
    /\ program = "command" => exit # "panic" /\ ("output" \in met => output = "broken")
    /\ exit = "success" => ~ unsaved /\ files # "torn"
    /\ exit = "failure" => error \cup met \subseteq told /\ told # {}

LEMMA RunBegins == Run!Init => RunInv
BY DEF Run!Init, RunInv, Run!TypeOK, Run!Problems, Early

(* The program gives up: changes that are lost are lost with a reason, and *)
(* only saving tears files or leaves those of a command that fails.        *)
LEMMA GivingUp ==
    ASSUME RunInv, exit = "none", doing # "end",
           NEW problems, problems \subseteq Run!Problems, problems # {}, Run!Gives(problems),
           unsaved' \in BOOLEAN, files' \in {"old", "new", "torn"},
           unsaved' => problems \in Losses,
           files' = "torn" \/ (files' # "old" /\ program # "session") => problems = {"save"},
           program = "command" /\ "output" \in problems => output = "broken"
    PROVE  RunInv'
<1>1. /\ error' = problems /\ doing' = "end" /\ met' = met \cup problems
      /\ program' = program /\ output' = output /\ told' = told /\ exit' = "none"
    BY DEF Run!Gives
<1>2. error = {}
    BY DEF RunInv
<1>3. Run!TypeOK'
    BY <1>1 DEF RunInv, Run!TypeOK
<1>4. (output = "open" \/ program # "session" => met \subseteq told \cup error)'
    BY <1>1, <1>2 DEF RunInv
<1>5. (program = "command" => exit # "panic" /\ ("output" \in met => output = "broken"))'
    BY <1>1 DEF RunInv
<1>6. (unsaved => (doing \in {"executed", "operated"} /\ exit = "none") \/ (doing = "end" /\ error \in Losses))'
    BY <1>1 DEF Losses
<1>7. (files = "torn" => doing = "end" /\ error = {"save"})'
    BY <1>1
<1>8. (program # "session" /\ files # "old" => exit = "success" \/ (doing = "end" /\ error = {"save"}))'
    BY <1>1
<1> QED BY <1>1, <1>3, <1>4, <1>5, <1>6, <1>7, <1>8 DEF RunInv, Early

(* It gives up without touching anything, where nothing is unsaved.        *)
LEMMA GivingUpAtOnce ==
    ASSUME RunInv, exit = "none", doing # "end", NEW problem \in Run!Problems \ {"output"},
           unsaved => problem = "tree", program # "session" => files = "old", Run!GivesUp(problem)
    PROVE  RunInv'
<1>1. /\ Run!Gives({problem}) /\ unsaved' = unsaved /\ files' = files
    BY DEF Run!GivesUp, Run!Memory
<1>2. unsaved' \in BOOLEAN /\ files' \in {"old", "new", "torn"} /\ files' # "torn"
    BY <1>1 DEF RunInv, Run!TypeOK
<1>3. unsaved' => {problem} \in Losses
    BY <1>1 DEF Losses
<1> QED BY <1>1, <1>2, <1>3, GivingUp

(* A problem that the user is told of, or cannot be, at the prompt.        *)
LEMMA AskedAgain ==
    ASSUME RunInv, Run!Asked, NEW problem \in Run!Problems, Run!Retries(problem),
           unsaved' = FALSE, files' \in {"old", "new"}
    PROVE  RunInv'
<1>1. exit = "none" /\ doing = "prompt" /\ program = "session" /\ error = {}
    BY DEF RunInv, Run!Asked, Run!Session, Run!At
<1>2. /\ met' = {problem} /\ program' = program /\ output' = output /\ error' = error /\ doing' = "prompt"
      /\ told' \in {{}, {problem}} /\ (output = "open" => told' = {problem})
      /\ exit' \in {"none", "panic"}
    BY <1>1 DEF Run!Retries, Run!Goes, Run!Stops
<1>3. Run!TypeOK'
    BY <1>2 DEF RunInv, Run!TypeOK
<1>4. (output = "open" \/ program # "session" => met \subseteq told \cup error)'
    BY <1>1, <1>2
<1> QED BY <1>1, <1>2, <1>3, <1>4 DEF RunInv, Early

(* A session's loop ends.                                                  *)
LEMMA LoopEnds ==
    ASSUME RunInv, Run!Asked, NEW problems, problems \subseteq Run!Problems, Run!Ends(problems),
           unsaved' = FALSE, files' \in {"old", "new"}
    PROVE  RunInv'
<1>1. exit = "none" /\ program = "session"
    BY DEF Run!Asked, Run!Session, Run!At
<1>2. /\ met' = problems /\ error' = problems /\ told' = {} /\ doing' = "end"
      /\ program' = program /\ output' = output /\ exit' = "none"
    BY <1>1 DEF Run!Ends
<1>3. Run!TypeOK'
    BY <1>2 DEF RunInv, Run!TypeOK
<1> QED BY <1>1, <1>2, <1>3 DEF RunInv, Early

(* The step goes on to another, with nothing wrong.                        *)
LEMMA GoingOn ==
    ASSUME RunInv, exit = "none", doing # "end", NEW step, Run!Goes(step), met' = {}, told' = {},
           step \in Early \cup {"prompt", "submitted", "executed", "operated", "saved"},
           step \in Early => unsaved' = FALSE /\ files' = "old",
           step \in {"prompt", "submitted", "executed", "saved"} => program = "session",
           step = "operated" => program \in {"command", "session"},
           step \in {"prompt", "submitted", "saved"} => unsaved' = FALSE,
           unsaved' \in BOOLEAN, files' \in {"old", "new"}, program # "session" => files' = "old"
    PROVE  RunInv'
<1>1. /\ doing' = step /\ program' = program /\ output' = output /\ error' = error /\ exit' = "none"
      /\ error = {}
    BY DEF Run!Goes, RunInv
<1>2. Run!TypeOK'
    BY <1>1 DEF RunInv, Run!TypeOK
<1> QED BY <1>1, <1>2 DEF RunInv, Early

LEMMA RunGoesOn == RunInv /\ Run!Next => RunInv'
<1> SUFFICES ASSUME RunInv, Run!Next PROVE RunInv'
    OBVIOUS
<1>0. /\ unsaved \in BOOLEAN /\ files \in {"old", "new", "torn"}
      /\ exit = "none" /\ doing # "end" => error = {} /\ files # "torn" /\ (program # "session" => files = "old")
      /\ {"config", "directory", "line", "busy", "lock", "load", "tree", "refused", "opener", "save", "disconnected", "unreadable", "interrupted"}
             \subseteq Run!Problems \ {"output"}
    BY DEF RunInv, Run!TypeOK, Run!Problems
<1>1. CASE Run!Configure
    <2>1. exit = "none" /\ doing = "start" /\ ~ unsaved /\ files = "old" /\ met = {} /\ told = {} /\ error = {}
        BY <1>1 DEF Run!Configure, Run!At, RunInv, Early
    <2>2. ASSUME NEW problem \in {"config", "directory"}, Run!Refuses(problem) PROVE RunInv'
        <3>1. /\ met' = {problem} /\ told' = {problem} /\ exit' = "failure" /\ program' = program
              /\ doing' = doing /\ output' = output /\ error' = error /\ unsaved' = unsaved /\ files' = files
            BY <2>2 DEF Run!Refuses, Run!Stops, Run!Memory
        <3>2. Run!TypeOK'
            BY <3>1, <1>0 DEF RunInv, Run!TypeOK
        <3> QED BY <2>1, <3>1, <3>2 DEF RunInv, Early
    <2>3. CASE Run!Goes("configured") /\ UNCHANGED <<Run!Memory, Run!Talk>>
        <3>1. unsaved' = FALSE /\ files' = "old" /\ met' = {} /\ told' = {}
            BY <1>0, <2>1, <2>3 DEF Run!Memory, Run!Talk
        <3> QED BY <2>1, <2>3, <3>1, GoingOn DEF Early
    <2> QED BY <1>1, <2>2, <2>3 DEF Run!Configure
<1>2. CASE Run!Parse
    <2>1. exit = "none" /\ doing = "configured" /\ ~ unsaved /\ files = "old" /\ met = {} /\ told = {}
        BY <1>2 DEF Run!Parse, Run!At, RunInv, Early
    <2>2. CASE Run!GivesUp("line")
        BY <1>0, <2>1, <2>2, GivingUpAtOnce
    <2>3. CASE Run!Goes("parsed") /\ UNCHANGED <<Run!Memory, Run!Talk>>
        <3>1. unsaved' = FALSE /\ files' = "old" /\ met' = {} /\ told' = {}
            BY <1>0, <2>1, <2>3 DEF Run!Memory, Run!Talk
        <3> QED BY <2>1, <2>3, <3>1, GoingOn DEF Early
    <2> QED BY <1>2, <2>2, <2>3 DEF Run!Parse
<1>3. CASE Run!LoadBusyTimeSlots
    <2>1. exit = "none" /\ doing \in {"parsed", "loaded"} /\ ~ unsaved /\ files = "old" /\ met = {} /\ told = {}
        BY <1>3 DEF Run!LoadBusyTimeSlots, Run!At, RunInv, Early
    <2>2. CASE Run!GivesUp("busy")
        BY <1>0, <2>1, <2>2, GivingUpAtOnce
    <2>3. CASE Run!Goes("ready") /\ UNCHANGED <<Run!Memory, Run!Talk>>
        <3>1. unsaved' = FALSE /\ files' = "old" /\ met' = {} /\ told' = {}
            BY <1>0, <2>1, <2>3 DEF Run!Memory, Run!Talk
        <3> QED BY <2>1, <2>3, <3>1, GoingOn DEF Early
    <2> QED BY <1>3, <2>2, <2>3 DEF Run!LoadBusyTimeSlots
<1>4. CASE Run!Reload
    <2>1. exit = "none" /\ doing \in {"configured", "ready", "parsed"}
        BY <1>4 DEF Run!Reload, Run!At
    <2>2. ~ unsaved /\ files = "old" /\ met = {} /\ told = {}
        BY <2>1 DEF RunInv, Early
    <2>3. CASE Run!GivesUp("lock") \/ Run!GivesUp("load")
        BY <1>0, <2>1, <2>2, <2>3, GivingUpAtOnce
    <2>4. CASE Run!Goes("loaded") /\ UNCHANGED <<Run!Memory, Run!Talk>>
        <3>1. unsaved' = FALSE /\ files' = "old" /\ met' = {} /\ told' = {}
            BY <1>0, <2>2, <2>4 DEF Run!Memory, Run!Talk
        <3> QED BY <2>1, <2>4, <3>1, GoingOn DEF Early
    <2> QED BY <1>4, <2>3, <2>4 DEF Run!Reload
<1>5. CASE Run!Verify
    <2>1. /\ exit = "none" /\ doing = "loaded" /\ program = "verify" /\ UNCHANGED <<unsaved, files, met, told>>
          /\ UNCHANGED <<program, doing, output, error>> /\ exit' \in {"success", "panic"}
        BY <1>5 DEF Run!Verify, Run!At, Run!Stops, Run!Memory, Run!Talk
    <2>2. Run!TypeOK'
        BY <2>1 DEF RunInv, Run!TypeOK
    <2> QED BY <2>1, <2>2 DEF RunInv, Early
<1>6. CASE Run!StartSession
    <2>1. exit = "none" /\ doing = "ready" /\ ~ unsaved /\ files = "old" /\ met = {} /\ told = {} /\ program = "session" /\ error = {}
        BY <1>6 DEF Run!StartSession, Run!Session, Run!At, RunInv, Early
    <2>2. CASE Run!GivesUp("tree")
        BY <1>0, <2>1, <2>2, GivingUpAtOnce
    <2>3. CASE Run!Draws("prompt") /\ UNCHANGED Run!Talk
        <3>1. CASE output = "open"
            <4>1. unsaved' = FALSE /\ files' = "old" /\ met' = {} /\ told' = {} /\ Run!Goes("prompt")
                BY <1>0, <2>1, <2>3, <3>1 DEF Run!Memory, Run!Talk, Run!Draws
            <4> QED BY <2>1, <4>1, GoingOn DEF Early
        <3>2. CASE output # "open"
            <4>1. /\ exit' = "panic" /\ UNCHANGED <<program, doing, output, error, unsaved, files, met, told>>
                BY <2>3, <3>2 DEF Run!Memory, Run!Talk, Run!Draws, Run!Stops
            <4>2. Run!TypeOK'
                BY <4>1 DEF RunInv, Run!TypeOK
            <4> QED BY <2>1, <4>1, <4>2 DEF RunInv, Early
        <3> QED BY <3>1, <3>2
    <2> QED BY <1>6, <2>2, <2>3 DEF Run!StartSession
<1>7. CASE Run!Operate
    <2>1. exit = "none" /\ doing = "loaded" /\ program = "command" /\ files = "old" /\ met = {} /\ told = {}
        BY <1>7 DEF Run!Operate, Run!At, Run!Once, RunInv, Early
    <2>2. PICK a \in Run!Answers : /\ unsaved' = a.changes /\ files' = files
               /\ IF a.problems # {} THEN Run!Gives(a.problems) ELSE Run!Goes("operated") /\ UNCHANGED Run!Talk
        BY <1>7 DEF Run!Operate
    <2>3. /\ a.changes \in BOOLEAN
          /\ a.problems \in {{}, {"refused"}, {"tree"}, {"opener"}, {"output"}}
          /\ a.problems = {"opener"} => ~ a.changes
          /\ a.problems = {"output"} => output = "broken"
        <3>1. Run!Captured = {} \/ (Run!Captured = {"output"} /\ output = "broken")
            BY DEF Run!Captured, Run!Rendered, RunInv, Run!TypeOK
        <3>2. CASE a \in [problems : {{"refused"}, {"tree"}}, changes : BOOLEAN]
            BY <3>2
        <3>3. CASE a = [problems |-> {"opener"}, changes |-> FALSE]
            BY <3>3
        <3>4. CASE a \in [problems : {{}, Run!Captured}, changes : BOOLEAN]
            BY <3>1, <3>4
        <3> QED BY <3>2, <3>3, <3>4 DEF Run!Answers
    <2>4. CASE a.problems = {}
        <3>1. unsaved' \in BOOLEAN /\ files' = "old" /\ met' = {} /\ told' = {} /\ Run!Goes("operated")
            BY <2>1, <2>2, <2>3, <2>4 DEF Run!Talk
        <3> QED BY <2>1, <3>1, GoingOn DEF Early
    <2>5. CASE a.problems # {}
        <3>1. a.problems \subseteq Run!Problems
            BY <2>3 DEF Run!Problems
        <3>2. unsaved' => a.problems \in Losses
            BY <2>2, <2>3, <2>5 DEF Losses
        <3> QED BY <2>1, <2>2, <2>3, <2>5, <3>1, <3>2, GivingUp
    <2> QED BY <2>4, <2>5
<1>8. CASE Run!Save
    <2>1. exit = "none" /\ doing = "operated" /\ error = {}
        BY <1>8 DEF Run!Save, Run!At, RunInv
    <2>2. CASE Run!Saves /\ UNCHANGED Run!Talk /\ program = "command" /\ Run!Stops("success")
        <3>1. /\ unsaved' = FALSE /\ files' \in {"old", "new"} /\ UNCHANGED <<met, told, program, doing, output, error>> /\ exit' = "success"
            BY <1>0, <2>1, <2>2 DEF Run!Saves, Run!Talk, Run!Stops
        <3>2. Run!TypeOK'
            BY <3>1 DEF RunInv, Run!TypeOK
        <3> QED BY <2>1, <2>2, <3>1, <3>2 DEF RunInv, Early
    <2>3. CASE Run!Saves /\ UNCHANGED Run!Talk /\ program # "command" /\ Run!Goes("saved")
        <3>1. /\ unsaved' = FALSE /\ files' \in {"old", "new"} /\ UNCHANGED <<met, told, program, output, error, exit>> /\ doing' = "saved"
            BY <1>0, <2>1, <2>3 DEF Run!Saves, Run!Talk, Run!Goes
        <3>2. Run!TypeOK'
            BY <3>1 DEF RunInv, Run!TypeOK
        <3> QED BY <2>1, <2>3, <3>1, <3>2 DEF RunInv, Early
    <2>4. CASE unsaved /\ Run!SaveFails /\ Run!Gives({"save"})
        <3>1. unsaved' = unsaved /\ files' \in {files, "torn"} /\ files' \in {"old", "new", "torn"}
            BY <1>0, <2>4 DEF Run!SaveFails
        <3> QED BY <1>0, <2>1, <2>4, <3>1, GivingUp DEF Losses
    <2> QED BY <1>8, <2>2, <2>3, <2>4 DEF Run!Save, Run!Once
<1>9. ASSUME Run!Asked, Run!NotReloaded PROVE RunInv'
    <2>1. ~ unsaved /\ files \in {"old", "new"}
        BY <1>0, <1>9 DEF RunInv, Run!Asked, Run!At
    <2> QED BY <1>0, <1>9, <2>1, AskedAgain DEF Run!NotReloaded, Run!Memory
<1>10. ASSUME Run!Asked, NEW step \in {"prompt", "submitted"}, Run!Draws(step), met' = {}, told' = {} PROVE RunInv'
    <2>1. ~ unsaved /\ files \in {"old", "new"} /\ program = "session" /\ exit = "none" /\ doing = "prompt" /\ error = {}
        BY <1>0, <1>10 DEF RunInv, Run!Asked, Run!At, Run!Session
    <2>2. CASE output = "open"
        <3>1. unsaved' = FALSE /\ files' \in {"old", "new"} /\ Run!Goes(step)
            BY <1>0, <1>10, <2>1, <2>2 DEF Run!Memory, Run!Draws
        <3>2. step \notin Early /\ step # "operated"
            BY DEF Early
        <3> QED BY <1>10, <2>1, <3>1, <3>2, GoingOn
    <2>3. CASE output # "open"
        <3>1. exit' = "panic" /\ UNCHANGED <<program, doing, output, error, unsaved, files>>
            BY <1>10, <2>3 DEF Run!Draws, Run!Stops, Run!Memory
        <3>2. Run!TypeOK'
            BY <1>10, <3>1 DEF RunInv, Run!TypeOK
        <3> QED BY <1>10, <2>1, <3>1, <3>2 DEF RunInv, Early
    <2> QED BY <2>2, <2>3
<1>11. CASE Run!Submit
    <2>1. ~ unsaved /\ files \in {"old", "new"}
        BY <1>0, <1>11 DEF RunInv, Run!Submit, Run!Asked, Run!At
    <2>2. CASE Run!Ends({"tree"}) /\ UNCHANGED Run!Memory
        BY <1>0, <1>11, <2>1, <2>2, LoopEnds DEF Run!Submit, Run!Memory
    <2> QED BY <1>9, <1>10, <1>11, <2>2 DEF Run!Submit
<1>12. CASE Run!Refresh
    BY <1>9, <1>10, <1>12 DEF Run!Refresh
<1>13. ASSUME Run!Asked PROVE /\ Run!Saves \/ Run!SaveFails => unsaved' = FALSE /\ files' \in {"old", "new"}
                              /\ UNCHANGED Run!Memory => unsaved' = FALSE /\ files' \in {"old", "new"}
    <2>1. unsaved = FALSE /\ files \in {"old", "new"}
        BY <1>0, <1>13 DEF RunInv, Run!Asked, Run!At
    <2> QED BY <2>1 DEF Run!Saves, Run!SaveFails, Run!Memory
<1>14. CASE Run!Leave
    BY <1>0, <1>9, <1>13, <1>14, AskedAgain, LoopEnds DEF Run!Leave
<1>15. ASSUME NEW how \in {"disconnected", "unreadable"}, Run!LoseInput(how) PROVE RunInv'
    <2>1. {how} \subseteq Run!Problems /\ {how, "lock"} \subseteq Run!Problems
          /\ {how, "load"} \subseteq Run!Problems /\ {how, "save"} \subseteq Run!Problems
        BY <1>0
    <2> QED BY <1>13, <1>15, <2>1, LoopEnds DEF Run!LoseInput
<1>16. CASE Run!Interrupt
    BY <1>0, <1>13, <1>16, LoopEnds DEF Run!Interrupt
<1>17. ASSUME Run!At("submitted") PROVE /\ exit = "none" /\ doing = "submitted" /\ program = "session" /\ ~ unsaved
                                        /\ met = {} /\ told = {} /\ files \in {"old", "new"} /\ error = {}
    BY <1>0, <1>17 DEF RunInv, Run!At
<1>18. CASE Run!ExecuteShort
    <2>1. PICK problems \in {{}, {"refused"}, {"tree"}, Run!Rendered}, changes \in BOOLEAN :
            unsaved' = changes /\ IF problems # {} THEN Run!Gives(problems) ELSE Run!Goes("executed") /\ UNCHANGED Run!Talk
        BY <1>18 DEF Run!ExecuteShort
    <2>2. problems \in {{}, {"refused"}, {"tree"}, {"output"}} /\ files' = files /\ Run!At("submitted")
        BY <1>18, <2>1 DEF Run!ExecuteShort, Run!Rendered
    <2>3. CASE problems = {}
        BY <1>17, <2>1, <2>2, <2>3, GoingOn DEF Run!Talk, Early
    <2>4. CASE problems # {}
        <3>1. problems \subseteq Run!Problems /\ problems \in Losses
            BY <2>2, <2>4 DEF Run!Problems, Losses
        <3> QED BY <1>17, <2>1, <2>2, <2>4, <3>1, GivingUp
    <2> QED BY <2>3, <2>4
<1>19. CASE Run!ExecuteOther
    <2>1. PICK a \in Run!Answers : /\ unsaved' = a.changes /\ met' = a.problems
            /\ told' = (IF output = "open" THEN a.problems ELSE {})
            /\ Run!Goes("executed")
        BY <1>19 DEF Run!ExecuteOther
    <2>2. a.changes \in BOOLEAN /\ a.problems \subseteq Run!Problems
        <3>1. Run!Captured = {} \/ Run!Captured = {"output"}
            BY DEF Run!Captured, Run!Rendered
        <3>2. CASE a \in [problems : {{"refused"}, {"tree"}}, changes : BOOLEAN]
            BY <3>2 DEF Run!Problems
        <3>3. CASE a = [problems |-> {"opener"}, changes |-> FALSE]
            BY <3>3 DEF Run!Problems
        <3>4. CASE a \in [problems : {{}, Run!Captured}, changes : BOOLEAN]
            BY <3>1, <3>4 DEF Run!Problems
        <3> QED BY <3>2, <3>3, <3>4 DEF Run!Answers
    <2>3. /\ doing' = "executed" /\ UNCHANGED <<files, program, output, error, exit>>
          /\ exit = "none" /\ program = "session" /\ files \in {"old", "new"} /\ error = {}
        BY <1>17, <1>19, <2>1 DEF Run!ExecuteOther, Run!Goes
    <2>4. Run!TypeOK'
        <3>1. told' \subseteq Run!Problems /\ met' \subseteq Run!Problems /\ unsaved' \in BOOLEAN
            BY <2>1, <2>2
        <3> QED BY <2>3, <3>1 DEF RunInv, Run!TypeOK
    <2>5. output' = "open" => met' \subseteq told'
        BY <2>1, <2>3
    <2> QED BY <2>1, <2>2, <2>3, <2>4, <2>5 DEF RunInv, Early
<1>20. CASE Run!At("submitted") /\ Run!GivesUp("line")
    BY <1>0, <1>17, <1>20, GivingUpAtOnce
<1>21. CASE Run!Reconcile
    <2>1. exit = "none" /\ doing = "executed" /\ program = "session" /\ error = {} /\ files \in {"old", "new"}
        BY <1>0, <1>21 DEF Run!Reconcile, Run!At, RunInv
    <2>2. CASE Run!GivesUp("tree")
        BY <1>0, <2>1, <2>2, GivingUpAtOnce
    <2>3. CASE Run!Goes("operated") /\ UNCHANGED <<Run!Memory, Run!Talk>>
        <3>1. /\ doing' = "operated" /\ UNCHANGED <<unsaved, files, met, told, program, output, error, exit>>
            BY <2>3 DEF Run!Goes, Run!Memory, Run!Talk
        <3>2. Run!TypeOK'
            BY <3>1 DEF RunInv, Run!TypeOK
        <3> QED BY <2>1, <3>1, <3>2 DEF RunInv, Early
    <2> QED BY <1>21, <2>2, <2>3 DEF Run!Reconcile
<1>22. CASE Run!Show
    <2>1. exit = "none" /\ doing = "saved" /\ program = "session" /\ error = {} /\ files \in {"old", "new"} /\ ~ unsaved
        BY <1>0, <1>22 DEF Run!Show, Run!At, RunInv
    <2>2. /\ UNCHANGED <<unsaved, files, met, told, program, output, error>>
          /\ (doing' = "prompt" /\ exit' = exit) \/ (doing' = doing /\ exit' = "panic")
        BY <1>22 DEF Run!Show, Run!Draws, Run!Goes, Run!Stops, Run!Memory, Run!Talk
    <2>3. Run!TypeOK'
        BY <2>1, <2>2 DEF RunInv, Run!TypeOK
    <2> QED BY <2>1, <2>2, <2>3 DEF RunInv, Early
<1>23. CASE Run!Report
    <2>1. /\ exit = "none" /\ doing = "end" /\ UNCHANGED <<met, unsaved, files, program, doing, output, error>>
        BY <1>23 DEF Run!Report, Run!At, Run!Stops, Run!Memory
    <2>2. CASE program = "session" /\ output # "open"
        <3>1. exit' = "panic" /\ told' = told
            BY <1>23, <2>2 DEF Run!Report, Run!Session, Run!Stops
        <3>2. Run!TypeOK'
            BY <2>1, <3>1 DEF RunInv, Run!TypeOK
        <3> QED BY <2>1, <2>2, <3>1, <3>2 DEF RunInv, Early
    <2>3. CASE ~ (program = "session" /\ output # "open")
        <3>1. /\ exit' = (IF error = {} THEN "success" ELSE "failure") /\ told' = told \cup error
            BY <1>23, <2>3 DEF Run!Report, Run!Session, Run!Stops, Run!Said
        <3>2. met \subseteq told \cup error /\ told \subseteq Run!Problems /\ error \subseteq Run!Problems
            BY <2>3 DEF RunInv, Run!TypeOK
        <3>3. Run!TypeOK'
            BY <2>1, <3>1, <3>2 DEF RunInv, Run!TypeOK
        <3>4. (output = "open" \/ program # "session" => met \subseteq told \cup error)'
            BY <2>1, <3>1, <3>2
        <3>5. (exit = "failure" => error \cup met \subseteq told /\ told # {})'
            BY <2>1, <3>1, <3>2
        <3>6. error = {} => ~ unsaved /\ files # "torn"
            BY <2>1 DEF RunInv, Losses
        <3> QED BY <2>1, <3>1, <3>3, <3>4, <3>5, <3>6 DEF RunInv, Early
    <2> QED BY <2>2, <2>3
<1>24. CASE Run!LoseOutput
    <2>1. /\ exit = "none" /\ output = "open" /\ output' \in {"closed", "broken"}
          /\ UNCHANGED <<program, doing, unsaved, files, met, told, error, exit>>
        BY <1>24 DEF Run!LoseOutput, Run!Memory, Run!Talk
    <2>2. Run!TypeOK'
        BY <2>1 DEF RunInv, Run!TypeOK
    <2> QED BY <2>1, <2>2 DEF RunInv, Early
<1> QED BY <1>1, <1>2, <1>3, <1>4, <1>5, <1>6, <1>7, <1>8, <1>11, <1>12, <1>14, <1>15, <1>16, <1>18, <1>19, <1>20, <1>21, <1>22, <1>23, <1>24
       DEF Run!Next, Run!Event, Run!Execute

LEMMA RunInvariance ==
    /\ Run!Init => RunInv
    /\ RunInv /\ UNCHANGED runVars => RunInv'
    /\ RunInv /\ Run!Next => RunInv'
    /\ RunInv => Run!EndsWell
<1>1. RunInv /\ UNCHANGED runVars => RunInv'
    BY DEF runVars, RunInv, Run!TypeOK
<1>2. ASSUME RunInv PROVE Run!EndsWell
    <2>1. Run!SuccessIsSaved
        BY <1>2 DEF RunInv, Run!SuccessIsSaved
    <2>2. Run!FailureChangesNothing
        BY <1>2 DEF RunInv, Run!FailureChangesNothing, Run!Session
    <2>3. Run!PromptHoldsNothing
        BY <1>2 DEF RunInv, Run!PromptHoldsNothing, Run!Asked, Run!At
    <2>4. Run!LostWithItsError
        BY <1>2 DEF RunInv, Run!LostWithItsError, Losses
    <2>5. Run!FailureIsTold
        BY <1>2 DEF RunInv, Run!FailureIsTold
    <2>6. Run!ReaderMayLeave
        BY <1>2 DEF RunInv, Run!ReaderMayLeave, Run!Once
    <2> QED BY <2>1, <2>2, <2>3, <2>4, <2>5, <2>6 DEF Run!EndsWell
<1> QED BY <1>1, <1>2, RunBegins, RunGoesOn

-----------------------------------------------------------------------------
(***************************************************************************)
(* A line                                                                  *)
(***************************************************************************)
Handlers == {"project", "breakdown", "attribute", "defer", "placement", "tree", "plain", "fallback"}

LEMMA TakesInWords ==
    /\ DOMAIN Line!Takes = Handlers
    /\ Line!Takes["project"] = {"new", "hobby", "unplanned", "sequential", "repeat", "appointment", "start"}
    /\ Line!Takes["breakdown"] = {"breakdown", "split", "wait"}
    /\ Line!Takes["attribute"] = {"deadline", "estimate", "arrange", "actual", "priority", "category", "work"}
    /\ Line!Takes["defer"] = {"t", "h", "D", "d", "w", "W", "y",
             "defer", "defer routines", "escape", "extrude", "clear", "gather"}
    /\ Line!Takes["placement"] = {"finish", "pack", "flatten"}
    /\ Line!Takes["tree"] = {"show all", "focus", "tree", "ancestor", "root", "leaves", "tail", "today",
             "non-repetitive", "calendar", "band", "pick", "parent", "children", "deepest", "next up"}
    /\ Line!Takes["plain"] = {"highest", "lowest", "noop", "open", "obsidian", "unfocus"}
    /\ Line!Takes["fallback"] = {"verify"}
BY DEF Line!Takes, Line!NewProjects, Line!Keys, Line!FocusModes, Handlers

(* No two handlers take the same command.                                  *)
LEMMA HandlersDiffer ==
    ASSUME NEW kind, NEW h \in Handlers, NEW g \in Handlers, kind \in Line!Takes[h], kind \in Line!Takes[g]
    PROVE  h = g
<1>1. CASE h = "project"
    BY <1>1, TakesInWords DEF Handlers
<1>2. CASE h = "breakdown"
    BY <1>2, TakesInWords DEF Handlers
<1>3. CASE h = "attribute"
    BY <1>3, TakesInWords DEF Handlers
<1>4. CASE h = "defer"
    BY <1>4, TakesInWords DEF Handlers
<1>5. CASE h = "placement"
    BY <1>5, TakesInWords DEF Handlers
<1>6. CASE h = "tree"
    BY <1>6, TakesInWords DEF Handlers
<1>7. CASE h = "plain"
    BY <1>7, TakesInWords DEF Handlers
<1>8. CASE h = "fallback"
    BY <1>8, TakesInWords DEF Handlers
<1> QED BY <1>1, <1>2, <1>3, <1>4, <1>5, <1>6, <1>7, <1>8 DEF Handlers

(* What comes of a command: refused with words, it has left the tasks.     *)
Harmless(e) == e.says # "nothing" => e.tasks = "same"

LEMMA KindsOfOutcomes ==
    /\ Harmless(Line!Quiet) /\ Harmless(Line!Breaks) /\ Harmless(Line!GivesUp) /\ Harmless(Line!Moves)
    /\ Harmless(Line!Says("message")) /\ Harmless(Line!Says("error"))
    /\ Harmless(Line!Changes("moved")) /\ Harmless(Line!Changes("kept")) /\ Harmless(Line!Changes("given up"))
BY DEF Harmless, Line!Quiet, Line!Says, Line!Changes, Line!Breaks, Line!GivesUp, Line!Moves

LEMMA OutcomesAreHarmless ==
    ASSUME NEW c, NEW focused, c.kind # "escape", NEW e \in Line!Outcomes(c, focused)
    PROVE  Harmless(e)
<1>0. Line!Takes.project = Line!Takes["project"] /\ Line!Takes.breakdown = Line!Takes["breakdown"]
      /\ Line!Takes.attribute = Line!Takes["attribute"] /\ Line!Takes.defer = Line!Takes["defer"]
      /\ Line!Takes.placement = Line!Takes["placement"] /\ Line!Takes.tree = Line!Takes["tree"]
      /\ Line!Takes.plain = Line!Takes["plain"]
    OBVIOUS
<1>1. \A amount : \A x \in Line!PutOff(amount, focused) : Harmless(x)
    BY KindsOfOutcomes DEF Line!PutOff
<1>2. \A args : \A x \in Line!PutOffTo(args, focused) : Harmless(x)
    <2> SUFFICES ASSUME NEW args, NEW x \in Line!PutOffTo(args, focused) PROVE Harmless(x)
        OBVIOUS
    <2>1. x = Line!Quiet \/ x \in Line!PutOff("number", focused) \/ x \in Line!PutOff(args[1], focused) \/ x = Line!Says("message")
        BY Zenon DEF Line!PutOffTo
    <2> QED BY <1>1, <2>1, KindsOfOutcomes
<1>3. CASE c.kind \in Line!Takes.project
    <2>1. e \in Line!Project(c, focused)
        BY <1>0, <1>3, HandlersDiffer DEF Line!Outcomes, Handlers
    <2>2. c.kind \in Line!NewProjects \/ c.kind = "sequential" \/ c.kind = "repeat" \/ c.kind \in {"appointment", "start"}
        BY <1>0, <1>3, TakesInWords DEF Line!NewProjects
    <2> QED BY <2>1, <2>2, KindsOfOutcomes DEF Line!Project
<1>4. CASE c.kind \in Line!Takes.breakdown
    <2>1. e \in Line!Breakdown(c, focused)
        BY <1>0, <1>4, HandlersDiffer DEF Line!Outcomes, Handlers
    <2>2. c.kind \in {"breakdown", "split", "wait"}
        BY <1>0, <1>4, TakesInWords
    <2> QED BY <2>1, <2>2, KindsOfOutcomes DEF Line!Breakdown
<1>5. CASE c.kind \in Line!Takes.attribute
    <2>1. e \in Line!Attribute(c, focused)
        BY <1>0, <1>5, HandlersDiffer DEF Line!Outcomes, Handlers
    <2> QED BY <2>1, KindsOfOutcomes DEF Line!Attribute
<1>6. CASE c.kind \in Line!Takes.defer
    <2>1. e \in Line!Defer(c, focused)
        BY <1>0, <1>6, HandlersDiffer DEF Line!Outcomes, Handlers
    <2>2. c.kind \in Line!Keys \ {"W"} \/ c.kind \in {"W", "defer routines", "defer", "extrude", "clear", "gather"}
        BY <1>0, <1>6, TakesInWords DEF Line!Keys
    <2>3. CASE c.kind \in Line!Keys \ {"W"}
        <3>1. c.kind \in {"t", "h", "D", "d", "w", "y"}
            BY <2>3 DEF Line!Keys
        <3>2. e \in Line!PutOff("number", focused)
            BY <2>1, <2>3, <3>1 DEF Line!Defer
        <3> QED BY <1>1, <3>2
    <2>4. CASE c.kind \notin Line!Keys \ {"W"}
        BY <1>2, <2>1, <2>2, <2>4, KindsOfOutcomes DEF Line!Defer
    <2> QED BY <2>3, <2>4
<1>7. CASE c.kind \in Line!Takes.placement
    <2>1. e \in Line!Placement(c, focused)
        BY <1>0, <1>7, HandlersDiffer DEF Line!Outcomes, Handlers
    <2> QED BY <2>1, KindsOfOutcomes DEF Line!Placement
<1>8. CASE c.kind \in Line!Takes.tree
    <2>1. e \in Line!Tree(c, focused)
        BY <1>0, <1>8, HandlersDiffer DEF Line!Outcomes, Handlers
    <2> QED BY <2>1, KindsOfOutcomes DEF Line!Tree
<1>9. CASE c.kind \in Line!Takes.plain
    <2>1. e \in Line!Plain(c, focused)
        BY <1>0, <1>9, HandlersDiffer DEF Line!Outcomes, Handlers
    <2> QED BY <2>1, KindsOfOutcomes DEF Line!Plain
<1>10. CASE c.kind \notin UNION {Line!Takes[h] : h \in Handlers \ {"fallback"}}
    <2>1. e = Line!Quiet
        BY <1>0, <1>10 DEF Line!Outcomes, Handlers
    <2> QED BY <2>1, KindsOfOutcomes
<1> QED BY <1>0, <1>3, <1>4, <1>5, <1>6, <1>7, <1>8, <1>9, <1>10 DEF Handlers

(* Nothing else comes of a line, in a session or outside.                  *)
LEMMA RefusalsAreHarmless ==
    ASSUME NEW c, NEW focused, c.kind # "escape",
           NEW r \in Line!InSession(c, focused) \cup Line!GivenToTheProgram(c, focused), r.says # "nothing"
    PROVE  r.disk = "same"
<1>1. \A h, d, e, x : x = Line!Ended(h, d, e) => x.disk = d
    BY DEF Line!Ended
<1>2. CASE r \in Line!InSession(c, focused)
    <2>1. CASE c = Line!NoCommand \/ Line!Invalid(c)
        <3> DEFINE refusal == Line!Says("error")
        <3>1. CASE c = Line!NoCommand
            <4>1. r = Line!Ended("session over", "same", refusal)
                BY <1>2, <3>1 DEF Line!InSession, Line!NoCommand, Line!Invalid
            <4> QED BY <1>1, <4>1
        <3>2. CASE c # Line!NoCommand
            <4>1. r = Line!Ended("prompt", "same", refusal)
                BY <1>2, <2>1, <3>2 DEF Line!InSession
            <4> QED BY <1>1, <4>1
        <3> QED BY <3>1, <3>2
    <2>2. CASE ~ (c = Line!NoCommand \/ Line!Invalid(c))
        <3>1. PICK e \in Line!Outcomes(c, focused) :
                r = IF e = Line!Breaks THEN Line!Ended("session over", "same", e) ELSE Line!Ended("prompt", e.tasks, e)
            BY <1>2, <2>2 DEF Line!InSession
        <3>2. Harmless(e)
            BY OutcomesAreHarmless
        <3> QED BY <3>1, <3>2 DEF Harmless, Line!Ended
    <2> QED BY <2>1, <2>2
<1>3. CASE r \in Line!GivenToTheProgram(c, focused)
    <2>1. CASE c = Line!NoCommand \/ Line!Invalid(c)
        <3> DEFINE refusal == Line!Says("error")
                   results == Line!GivenToTheProgram(c, focused)
        <3>1. c.kind \in {"refused", "estimate", "category", "deadline"}
            BY <2>1 DEF Line!NoCommand, Line!Invalid
        <3>2. results = {Line!Ended("failed", "same", refusal)}
            BY <2>1, <3>1 DEF Line!GivenToTheProgram
        <3>3. r = Line!Ended("failed", "same", refusal)
            BY <1>3, <3>2
        <3> QED BY <1>1, <3>3
    <2>2. CASE ~ (c = Line!NoCommand \/ Line!Invalid(c)) /\ c.kind = "verify"
        <3>1. r = Line!Ended("succeeded", "same", Line!Quiet)
            BY <1>3, <2>2 DEF Line!GivenToTheProgram
        <3> QED BY <3>1 DEF Line!Ended
    <2>3. CASE ~ (c = Line!NoCommand \/ Line!Invalid(c)) /\ c.kind # "verify"
        <3>1. PICK e \in Line!Outcomes(c, focused) :
                r = IF e.says \in {"error", "the end"} THEN Line!Ended("failed", "same", e) ELSE Line!Ended("succeeded", e.tasks, e)
            BY <1>3, <2>3 DEF Line!GivenToTheProgram
        <3>2. Harmless(e)
            BY OutcomesAreHarmless
        <3> QED BY <3>1, <3>2 DEF Harmless, Line!Ended
    <2> QED BY <2>1, <2>2, <2>3
<1> QED BY <1>2, <1>3

(* The usage of every command.                                             *)
LEMMA UsageInWords ==
    ASSUME NEW kind
    PROVE  \/ kind \in {"estimate", "actual", "priority"} /\ Line!Usage(kind) = [words |-> <<Line!Integer>>, optional |-> 0]
           \/ kind \in {"focus", "pick"} /\ Line!Usage(kind) = [words |-> <<{"id"}>>, optional |-> 0]
           \/ kind = "arrange" /\ Line!Usage(kind) = [words |-> <<Line!Integer, Line!Any>>, optional |-> 1]
           \/ kind = "defer" /\ Line!Usage(kind) = [words |-> <<Line!Integer, Line!Any>>, optional |-> 0]
           \/ kind \in {"new", "hobby", "unplanned", "next up"}
              /\ Line!Usage(kind) = [words |-> <<Line!Any, Line!Integer>>, optional |-> 1]
           \/ kind = "sequential" /\ Line!Usage(kind) =
                [words |-> <<Line!Any, Line!Integer, Line!Integer, Line!Integer, Line!Any>>, optional |-> 1]
           \/ kind = "repeat" /\ Line!Usage(kind) =
                [words |-> <<Line!Any, Line!Integer, Line!Any, Line!Any, Line!Any>>, optional |-> 0]
           \/ kind = "split" /\ Line!Usage(kind) = [words |-> <<Line!Integer, Line!Any>>, optional |-> 0]
           \/ kind \in {"deadline", "category"} /\ Line!Usage(kind) = [words |-> <<Line!Any>>, optional |-> 0]
           \/ kind = "work" /\ Line!Usage(kind) = [words |-> <<Line!Integer>>, optional |-> 1]
           \/ kind = "lowest" /\ Line!Usage(kind) = [words |-> <<Line!Integer \ {"negative"}>>, optional |-> 1]
           \/ /\ kind \notin {"estimate", "actual", "priority", "focus", "pick", "arrange", "defer", "new", "hobby",
                              "unplanned", "next up", "sequential", "repeat", "split", "deadline", "category", "work", "lowest"}
              /\ Line!Usage(kind) = [words |-> << >>, optional |-> 0]
<1>1. Line!NewProjects = {"new", "hobby", "unplanned"}
    BY DEF Line!NewProjects
<1> HIDE DEF Line!Integer, Line!Any
<1>2. CASE kind \in {"estimate", "actual", "priority"}
    BY <1>1, <1>2 DEF Line!Usage
<1>3. CASE kind \in {"focus", "pick"}
    BY <1>1, <1>3 DEF Line!Usage
<1>4. CASE kind \in {"arrange", "defer"}
    BY <1>1, <1>4 DEF Line!Usage
<1>5. CASE kind \in {"new", "hobby", "unplanned", "next up"}
    BY <1>1, <1>5 DEF Line!Usage
<1>6. CASE kind \in {"sequential", "repeat", "split"}
    BY <1>1, <1>6 DEF Line!Usage
<1>7. CASE kind \in {"deadline", "category", "work", "lowest"}
    BY <1>1, <1>7 DEF Line!Usage
<1>8. CASE kind \notin {"estimate", "actual", "priority", "focus", "pick", "arrange", "defer", "new", "hobby",
                       "unplanned", "next up", "sequential", "repeat", "split", "deadline", "category", "work", "lowest"}
    BY <1>1, <1>8 DEF Line!Usage
<1> QED BY <1>2, <1>3, <1>4, <1>5, <1>6, <1>7, <1>8

(* What follows the usage of its command is not refused.                   *)
LEMMA UsageIsNotRefused ==
    ASSUME NEW kind, NEW args \in Seq(Line!Words), Line!FollowsUsage(kind, args)
    PROVE  ~ Line!Refused(kind, args)
<1> DEFINE u == Line!Usage(kind)
           n == Len(args)
<1>1. /\ n \in Nat /\ DOMAIN args = 1..n
      /\ n \in (Len(u.words) - u.optional)..Len(u.words)
      /\ \A i \in 1..n : args[i] \in u.words[i]
    BY DEF Line!FollowsUsage
<1>0. Line!NewProjects = {"new", "hobby", "unplanned"}
    BY DEF Line!NewProjects
<1> DEFINE numbers == Line!Numbers(kind, args)
<1>2. ASSUME n >= Line!AtLeast(kind), ~ Line!TooMany(kind, args), kind \notin {"focus", "pick", "lowest"},
             \A i \in numbers : args[i] \in Line!Integer
      PROVE  ~ Line!Refused(kind, args)
    <2>1. Line!AtLeast(kind) \in Int
        BY DEF Line!AtLeast
    <2> QED BY <1>1, <1>2, <2>1 DEF Line!Refused, Line!IsInteger, Line!Integer
<1>3. CASE kind \in {"estimate", "actual", "priority"}
    <2>1. u = [words |-> <<Line!Integer>>, optional |-> 0]
        BY <1>3, UsageInWords
    <2>2. n = 1 /\ args[1] \in Line!Integer
        BY <1>1, <2>1
    <2>3. numbers \subseteq {1}
        BY <1>0, <1>3 DEF Line!Numbers
    <2>4. Line!AtLeast(kind) = 1 /\ ~ Line!TooMany(kind, args)
        BY <1>0, <1>3 DEF Line!AtLeast, Line!TooMany
    <2> HIDE DEF u, numbers
    <2> QED BY <1>2, <1>3, <2>2, <2>3, <2>4
<1>4. CASE kind \in {"focus", "pick"}
    <2>1. u = [words |-> <<{"id"}>>, optional |-> 0]
        BY <1>4, UsageInWords
    <2>2. n = 1 /\ args[1] = "id"
        BY <1>1, <2>1
    <2>3. numbers = {}
        BY <1>0, <1>4 DEF Line!Numbers
    <2>4. Line!AtLeast(kind) = 1 /\ ~ Line!TooMany(kind, args)
        BY <1>0, <1>4 DEF Line!AtLeast, Line!TooMany
    <2> HIDE DEF u
    <2> QED BY <1>4, <2>2, <2>3, <2>4 DEF Line!Refused
<1>5. CASE kind \in {"arrange", "defer"}
    <2>1. u = [words |-> <<Line!Integer, Line!Any>>, optional |-> 1] \/ u = [words |-> <<Line!Integer, Line!Any>>, optional |-> 0]
        BY <1>5, UsageInWords
    <2>2. n \in {1, 2} /\ args[1] \in Line!Integer
        BY <1>1, <2>1
    <2>3. numbers \subseteq {1}
        BY <1>0, <1>5 DEF Line!Numbers
    <2>4. Line!AtLeast(kind) \in {0, 1}
        BY <1>0, <1>5 DEF Line!AtLeast
    <2>5. ~ Line!TooMany(kind, args)
        BY <1>5 DEF Line!TooMany
    <2> HIDE DEF u, numbers
    <2> QED BY <1>2, <1>5, <2>2, <2>3, <2>4, <2>5
<1>13. CASE kind = "split"
    <2>1. u = [words |-> <<Line!Integer, Line!Any>>, optional |-> 0]
        BY <1>13, UsageInWords
    <2>2. n = 2 /\ args[1] \in Line!Integer
        BY <1>1, <2>1
    <2>3. numbers \subseteq {1}
        BY <1>0, <1>13 DEF Line!Numbers
    <2>4. Line!AtLeast(kind) = 2
        BY <1>0, <1>13 DEF Line!AtLeast
    <2>5. ~ Line!TooMany(kind, args)
        BY <1>13, <2>2 DEF Line!TooMany
    <2> HIDE DEF u, numbers
    <2> QED BY <1>2, <1>13, <2>2, <2>3, <2>4, <2>5
<1>6. CASE kind \in {"new", "hobby", "unplanned", "next up"}
    <2>1. u = [words |-> <<Line!Any, Line!Integer>>, optional |-> 1]
        BY <1>6, UsageInWords
    <2>2. n \in {1, 2} /\ (n = 2 => args[2] \in Line!Integer)
        BY <1>1, <2>1
    <2>3. numbers \subseteq {2} \cap (1..n)
        BY <1>0, <1>1, <1>6 DEF Line!Numbers
    <2>4. Line!AtLeast(kind) = 1
        BY <1>0, <1>6 DEF Line!AtLeast
    <2>5. ~ Line!TooMany(kind, args)
        BY <1>6 DEF Line!TooMany
    <2>6. \A i \in numbers : args[i] \in Line!Integer
        BY <2>2, <2>3
    <2>7. kind \notin {"focus", "pick", "lowest"}
        BY <1>6
    <2>8. \A x \in {1, 2} : \A a : a = 1 => x >= a
        OBVIOUS
    <2>9. n >= Line!AtLeast(kind)
        BY <2>2, <2>4, <2>8, Zenon
    <2> HIDE DEF u, n, numbers
    <2> QED BY <1>2, <2>5, <2>6, <2>7, <2>9
<1>7. CASE kind = "sequential"
    <2>1. u = [words |-> <<Line!Any, Line!Integer, Line!Integer, Line!Integer, Line!Any>>, optional |-> 1]
        BY <1>7, UsageInWords
    <2>2. n \in {4, 5}
        BY <1>1, <2>1
    <2>3. args[2] \in Line!Integer /\ args[3] \in Line!Integer /\ args[4] \in Line!Integer
        BY <1>1, <2>1, <2>2
    <2>4. numbers \subseteq 2..4
        BY <1>0, <1>7 DEF Line!Numbers
    <2>7. Line!AtLeast(kind) = 4 /\ ~ Line!TooMany(kind, args)
        BY <1>0, <1>7 DEF Line!AtLeast, Line!TooMany
    <2>5. n >= Line!AtLeast(kind) /\ ~ Line!TooMany(kind, args)
        BY <2>2, <2>7
    <2>6. \A i \in numbers : i \in {2, 3, 4}
        BY <2>4
    <2> HIDE DEF u, numbers
    <2> QED BY <1>2, <1>7, <2>3, <2>5, <2>6
<1>8. CASE kind = "repeat"
    <2>1. u = [words |-> <<Line!Any, Line!Integer, Line!Any, Line!Any, Line!Any>>, optional |-> 0]
        BY <1>8, UsageInWords
    <2>2. n = 5
        BY <1>1, <2>1
    <2>3. args[2] \in Line!Integer
        BY <1>1, <2>1, <2>2
    <2>4. numbers \subseteq {2}
        BY <1>0, <1>8 DEF Line!Numbers
    <2>5. n >= Line!AtLeast(kind) /\ ~ Line!TooMany(kind, args)
        BY <1>0, <1>8, <2>2 DEF Line!AtLeast, Line!TooMany
    <2> HIDE DEF u, numbers
    <2> QED BY <1>2, <1>8, <2>3, <2>4, <2>5
<1>9. CASE kind \in {"deadline", "category"}
    <2>1. u = [words |-> <<Line!Any>>, optional |-> 0]
        BY <1>9, UsageInWords
    <2>2. n = 1
        BY <1>1, <2>1
    <2>3. numbers = {}
        BY <1>0, <1>9 DEF Line!Numbers
    <2>4. Line!AtLeast(kind) = 1 /\ ~ Line!TooMany(kind, args)
        BY <1>0, <1>9 DEF Line!AtLeast, Line!TooMany
    <2> HIDE DEF u, numbers
    <2> QED BY <1>2, <1>9, <2>2, <2>3, <2>4
<1>10. CASE kind = "work"
    <2>1. u = [words |-> <<Line!Integer>>, optional |-> 1]
        BY <1>10, UsageInWords
    <2>2. n \in {0, 1} /\ (n = 1 => args[1] \in Line!Integer)
        BY <1>1, <2>1
    <2>3. numbers \subseteq {1} \cap (1..n)
        BY <1>0, <1>1, <1>10 DEF Line!Numbers
    <2>4. n >= Line!AtLeast(kind) /\ ~ Line!TooMany(kind, args)
        BY <1>0, <1>10, <2>2 DEF Line!AtLeast, Line!TooMany
    <2>5. \A i \in numbers : args[i] \in Line!Integer
        BY <2>2, <2>3
    <2> HIDE DEF u, numbers
    <2> QED BY <1>2, <1>10, <2>4, <2>5
<1>11. CASE kind = "lowest"
    <2>1. u = [words |-> <<Line!Integer \ {"negative"}>>, optional |-> 1]
        BY <1>11, UsageInWords
    <2>2. n \in {0, 1} /\ (n = 1 => args[1] \in {"number", "big"})
        BY <1>1, <2>1 DEF Line!Integer
    <2>3. numbers \subseteq {1} \cap (1..n)
        BY <1>0, <1>1, <1>11 DEF Line!Numbers
    <2>4. n >= Line!AtLeast(kind) /\ ~ Line!TooMany(kind, args)
        BY <1>0, <1>11, <2>2 DEF Line!AtLeast, Line!TooMany
    <2>5. \A i \in numbers : Line!IsInteger(args[i]) /\ Line!IsDigits(args[i])
        BY <2>2, <2>3 DEF Line!IsInteger, Line!IsDigits
    <2>6. Line!AtLeast(kind) = 0
        BY <1>0, <1>11 DEF Line!AtLeast
    <2> HIDE DEF u
    <2> QED BY <1>1, <1>11, <2>4, <2>5, <2>6 DEF Line!Refused
<1>12. CASE kind \notin {"estimate", "actual", "priority", "focus", "pick", "arrange", "defer", "new", "hobby",
                        "unplanned", "next up", "sequential", "repeat", "split", "deadline", "category", "work", "lowest"}
    <2>1. u = [words |-> << >>, optional |-> 0]
        BY <1>12, UsageInWords
    <2>2. n = 0
        BY <1>1, <2>1
    <2>3. numbers = {}
        BY <1>1, <2>2 DEF Line!Numbers
    <2>4. Line!AtLeast(kind) = 0
        BY <1>0, <1>12 DEF Line!AtLeast
    <2>5. ~ Line!TooMany(kind, args)
        <3>1. CASE kind = "highest"
            BY <2>2, <3>1 DEF Line!TooMany
        <3>2. CASE kind # "highest"
            BY <1>12, <3>2 DEF Line!TooMany
        <3> QED BY <3>1, <3>2
    <2>6. kind \notin {"focus", "pick", "lowest"}
        BY <1>12
    <2>7. 0 >= 0
        OBVIOUS
    <2>8. n >= Line!AtLeast(kind)
        BY <2>2, <2>4, <2>7, Zenon
    <2> HIDE DEF u, n, numbers
    <2> QED BY <1>2, <2>3, <2>5, <2>6, <2>8
<1> HIDE DEF u, numbers
<1> QED BY <1>3, <1>4, <1>5, <1>6, <1>7, <1>8, <1>9, <1>10, <1>11, <1>12, <1>13

(* What is not refused has the words of its usage.                         *)
LEMMA ReadHasItsWords ==
    ASSUME NEW kind, NEW args \in Seq(Line!Words), ~ Line!Refused(kind, args), kind # "defer",
           Line!Usage(kind).words # << >>
    PROVE  /\ Len(args) >= Len(Line!Usage(kind).words) - Line!Usage(kind).optional
           /\ \A i \in DOMAIN args \cap DOMAIN Line!Usage(kind).words : args[i] \in Line!Usage(kind).words[i]
<1> DEFINE u == Line!Usage(kind)
           n == Len(args)
           numbers == Line!Numbers(kind, args)
           goal == n >= Len(u.words) - u.optional /\ \A i \in DOMAIN args \cap DOMAIN u.words : args[i] \in u.words[i]
<1>1. /\ n \in Nat /\ DOMAIN args = 1..n /\ \A i \in 1..n : args[i] \in Line!Any
      /\ Line!NewProjects = {"new", "hobby", "unplanned"}
    BY DEF Line!Any, Line!NewProjects
<1>2. /\ \A i \in numbers : args[i] \in Line!Integer
      /\ kind \in {"focus", "pick"} => n = 0 \/ args[1] = "id"
      /\ kind = "lowest" => \A i \in numbers : args[i] \in {"number", "big", "huge"}
      /\ ~ (n < Line!AtLeast(kind))
    <2>1. args = << >> => n = 0
        OBVIOUS
    <2> QED BY <2>1 DEF Line!Refused, Line!IsInteger, Line!IsDigits, Line!Integer
<1>3. CASE kind \in {"estimate", "actual", "priority"}
    <2>1. u = [words |-> <<Line!Integer>>, optional |-> 0]
        BY <1>3, UsageInWords
    <2>2. Line!AtLeast(kind) = 1
        BY <1>1, <1>3 DEF Line!AtLeast
    <2>3. n >= 1
        BY <1>1, <1>2, <2>2
    <2>4. numbers = {1} \cap (1..n)
        BY <1>1, <1>3 DEF Line!Numbers
    <2>5. /\ Len(u.words) = 1 /\ u.optional = 0
          /\ DOMAIN u.words = 1..1 /\ u.words[1] = Line!Integer
        BY <2>1
    <2> HIDE DEF u, numbers
    <2>6. n >= Len(u.words) - u.optional
        BY <1>1, <2>3, <2>5
    <2>7. ASSUME NEW i \in DOMAIN args \cap DOMAIN u.words PROVE args[i] \in u.words[i]
        <3>1. i \in 1..n /\ i \in {1}
            BY <1>1, <2>5, <2>7
        <3>2. args[i] \in Line!Any /\ (i \in numbers => args[i] \in Line!Integer)
            BY <1>1, <1>2, <3>1
        <3> QED BY <2>4, <2>5, <3>1, <3>2
    <2> QED BY <2>6, <2>7 DEF u
<1>5. CASE kind = "arrange"
    <2>1. u = [words |-> <<Line!Integer, Line!Any>>, optional |-> 1]
        BY <1>5, UsageInWords
    <2>2. Line!AtLeast(kind) = 1
        BY <1>1, <1>5 DEF Line!AtLeast
    <2>3. n >= 1
        BY <1>1, <1>2, <2>2
    <2>4. numbers = {1} \cap (1..n)
        BY <1>1, <1>5 DEF Line!Numbers
    <2>5. /\ Len(u.words) = 2 /\ u.optional = 1
          /\ DOMAIN u.words = 1..2 /\ u.words[1] = Line!Integer /\ u.words[2] = Line!Any
        BY <2>1
    <2> HIDE DEF u, numbers
    <2>6. n >= Len(u.words) - u.optional
        BY <1>1, <2>3, <2>5
    <2>7. ASSUME NEW i \in DOMAIN args \cap DOMAIN u.words PROVE args[i] \in u.words[i]
        <3>1. i \in 1..n /\ i \in {1, 2}
            BY <1>1, <2>5, <2>7
        <3>2. args[i] \in Line!Any /\ (i \in numbers => args[i] \in Line!Integer)
            BY <1>1, <1>2, <3>1
        <3> QED BY <2>4, <2>5, <3>1, <3>2
    <2> QED BY <2>6, <2>7 DEF u
<1>6. CASE kind = "split"
    <2>1. u = [words |-> <<Line!Integer, Line!Any>>, optional |-> 0]
        BY <1>6, UsageInWords
    <2>2. Line!AtLeast(kind) = 2
        BY <1>1, <1>6 DEF Line!AtLeast
    <2>3. n >= 2
        BY <1>1, <1>2, <2>2
    <2>4. numbers = {1} \cap (1..n)
        BY <1>1, <1>6 DEF Line!Numbers
    <2>5. /\ Len(u.words) = 2 /\ u.optional = 0
          /\ DOMAIN u.words = 1..2 /\ u.words[1] = Line!Integer /\ u.words[2] = Line!Any
        BY <2>1
    <2> HIDE DEF u, numbers
    <2>6. n >= Len(u.words) - u.optional
        BY <1>1, <2>3, <2>5
    <2>7. ASSUME NEW i \in DOMAIN args \cap DOMAIN u.words PROVE args[i] \in u.words[i]
        <3>1. i \in 1..n /\ i \in {1, 2}
            BY <1>1, <2>5, <2>7
        <3>2. args[i] \in Line!Any /\ (i \in numbers => args[i] \in Line!Integer)
            BY <1>1, <1>2, <3>1
        <3> QED BY <2>4, <2>5, <3>1, <3>2
    <2> QED BY <2>6, <2>7 DEF u
<1>7. CASE kind \in {"new", "hobby", "unplanned", "next up"}
    <2>1. u = [words |-> <<Line!Any, Line!Integer>>, optional |-> 1]
        BY <1>7, UsageInWords
    <2>2. Line!AtLeast(kind) = 1
        BY <1>1, <1>7 DEF Line!AtLeast
    <2>3. n >= 1
        BY <1>1, <1>2, <2>2
    <2>4. numbers = {2} \cap (1..n)
        BY <1>1, <1>7 DEF Line!Numbers
    <2>5. /\ Len(u.words) = 2 /\ u.optional = 1
          /\ DOMAIN u.words = 1..2 /\ u.words[1] = Line!Any /\ u.words[2] = Line!Integer
        BY <2>1
    <2> HIDE DEF u, numbers
    <2>6. n >= Len(u.words) - u.optional
        BY <1>1, <2>3, <2>5
    <2>7. ASSUME NEW i \in DOMAIN args \cap DOMAIN u.words PROVE args[i] \in u.words[i]
        <3>1. i \in 1..n /\ i \in {1, 2}
            BY <1>1, <2>5, <2>7
        <3>2. args[i] \in Line!Any /\ (i \in numbers => args[i] \in Line!Integer)
            BY <1>1, <1>2, <3>1
        <3> QED BY <2>4, <2>5, <3>1, <3>2
    <2> QED BY <2>6, <2>7 DEF u
<1>8. CASE kind = "sequential"
    <2>1. u = [words |-> <<Line!Any, Line!Integer, Line!Integer, Line!Integer, Line!Any>>, optional |-> 1]
        BY <1>8, UsageInWords
    <2>2. Line!AtLeast(kind) = 4
        BY <1>1, <1>8 DEF Line!AtLeast
    <2>3. n >= 4
        BY <1>1, <1>2, <2>2
    <2>4. numbers = 2..4 \cap (1..n)
        BY <1>1, <1>8 DEF Line!Numbers
    <2>5. /\ Len(u.words) = 5 /\ u.optional = 1
          /\ DOMAIN u.words = 1..5 /\ u.words[1] = Line!Any /\ u.words[2] = Line!Integer /\ u.words[3] = Line!Integer /\ u.words[4] = Line!Integer /\ u.words[5] = Line!Any
        BY <2>1
    <2> HIDE DEF u, numbers
    <2>6. n >= Len(u.words) - u.optional
        BY <1>1, <2>3, <2>5
    <2>7. ASSUME NEW i \in DOMAIN args \cap DOMAIN u.words PROVE args[i] \in u.words[i]
        <3>1. i \in 1..n /\ i \in {1, 2, 3, 4, 5}
            BY <1>1, <2>5, <2>7
        <3>2. args[i] \in Line!Any /\ (i \in numbers => args[i] \in Line!Integer)
            BY <1>1, <1>2, <3>1
        <3> QED BY <2>4, <2>5, <3>1, <3>2
    <2> QED BY <2>6, <2>7 DEF u
<1>9. CASE kind = "repeat"
    <2>1. u = [words |-> <<Line!Any, Line!Integer, Line!Any, Line!Any, Line!Any>>, optional |-> 0]
        BY <1>9, UsageInWords
    <2>2. Line!AtLeast(kind) = 5
        BY <1>1, <1>9 DEF Line!AtLeast
    <2>3. n >= 5
        BY <1>1, <1>2, <2>2
    <2>4. numbers = {2} \cap (1..n)
        BY <1>1, <1>9 DEF Line!Numbers
    <2>5. /\ Len(u.words) = 5 /\ u.optional = 0
          /\ DOMAIN u.words = 1..5 /\ u.words[1] = Line!Any /\ u.words[2] = Line!Integer /\ u.words[3] = Line!Any /\ u.words[4] = Line!Any /\ u.words[5] = Line!Any
        BY <2>1
    <2> HIDE DEF u, numbers
    <2>6. n >= Len(u.words) - u.optional
        BY <1>1, <2>3, <2>5
    <2>7. ASSUME NEW i \in DOMAIN args \cap DOMAIN u.words PROVE args[i] \in u.words[i]
        <3>1. i \in 1..n /\ i \in {1, 2, 3, 4, 5}
            BY <1>1, <2>5, <2>7
        <3>2. args[i] \in Line!Any /\ (i \in numbers => args[i] \in Line!Integer)
            BY <1>1, <1>2, <3>1
        <3> QED BY <2>4, <2>5, <3>1, <3>2
    <2> QED BY <2>6, <2>7 DEF u
<1>10. CASE kind \in {"deadline", "category"}
    <2>1. u = [words |-> <<Line!Any>>, optional |-> 0]
        BY <1>10, UsageInWords
    <2>2. Line!AtLeast(kind) = 1
        BY <1>1, <1>10 DEF Line!AtLeast
    <2>3. n >= 1
        BY <1>1, <1>2, <2>2
    <2>4. numbers = {} \cap (1..n)
        BY <1>1, <1>10 DEF Line!Numbers
    <2>5. /\ Len(u.words) = 1 /\ u.optional = 0
          /\ DOMAIN u.words = 1..1 /\ u.words[1] = Line!Any
        BY <2>1
    <2> HIDE DEF u, numbers
    <2>6. n >= Len(u.words) - u.optional
        BY <1>1, <2>3, <2>5
    <2>7. ASSUME NEW i \in DOMAIN args \cap DOMAIN u.words PROVE args[i] \in u.words[i]
        <3>1. i \in 1..n /\ i \in {1}
            BY <1>1, <2>5, <2>7
        <3>2. args[i] \in Line!Any /\ (i \in numbers => args[i] \in Line!Integer)
            BY <1>1, <1>2, <3>1
        <3> QED BY <2>4, <2>5, <3>1, <3>2
    <2> QED BY <2>6, <2>7 DEF u
<1>11. CASE kind = "work"
    <2>1. u = [words |-> <<Line!Integer>>, optional |-> 1]
        BY <1>11, UsageInWords
    <2>2. Line!AtLeast(kind) = 0
        BY <1>1, <1>11 DEF Line!AtLeast
    <2>3. n >= 0
        BY <1>1, <1>2, <2>2
    <2>4. numbers = {1} \cap (1..n)
        BY <1>1, <1>11 DEF Line!Numbers
    <2>5. /\ Len(u.words) = 1 /\ u.optional = 1
          /\ DOMAIN u.words = 1..1 /\ u.words[1] = Line!Integer
        BY <2>1
    <2> HIDE DEF u, numbers
    <2>6. n >= Len(u.words) - u.optional
        BY <1>1, <2>3, <2>5
    <2>7. ASSUME NEW i \in DOMAIN args \cap DOMAIN u.words PROVE args[i] \in u.words[i]
        <3>1. i \in 1..n /\ i \in {1}
            BY <1>1, <2>5, <2>7
        <3>2. args[i] \in Line!Any /\ (i \in numbers => args[i] \in Line!Integer)
            BY <1>1, <1>2, <3>1
        <3> QED BY <2>4, <2>5, <3>1, <3>2
    <2> QED BY <2>6, <2>7 DEF u
<1>4. CASE kind \in {"focus", "pick"}
    <2>1. u = [words |-> <<{"id"}>>, optional |-> 0]
        BY <1>4, UsageInWords
    <2>2. Line!AtLeast(kind) = 1
        BY <1>1, <1>4 DEF Line!AtLeast
    <2>3. n >= 1 /\ n # 0
        BY <1>1, <1>2, <2>2
    <2>4. args[1] = "id"
        BY <1>2, <1>4, <2>3
    <2>5. Len(u.words) = 1 /\ u.optional = 0 /\ DOMAIN u.words = {1} /\ u.words[1] = {"id"}
        BY <2>1
    <2> HIDE DEF u
    <2>6. n >= Len(u.words) - u.optional
        BY <1>1, <2>3, <2>5
    <2> QED BY <2>4, <2>5, <2>6 DEF u
<1>12. CASE kind = "lowest"
    <2>1. u = [words |-> <<Line!Integer \ {"negative"}>>, optional |-> 1]
        BY <1>12, UsageInWords
    <2>4. numbers = {1} \cap (1..n)
        BY <1>1, <1>12 DEF Line!Numbers
    <2>5. Len(u.words) = 1 /\ u.optional = 1 /\ DOMAIN u.words = {1} /\ u.words[1] = {"number", "big"}
        BY <2>1 DEF Line!Integer
    <2> HIDE DEF u, numbers
    <2>6. n >= Len(u.words) - u.optional
        BY <1>1, <2>5
    <2>7. ASSUME NEW i \in DOMAIN args \cap DOMAIN u.words PROVE args[i] \in u.words[i]
        <3>1. i = 1 /\ i \in 1..n
            BY <1>1, <2>5, <2>7
        <3>2. args[i] \in {"number", "big"}
            BY <1>2, <1>12, <2>4, <3>1 DEF Line!Integer
        <3> QED BY <2>5, <3>1, <3>2
    <2> QED BY <2>6, <2>7 DEF u
<1>13. CASE kind \notin {"estimate", "actual", "priority", "focus", "pick", "arrange", "new", "hobby",
                        "unplanned", "next up", "sequential", "repeat", "split", "deadline", "category", "work", "lowest"}
    <2>1. u = [words |-> << >>, optional |-> 0]
        BY <1>13, UsageInWords
    <2> QED BY <2>1
<1> QED BY <1>3, <1>4, <1>5, <1>6, <1>7, <1>8, <1>9, <1>10, <1>11, <1>12, <1>13

(* What the parser makes of a line.                                        *)
LEMMA WhatIsRead ==
    ASSUME NEW l, NEW interactive
    PROVE  /\ l.first \in Line!Commands /\ ~ (l.first \in Line!FocusModes /\ ~ interactive) =>
                Line!Parse(l, interactive) =
                    IF Line!Refused(l.first, l.args) THEN Line!NoCommand ELSE Line!Command(l.first, l.args)
           /\ ~ (l.first \in Line!Commands /\ ~ (l.first \in Line!FocusModes /\ ~ interactive)) =>
                Line!Parse(l, interactive) \in {Line!Command("noop", << >>), Line!Command("show all", << >>)}
                    \cup {Line!Command(k, << >>) : k \in IF interactive THEN Line!Keys ELSE {}}
<1>1. Line!Commands \cap (Line!Keys \cup {"", "#", "0"}) = {}
    <2>1. \A h \in Handlers : \A x \in Line!Takes[h] : x \notin {"", "#", "0"}
        BY TakesInWords DEF Handlers
    <2>2. ASSUME NEW x \in Line!Commands PROVE x \notin Line!Keys /\ x \notin {"", "#", "0"}
        <3>1. PICK h \in DOMAIN Line!Takes : x \in Line!Takes[h]
            BY <2>2 DEF Line!Commands
        <3>2. h \in Handlers
            BY TakesInWords
        <3>3. x \notin Line!Keys
            BY <2>2 DEF Line!Commands
        <3> QED BY <2>1, <3>1, <3>2, <3>3
    <2> QED BY <2>2
<1>2. Line!FocusModes \subseteq Line!Commands /\ Line!FocusModes \cap (Line!Keys \cup {"", "#", "0"}) = {}
    <2>1. Line!FocusModes \subseteq Line!Takes["plain"] /\ "plain" \in DOMAIN Line!Takes
        BY TakesInWords DEF Line!FocusModes, Handlers
    <2>2. Line!FocusModes \cap (Line!Keys \cup {"noop"} \cup {"", "#", "0"}) = {}
        BY DEF Line!FocusModes, Line!Keys
    <2> QED BY <2>1, <2>2 DEF Line!Commands
<1>3. Line!Keys \cap {"", "#", "0"} = {}
    BY DEF Line!Keys
<1>4. CASE l.first \in Line!Commands /\ ~ (l.first \in Line!FocusModes /\ ~ interactive)
    <2>1. l.first \notin Line!Keys /\ l.first \notin {"", "#"} /\ l.first # "0"
        BY <1>1, <1>4
    <2> QED BY <1>4, <2>1 DEF Line!Parse
<1>5. CASE ~ (l.first \in Line!Commands /\ ~ (l.first \in Line!FocusModes /\ ~ interactive))
    <2>1. CASE l.first \in {"", "#"}
        <3>1. Line!Parse(l, interactive) = Line!Command("noop", << >>)
            BY <1>1, <1>2, <1>3, <2>1 DEF Line!Parse
        <3> QED BY <1>5, <3>1
    <2>2. CASE interactive /\ l.first \in Line!Keys /\ l.args = << >>
        <3>1. Line!Parse(l, interactive) = Line!Command(l.first, << >>)
            BY <1>1, <1>2, <1>3, <2>2 DEF Line!Parse
        <3> QED BY <1>5, <2>2, <3>1
    <2>3. CASE l.first \in Line!FocusModes /\ ~ interactive
        <3>1. Line!Parse(l, interactive) = Line!Command("show all", << >>)
            BY <1>1, <1>2, <1>3, <2>3 DEF Line!Parse
        <3> QED BY <1>5, <3>1
    <2>4. CASE /\ l.first \notin Line!Commands /\ l.first \notin {"", "#"}
               /\ ~ (interactive /\ l.first \in Line!Keys /\ l.args = << >>)
        <3>1. Line!Parse(l, interactive) \in {Line!Command("noop", << >>), Line!Command("show all", << >>)}
            BY <1>2, <2>4 DEF Line!Parse
        <3> QED BY <1>5, <3>1
    <2> QED BY <1>5, <2>1, <2>2, <2>3, <2>4
<1> QED BY <1>4, <1>5

LEMMA OneOnly ==
    ASSUME NEW kind, NEW h \in Handlers, kind \in Line!Takes[h]
    PROVE  {g \in DOMAIN Line!Takes : kind \in Line!Takes[g]} = {h}
<1>1. ASSUME NEW g PROVE g \in DOMAIN Line!Takes /\ kind \in Line!Takes[g] <=> g = h
    <2>1. DOMAIN Line!Takes = Handlers
        BY TakesInWords
    <2> QED BY <2>1, HandlersDiffer
<1> QED BY <1>1

(* Whatever line is typed, it is understood.                               *)
LEMMA EveryLineIsUnderstood ==
    ASSUME typed \in [line : Lines, interactive : BOOLEAN, focused : BOOLEAN]
    PROVE  Line!UsageIsRead /\ Line!ReadIsUsable /\ Line!OneHandlerTakes /\ Line!MeansTheSame
<1> DEFINE l == typed.line
           interactive == typed.interactive
           read == Line!Read
<1>0. /\ l \in Lines /\ interactive \in BOOLEAN /\ l.first \in Line!FirstWords /\ l.args \in Seq(Line!Words)
    BY LinesAssumption
<1> DEFINE named == l.first \in Line!Commands /\ ~ (l.first \in Line!FocusModes /\ ~ interactive)
<1>1. named => read = IF Line!Refused(l.first, l.args) THEN Line!NoCommand ELSE Line!Command(l.first, l.args)
    BY WhatIsRead DEF Line!Read
<1>2. ~ named => read \in {Line!Command("noop", << >>), Line!Command("show all", << >>)}
                    \cup {Line!Command(k, << >>) : k \in IF interactive THEN Line!Keys ELSE {}}
    BY WhatIsRead DEF Line!Read
<1>3. ~ named => read.args = << >> /\ (read.kind \in {"noop", "show all"} \/ (interactive /\ read.kind \in Line!Keys))
    <2>1. \A k : Line!Command(k, << >>).args = << >> /\ Line!Command(k, << >>).kind = k
        BY DEF Line!Command
    <2>2. ~ named => \E k : read = Line!Command(k, << >>) /\ (k \in {"noop", "show all"} \/ (interactive /\ k \in Line!Keys))
        BY <1>2
    <2> QED BY <2>1, <2>2
<1>4. named /\ read # Line!NoCommand => /\ read.kind = l.first /\ read.args = l.args
                                        /\ ~ Line!Refused(l.first, l.args)
    BY <1>1 DEF Line!Command
<1>5. Line!UsageIsRead
    <2> SUFFICES ASSUME l.first \in Line!Commands, Line!FollowsUsage(l.first, l.args),
                        ~ (l.first \in Line!FocusModes /\ ~ interactive)
                 PROVE  read = Line!Command(l.first, l.args)
        BY DEF Line!UsageIsRead
    <2>1. ~ Line!Refused(l.first, l.args)
        BY <1>0, UsageIsNotRefused
    <2> QED BY <1>1, <2>1
<1>6. Line!ReadIsUsable
    <2> SUFFICES ASSUME read # Line!NoCommand, Line!Usage(read.kind).words # << >>, read.kind # "defer"
                 PROVE  LET u == Line!Usage(read.kind)
                        IN  /\ Len(read.args) >= Len(u.words) - u.optional
                            /\ \A i \in DOMAIN read.args \cap DOMAIN u.words : read.args[i] \in u.words[i]
        BY DEF Line!ReadIsUsable
    <2>1. CASE named
        <3>1. read.kind = l.first /\ read.args = l.args /\ ~ Line!Refused(l.first, l.args)
            BY <1>4, <2>1
        <3> HIDE DEF read
        <3> QED BY <1>0, <3>1, ReadHasItsWords
    <2>2. CASE ~ named
        <3>1. PICK kind : kind = read.kind /\ kind \in {"noop", "show all", "t", "h", "D", "d", "w", "W", "y"}
            BY <1>3, <2>2 DEF Line!Keys
        <3>2. Line!Usage(kind) = [words |-> << >>, optional |-> 0]
            BY <3>1, UsageInWords
        <3>3. Line!Usage(read.kind) = [words |-> << >>, optional |-> 0]
            BY <3>1, <3>2
        <3>4. Line!Usage(read.kind).words = << >>
            BY <3>3
        <3> QED BY <3>4
    <2> QED BY <2>1, <2>2
<1>7. Line!OneHandlerTakes
    <2> DEFINE takers == {h \in DOMAIN Line!Takes : read.kind \in Line!Takes[h]}
               way == Line!Way(read, interactive)
    <2> SUFFICES ASSUME read # Line!NoCommand
                 PROVE  /\ way = "mode" => takers = {"plain"}
                        /\ way = "shortcut" => takers = {"defer"}
                        /\ way = "reload only" => takers = {"fallback"}
                        /\ way \notin {"mode", "shortcut", "reload only"} =>
                             (\E h \in DOMAIN Line!Takes : takers = {h}) /\ read.kind \notin Line!FocusModes
        <3>1. CASE read # Line!NoCommand /\ way = "mode"
            BY <3>1 DEF Line!OneHandlerTakes
        <3>2. CASE read # Line!NoCommand /\ way = "shortcut"
            BY <3>2 DEF Line!OneHandlerTakes
        <3>3. CASE read # Line!NoCommand /\ way = "reload only"
            BY <3>3 DEF Line!OneHandlerTakes
        <3>4. CASE read # Line!NoCommand /\ way \notin {"mode", "shortcut", "reload only"}
            <4>1. way # "mode" /\ way # "shortcut" /\ way # "reload only"
                BY <3>4
            <4>2. (\E h \in DOMAIN Line!Takes : takers = {h}) /\ read.kind \notin Line!FocusModes
                BY <3>4
            <4> QED BY <4>1, <4>2 DEF Line!OneHandlerTakes
        <3>5. CASE read = Line!NoCommand
            BY <3>5 DEF Line!OneHandlerTakes
        <3> QED BY <3>1, <3>2, <3>3, <3>4, <3>5
    <2>1. Line!Keys = {"t", "h", "D", "d", "w", "W", "y"} /\ Line!FocusModes = {"highest", "lowest"}
        BY DEF Line!Keys, Line!FocusModes
    <2>2. \E h \in Handlers : read.kind \in Line!Takes[h]
        <3>1. CASE named
            <4>1. PICK h \in DOMAIN Line!Takes : l.first \in Line!Takes[h]
                BY <3>1 DEF Line!Commands
            <4>2. h \in Handlers /\ read.kind = l.first
                BY <1>4, <3>1, TakesInWords
            <4> QED BY <4>1, <4>2
        <3>2. CASE ~ named
            <4>1. read.kind \in {"noop"} \/ read.kind \in {"show all"} \/ read.kind \in Line!Keys
                BY <1>3, <3>2
            <4> QED BY <2>1, <4>1, TakesInWords DEF Handlers
        <3> QED BY <3>1, <3>2
    <2>3. ~ interactive => read.kind \notin Line!FocusModes
        BY <1>3, <1>4, <2>1
    <2>4. CASE interactive /\ read.kind \in Line!FocusModes \cup {"unfocus"}
        <3>1. way = "mode"
            BY <2>1, <2>4 DEF Line!Way
        <3>2. read.kind \in Line!Takes["plain"]
            BY <2>1, <2>4, TakesInWords
        <3>3. takers = {"plain"}
            BY <3>2, OneOnly DEF Handlers
        <3> HIDE DEF takers, way
        <3> QED BY <3>1, <3>3
    <2>5. CASE interactive /\ (read.kind \in Line!Keys \/ (read.kind = "defer" /\ Len(read.args) = 2))
        <3>1. way = "shortcut"
            BY <2>1, <2>5 DEF Line!Way
        <3>2. read.kind \in Line!Takes["defer"]
            BY <2>1, <2>5, TakesInWords
        <3>3. takers = {"defer"}
            BY <3>2, OneOnly DEF Handlers
        <3> HIDE DEF takers, way
        <3> QED BY <3>1, <3>3
    <2>6. CASE ~ interactive /\ read.kind = "verify"
        <3>1. way = "reload only"
            BY <2>6 DEF Line!Way
        <3>2. read.kind \in Line!Takes["fallback"]
            BY <2>6, TakesInWords
        <3>3. takers = {"fallback"}
            BY <3>2, OneOnly DEF Handlers
        <3> HIDE DEF takers, way
        <3> QED BY <3>1, <3>3
    <2>7. CASE /\ ~ (interactive /\ read.kind \in Line!FocusModes \cup {"unfocus"})
               /\ ~ (interactive /\ (read.kind \in Line!Keys \/ (read.kind = "defer" /\ Len(read.args) = 2)))
               /\ ~ (~ interactive /\ read.kind = "verify")
        <3>1. way = "handlers"
            BY <2>7 DEF Line!Way
        <3>2. PICK h \in Handlers : read.kind \in Line!Takes[h]
            BY <2>2
        <3>3. takers = {h}
            BY <3>2, OneOnly
        <3>4. h \in DOMAIN Line!Takes
            BY TakesInWords
        <3>5. read.kind \notin Line!FocusModes
            BY <1>0, <2>3, <2>7
        <3> HIDE DEF takers, way
        <3> QED BY <3>1, <3>3, <3>4, <3>5
    <2> QED BY <2>4, <2>5, <2>6, <2>7
<1>8. Line!MeansTheSame
    <2> SUFFICES ASSUME l.first \notin Line!Keys \cup Line!FocusModes
                 PROVE  Line!Parse(l, TRUE) = Line!Parse(l, FALSE)
        BY DEF Line!MeansTheSame
    <2> QED BY DEF Line!Parse
<1> QED BY <1>5, <1>6, <1>7, <1>8

(* What is understood of a line does not depend on what came of it; and    *)
(* what comes of it, if it is refused, is nothing.                         *)
LineInv ==
    /\ typed \in [line : Lines, interactive : BOOLEAN, focused : BOOLEAN]
    /\ Line!RefusedChangesNothing

LEMMA LineInvariance ==
    /\ Line!Init => LineInv
    /\ LineInv /\ UNCHANGED lineVars => LineInv'
    /\ LineInv /\ Line!Next => LineInv'
    /\ LineInv => Line!LinesAreUnderstood
<1>1. ASSUME Line!Init PROVE LineInv
    <2>1. result = Line!NotYet /\ Line!NotYet.disk = "same"
        BY <1>1 DEF Line!Init, Line!NotYet, Line!Ended
    <2> QED BY <1>1, <2>1 DEF Line!Init, LineInv, Line!RefusedChangesNothing
<1>2. LineInv /\ UNCHANGED lineVars => LineInv'
    BY DEF lineVars, LineInv, Line!RefusedChangesNothing, Line!Read
<1>3. ASSUME LineInv, Line!Next PROVE LineInv'
    <2>1. typed' = typed /\ typed \in [line : Lines, interactive : BOOLEAN, focused : BOOLEAN]
        BY <1>3 DEF Line!Next, Line!Submit, Line!Run, Line!Answer, LineInv
    <2>2. result' \in Line!InSession(Line!Read, typed.focused) \cup Line!GivenToTheProgram(Line!Read, typed.focused)
        <3>1. CASE Line!Submit
            <4>1. typed.interactive = TRUE
                BY <2>1, <3>1 DEF Line!Submit
            <4> QED BY <3>1, <4>1 DEF Line!Submit, Line!Answer, Line!Read
        <3>2. CASE Line!Run
            <4>1. typed.interactive = FALSE
                BY <2>1, <3>2 DEF Line!Run
            <4> QED BY <3>2, <4>1 DEF Line!Run, Line!Answer, Line!Read
        <3> QED BY <1>3, <3>1, <3>2 DEF Line!Next
    <2>3. Line!Read' = Line!Read
        BY <2>1 DEF Line!Read
    <2>4. Line!RefusedChangesNothing'
        BY <2>2, <2>3, RefusalsAreHarmless DEF Line!RefusedChangesNothing
    <2> QED BY <2>1, <2>4 DEF LineInv
<1>4. LineInv => Line!LinesAreUnderstood
    BY EveryLineIsUnderstood DEF LineInv, Line!LinesAreUnderstood
<1> QED BY <1>1, <1>2, <1>3, <1>4

-----------------------------------------------------------------------------
(***************************************************************************)
(* All of them                                                             *)
(***************************************************************************)

\* A call that was sent, and what the decoder makes of it.
DecoderInv ==
    /\ call \in SentCalls
    /\ answer \in {"none", Decode(call.tool, call.arguments)}

InterfacesInv ==
    /\ part \in {"server", "decoder", "line", "editor", "run", "configuration", "link"}
    /\ part = "decoder" => DecoderInv
    /\ part = "line" => LineInv
    /\ part = "editor" => EditorInv
    /\ part = "run" => RunInv
    /\ part = "configuration" => ConfigInv
    /\ part = "link" => LinkInv

LEMMA InterfacesBegin == InterfaceInit => InterfacesInv
BY LineInvariance, EditorInvariance, RunInvariance, ConfigInvariance, LinkInvariance
   DEF InterfaceInit, InterfacesInv, DecoderInit, DecoderInv

LEMMA InterfacesStep ==
    ASSUME InterfacesInv, [InterfaceNext]_allVars
    PROVE  InterfacesInv' /\ (part = "editor" => UNCHANGED allVars \/ Editor!EditsAtCursor)
<1>1. ASSUME UNCHANGED allVars PROVE InterfacesInv'
    <2>1. DecoderInv => DecoderInv'
        BY <1>1 DEF DecoderInv, allVars, decoderVars
    <2>2. LineInv => LineInv'
        BY <1>1, LineInvariance DEF allVars
    <2>3. EditorInv => EditorInv'
        BY <1>1, EditorInvariance DEF allVars
    <2>4. RunInv => RunInv'
        BY <1>1, RunInvariance DEF allVars
    <2>5. ConfigInv => ConfigInv'
        BY <1>1, ConfigInvariance DEF allVars
    <2>6. LinkInv => LinkInv'
        BY <1>1, LinkInvariance DEF allVars
    <2> QED BY <1>1, <2>1, <2>2, <2>3, <2>4, <2>5, <2>6 DEF InterfacesInv, allVars
<1>2. CASE ServerStep
    BY <1>2 DEF ServerStep, InterfacesInv
<1>3. CASE DecoderStep
    <2>1. part = "decoder" /\ part' = part /\ DecoderInv
        BY <1>3 DEF DecoderStep, InterfacesInv
    <2>2. DecoderInv'
        BY <1>3, <2>1 DEF DecoderStep, DecodeCall, DecoderInv
    <2> QED BY <2>1, <2>2 DEF InterfacesInv
<1>4. CASE LineStep
    <2>1. part = "line" /\ part' = part /\ LineInv /\ Line!Next
        BY <1>4 DEF LineStep, InterfacesInv
    <2>2. LineInv'
        BY <2>1, LineInvariance
    <2> QED BY <2>1, <2>2 DEF InterfacesInv
<1>5. CASE EditorStep
    <2>1. part = "editor" /\ part' = part /\ EditorInv /\ Editor!Next
        BY <1>5 DEF EditorStep, InterfacesInv
    <2>2. EditorInv' /\ Editor!EditsAtCursor
        BY <2>1, EditorInvariance
    <2> QED BY <2>1, <2>2 DEF InterfacesInv
<1>6. CASE RunStep
    <2>1. part = "run" /\ part' = part /\ RunInv /\ Run!Next
        BY <1>6 DEF RunStep, InterfacesInv
    <2>2. RunInv'
        BY <2>1, RunInvariance
    <2> QED BY <2>1, <2>2 DEF InterfacesInv
<1>7. CASE ConfigStep
    <2>1. part = "configuration" /\ part' = part /\ ConfigInv /\ Config!Next
        BY <1>7 DEF ConfigStep, InterfacesInv
    <2>2. ConfigInv'
        BY <2>1, ConfigInvariance
    <2> QED BY <2>1, <2>2 DEF InterfacesInv
<1>8. CASE LinkStep
    <2>1. part = "link" /\ part' = part /\ LinkInv /\ Link!Next
        BY <1>8 DEF LinkStep, InterfacesInv
    <2>2. LinkInv'
        BY <2>1, LinkInvariance
    <2> QED BY <2>1, <2>2 DEF InterfacesInv
<1>9. part = "editor" /\ InterfaceNext => EditorStep
    BY DEF InterfaceNext, ServerStep, DecoderStep, LineStep, RunStep, ConfigStep, LinkStep
<1>10. part = "editor" /\ EditorStep => Editor!EditsAtCursor
    BY EditorInvariance DEF EditorStep, InterfacesInv
<1> QED BY <1>1, <1>2, <1>3, <1>4, <1>5, <1>6, <1>7, <1>8, <1>9, <1>10 DEF InterfaceNext

LEMMA InterfacesInvariance == InterfaceSpec => []InterfacesInv
BY InterfacesBegin, InterfacesStep, PTL DEF InterfaceSpec

(* Every call is understood: one that the published schema admits is not   *)
(* answered with the error of the protocol, and no tool is run with        *)
(* arguments that mean nothing, for any calls that are sent                *)
(* (input.rs:892-1025).                                                    *)
THEOREM CallsUnderstood == InterfaceSpec => []CallsAreUnderstood
<1>1. ASSUME InterfacesInv PROVE CallsAreUnderstood
    <2> SUFFICES ASSUME Answered PROVE /\ SchemaAdmits(call.tool, call.arguments) => answer # "schema"
                                       /\ answer = "read" => MeansSomething(call.tool, call.arguments)
        BY DEF CallsAreUnderstood
    <2>1. call \in SentCalls /\ answer = Decode(call.tool, call.arguments)
        BY <1>1 DEF Answered, InterfacesInv, DecoderInv
    <2>2. call.tool \in Tools /\ IsArguments(call.arguments)
        BY <2>1, SentAssumption
    <2> QED BY <2>1, <2>2, DecoderAgrees
<1> QED BY <1>1, InterfacesInvariance, PTL

(* The interfaces are sound, for any lines, keys, documents and names: a   *)
(* line is understood (command.rs, runtime.rs, handler.rs), a key edits it *)
(* at the cursor, which is where the screen shows it (interactive.rs), and *)
(* a run of the program ends well (runtime.rs, main.rs), with a            *)
(* configuration that leaves the days their time (configuration.rs) and    *)
(* whole links (handler.rs).                                               *)
THEOREM InterfacesSound == InterfaceSpec => InterfaceSound
<1>1. ASSUME InterfacesInv PROVE part = "line" => Line!LinesAreUnderstood
    BY <1>1, LineInvariance DEF InterfacesInv
<1>2. ASSUME InterfacesInv PROVE RunsSoundly
    BY <1>2, RunInvariance, ConfigIsSound, LinkIsWhole DEF InterfacesInv, RunsSoundly
<1>3. ASSUME InterfacesInv, [InterfaceNext]_allVars
      PROVE  [part = "editor" => Editor!EditsAtCursor /\ Editor!CursorIsShown']_allVars
    <2>1. InterfacesInv' /\ (part = "editor" => UNCHANGED allVars \/ Editor!EditsAtCursor)
        BY <1>3, InterfacesStep
    <2>2. CASE part = "editor" /\ ~ UNCHANGED allVars
        <3>1. part' = part
            BY <1>3, <2>2 DEF InterfaceNext, ServerStep, DecoderStep, LineStep, EditorStep, RunStep, ConfigStep, LinkStep
        <3>2. EditorInv'
            BY <2>1, <2>2, <3>1 DEF InterfacesInv
        <3>3. Editor!CursorIsShown'
            BY <3>2 DEF EditorInv
        <3> QED BY <2>1, <2>2, <3>3
    <2> QED BY <2>2
<1>4. InterfaceSpec => [](part = "line" => Line!LinesAreUnderstood)
    BY <1>1, InterfacesInvariance, PTL
<1>5. InterfaceSpec => []RunsSoundly
    BY <1>2, InterfacesInvariance, PTL
<1>6. InterfaceSpec => [][part = "editor" => Editor!EditsAtCursor /\ Editor!CursorIsShown']_allVars
    <2>1. InterfaceSpec => [][InterfaceNext]_allVars
        BY DEF InterfaceSpec
    <2> QED BY <1>3, <2>1, InterfacesInvariance, PTL
<1> QED BY <1>4, <1>5, <1>6 DEF InterfaceSound, LinesAreUnderstood
=============================================================================
