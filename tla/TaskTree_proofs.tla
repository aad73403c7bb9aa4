--------------------------- MODULE TaskTree_proofs ---------------------------
(***************************************************************************)
(* Proofs about the parts of Projects: TaskTree and TaskFile, for any ids, *)
(* deadlines, estimates and projects that are trees; TaskRecord, for any   *)
(* attributes; and FocusSelection, for any forest and times the focus is   *)
(* chosen by.                                                              *)
(***************************************************************************)
EXTENDS Projects, FiniteSums

-----------------------------------------------------------------------------
(***************************************************************************)
(* Trees.  The way up from a task is the smallest set that is closed, and  *)
(* so the project is above a task when every closed set with it has the    *)
(* project.                                                                *)
(***************************************************************************)
Closed(tr, S) == \A b \in S : tr[b].up \in DOMAIN tr => tr[b].up \in S

LEMMA InEveryClosedSet ==
    ASSUME NEW tr, NEW t \in DOMAIN tr, NEW a \in DOMAIN tr
    PROVE  a \in Up(tr, t) <=> \A S \in SUBSET DOMAIN tr : t \in S /\ Closed(tr, S) => a \in S
BY DEF Up, Closed

(* Only the project has nothing above it.                                  *)
LEMMA HasParent ==
    ASSUME NEW tr, IsTree(tr), NEW t \in DOMAIN tr, t # Root
    PROVE  tr[t].up \in DOMAIN tr
<1> SUFFICES ASSUME tr[t].up \notin DOMAIN tr PROVE FALSE
    OBVIOUS
<1>1. {t} \in SUBSET DOMAIN tr /\ Closed(tr, {t})
    BY DEF Closed
<1>2. Root \in Up(tr, t) /\ Root \in DOMAIN tr
    BY DEF IsTree
<1> QED BY <1>1, <1>2, InEveryClosedSet

(* A tree stays a tree when tasks are put below others or between two: a   *)
(* new task hangs on an old one, or on a new one that does, and an old one *)
(* stays where it is or hangs on a new one that hangs where it was.        *)
LEMMA GrowsTree ==
    ASSUME NEW tr, IsTree(tr), NEW new, DOMAIN tr \subseteq DOMAIN new, DOMAIN new \subseteq Ids,
           \A t \in DOMAIN new : new[t] \in Attr,
           \A t \in DOMAIN tr :
               \/ new[t].up = tr[t].up
               \/ t # Root /\ new[t].up \in DOMAIN new /\ new[new[t].up].up = tr[t].up,
           \A t \in DOMAIN new \ DOMAIN tr :
               \/ new[t].up \in DOMAIN tr
               \/ new[t].up \in DOMAIN new /\ new[new[t].up].up \in DOMAIN tr
    PROVE  IsTree(new)
<1>1. Root \in DOMAIN tr /\ tr[Root].up = NoTask /\ Root \in DOMAIN new /\ new[Root].up = NoTask
    BY DEF IsTree
<1>2. ASSUME NEW S \in SUBSET DOMAIN new, Closed(new, S), NEW t \in S PROVE Root \in S
    <2> DEFINE Old == S \cap DOMAIN tr
    <2>1. Closed(tr, Old)
        BY <1>2 DEF Closed
    <2>2. PICK e \in Old : TRUE
        BY <1>2 DEF Closed
    <2>3. Old \in SUBSET DOMAIN tr /\ Root \in Up(tr, e)
        BY DEF IsTree
    <2> QED BY <1>1, <2>1, <2>2, <2>3, InEveryClosedSet
<1>3. \A t \in DOMAIN new : Root \in Up(new, t)
    BY <1>1, <1>2, InEveryClosedSet
<1> QED BY <1>1, <1>3 DEF IsTree

-----------------------------------------------------------------------------
(***************************************************************************)
(* Deadlines.                                                              *)
(***************************************************************************)
(* The soonest of finitely many deadlines is one of them and none is       *)
(* sooner, unless there is none.                                           *)
LEMMA SoonestIsFirst ==
    ASSUME NEW D, IsFiniteSet(D), D \subseteq Int \cup {NoTime}
    PROVE  /\ Soonest(D) \in Int \cup {NoTime}
           /\ ~ (D \subseteq {NoTime}) => Soonest(D) \in D \ {NoTime} /\ \A e \in D \ {NoTime} : Soonest(D) <= e
<1>1. CASE D \subseteq {NoTime}
    BY <1>1 DEF Soonest
<1>2. CASE ~ (D \subseteq {NoTime})
    <2>1. IsFiniteSet(D \ {NoTime}) /\ D \ {NoTime} # {} /\ D \ {NoTime} \subseteq Int
        BY <1>2, FS_Subset
    <2>2. PICK x \in D \ {NoTime} : \A e \in D \ {NoTime} : x <= e
        BY <2>1, LeastOfFinite
    <2>3. Soonest(D) \in D \ {NoTime} /\ \A e \in D \ {NoTime} : Soonest(D) <= e
        BY <1>2, <2>2 DEF Soonest
    <2> QED BY <2>1, <2>3
<1> QED BY <1>1, <1>2

\* What Propagate makes the deadline of x from.
Limits(tr, t, d, x) == {d} \cup {tr[y].ddl : y \in Path(x) \cap Reach(t, Open)}

LEMMA LimitsAreFinite ==
    ASSUME NEW tr, IsTree(tr), DOMAIN tr = DOMAIN task, NEW t, NEW d \in Int, NEW x
    PROVE  IsFiniteSet(Limits(tr, t, d, x)) /\ Limits(tr, t, d, x) \subseteq Int \cup {NoTime}
<1> DEFINE P == Path(x) \cap Reach(t, Open)
           f == [y \in P |-> tr[y].ddl]
<1>1. P \subseteq DOMAIN tr /\ DOMAIN tr \subseteq Ids
    BY DEF Path, Up, IsTree
<1>2. IsFiniteSet(P)
    BY <1>1, IdsAssumption, FS_Subset
<1>3. IsFiniteSet({f[y] : y \in P})
    BY <1>2, ImageOfFinite
<1>4. {f[y] : y \in P} = {tr[y].ddl : y \in P}
    OBVIOUS
<1>5. IsFiniteSet(Limits(tr, t, d, x))
    BY <1>3, <1>4, FS_AddElement DEF Limits
<1>6. \A y \in P : tr[y].ddl \in Int \cup {NoTime}
    BY <1>1 DEF IsTree, Attr
<1>7. Limits(tr, t, d, x) \subseteq Int \cup {NoTime}
    BY <1>6 DEF Limits
<1> QED BY <1>5, <1>7

(* Setting a deadline changes deadlines.                                   *)
LEMMA PropagateChangesDeadlines ==
    ASSUME NEW tr, IsTree(tr), DOMAIN tr = DOMAIN task, NEW t, NEW d \in Int
    PROVE  /\ DOMAIN Propagate(tr, t, d) = DOMAIN tr
           /\ \A x \in DOMAIN tr :
                 /\ Propagate(tr, t, d)[x] \in Attr
                 /\ Propagate(tr, t, d)[x].up = tr[x].up
                 /\ Propagate(tr, t, d)[x].status = tr[x].status
                 /\ Propagate(tr, t, d)[x].est = tr[x].est
<1>1. DOMAIN Propagate(tr, t, d) = DOMAIN tr
    BY DEF Propagate
<1>2. ASSUME NEW x \in DOMAIN tr
      PROVE  \/ Propagate(tr, t, d)[x] = tr[x]
             \/ Propagate(tr, t, d)[x] = [tr[x] EXCEPT !.ddl = Soonest(Limits(tr, t, d, x))]
    BY DEF Propagate, Limits
<1>3. \A x \in DOMAIN tr : tr[x] \in Attr
    BY DEF IsTree
<1>4. \A x \in DOMAIN tr : Soonest(Limits(tr, t, d, x)) \in Int \cup {NoTime}
    BY LimitsAreFinite, SoonestIsFirst
<1> QED BY <1>1, <1>2, <1>3, <1>4 DEF Attr

-----------------------------------------------------------------------------
(***************************************************************************)
(* Every command leaves a tree, and no estimate below zero.                *)
(***************************************************************************)
LEMMA NewIsTask ==
    ASSUME NEW p \in Ids, NEW st \in Statuses, NEW d \in Int \cup {NoTime}, NEW est \in Int
    PROVE  New(p, st, d, est) \in Attr
BY DEF New, Attr

LEMMA KnownTasks ==
    ASSUME TypeOK
    PROVE  /\ Tasks \subseteq Ids /\ Root \in Tasks /\ NoTask \notin Ids
           /\ \A t \in Tasks : task[t] \in Attr /\ task[t].est >= 0
           /\ \A t \in Tasks : task[t].ddl \in Int \cup {NoTime} /\ task[t].est \in Int
           /\ \A t \in Tasks : task[t].up \in Tasks \/ (t = Root /\ task[t].up = NoTask)
           /\ task[Root].up = NoTask
<1>1. Tasks \subseteq Ids /\ Root \in Tasks /\ task[Root].up = NoTask
    BY DEF TypeOK, IsTree, Tasks
<1>2. \A t \in Tasks : task[t] \in Attr /\ task[t].est >= 0
    BY DEF TypeOK, IsTree, EstimatesCount, Tasks
<1>3. \A t \in Tasks : t # Root => task[t].up \in Tasks
    BY HasParent DEF TypeOK, Tasks
<1>4. \A t \in Tasks : task[t].ddl \in Int \cup {NoTime} /\ task[t].est \in Int
    BY <1>2 DEF Attr
<1> QED BY <1>1, <1>2, <1>3, <1>4, IdsAssumption

(* A command that leaves the hierarchy and puts in no task.                *)
LEMMA SameShape ==
    ASSUME TypeOK, DOMAIN task' = DOMAIN task,
           \A t \in DOMAIN task : task'[t] \in Attr /\ task'[t].up = task[t].up /\ task'[t].est >= 0
    PROVE  TypeOK'
<1>1. IsTree(task) /\ DOMAIN task \subseteq Ids
    BY DEF TypeOK, IsTree
<1>2. IsTree(task')
    BY <1>1, GrowsTree
<1>3. EstimatesCount'
    BY DEF EstimatesCount, Tasks
<1> QED BY <1>2, <1>3 DEF TypeOK

(* A command that puts in one task, n, and leaves the others where they    *)
(* are or below it.                                                        *)
LEMMA OneMore ==
    ASSUME TypeOK, NEW n \in Fresh, DOMAIN task' = DOMAIN task \cup {n},
           \A t \in DOMAIN task' : task'[t] \in Attr /\ task'[t].est >= 0,
           task'[n].up \in DOMAIN task,
           \A t \in DOMAIN task :
               task'[t].up = task[t].up \/ (t # Root /\ task'[t].up = n /\ task'[n].up = task[t].up)
    PROVE  TypeOK'
<1>1. IsTree(task) /\ DOMAIN task \subseteq Ids /\ n \in Ids
    BY DEF TypeOK, IsTree, Fresh
<1>2. IsTree(task')
    BY <1>1, GrowsTree
<1>3. EstimatesCount'
    BY DEF EstimatesCount, Tasks
<1> QED BY <1>2, <1>3 DEF TypeOK

LEMMA CreateKeepsTypes ==
    ASSUME TypeOK, Create
    PROVE  TypeOK'
<1> USE KnownTasks DEF Tasks
<1>0. PICK n \in Fresh :
        \/ \E p \in Tasks, st \in {"todo", "pending"} : Breakdown(p, n, st)
        \/ \E p \in Tasks, m \in Fresh \ {n}, e \in Efforts : Sequence(p, n, m, e)
        \/ \E p \in Tasks, K \in SUBSET (Fresh \ {n}), e \in Efforts : CreateRepetition(p, n, K, e)
        \/ \E t \in Tasks, w \in Efforts, r \in BOOLEAN : Split(t, n, w, r)
        \/ \E t \in Tasks, g \in BOOLEAN, e \in Efforts : NextUp(t, n, g, e)
    BY DEF Create
<1>n. n \in Ids /\ n \notin Tasks
    BY DEF Fresh
<1>s. "todo" \in Statuses /\ {"todo", "pending"} \subseteq Statuses /\ NoTime \in Int \cup {NoTime}
    BY DEF Statuses
<1>e. NewEffort \in Int /\ NewEffort >= 0 /\ \A e \in Efforts : e \in Int /\ e >= 0
    BY NumbersAssumption
<1>1. ASSUME NEW p \in Tasks, NEW st \in {"todo", "pending"}, Breakdown(p, n, st)
      PROVE  TypeOK'
    <2> DEFINE attr == New(p, st, task[p].ddl, NewEffort)
    <2>0. p \in Ids /\ st \in Statuses /\ task[p].ddl \in Int \cup {NoTime}
        BY <1>s
    <2>1. attr \in Attr /\ attr.up = p /\ attr.est >= 0
        <3>1. attr \in Attr
            BY <2>0, <1>e, NewIsTask
        <3> QED BY <3>1, <1>e DEF New
    <2> HIDE DEF attr
    <2>2. task' = [x \in DOMAIN task \cup {n} |-> IF x = n THEN attr ELSE task[x]]
        BY <1>1 DEF Breakdown, With, attr
    <2> QED BY <1>n, <2>1, <2>2, OneMore
<1>2. ASSUME NEW p \in Tasks, NEW m \in Fresh \ {n}, NEW e \in Efforts, Sequence(p, n, m, e)
      PROVE  TypeOK'
    <2> DEFINE upper == New(p, "todo", NoTime, e)
               lower == New(n, "todo", NoTime, e)
    <2>1. p \in Ids /\ m \in Ids /\ m \notin Tasks
        BY DEF Fresh
    <2>2. upper \in Attr /\ upper.up = p /\ upper.est >= 0 /\ lower \in Attr /\ lower.up = n /\ lower.est >= 0
        <3>1. upper \in Attr /\ lower \in Attr
            BY <1>n, <1>s, <1>e, <2>1, NewIsTask
        <3> QED BY <3>1, <1>e DEF New
    <2> HIDE DEF upper, lower
    <2>3. task' = [x \in DOMAIN task \cup {n, m} |-> IF x = m THEN lower ELSE IF x = n THEN upper ELSE task[x]]
        BY <1>2 DEF Sequence, With, upper, lower
    <2>4. IsTree(task) /\ DOMAIN task' = DOMAIN task \cup {n, m} /\ \A t \in DOMAIN task' : task'[t] \in Attr /\ task'[t].est >= 0
        BY <2>2, <2>3 DEF TypeOK
    <2>5. task'[n].up = p /\ task'[m].up = n /\ \A t \in DOMAIN task : task'[t] = task[t]
        BY <1>n, <2>1, <2>2, <2>3
    <2>6. IsTree(task')
        BY <1>n, <2>1, <2>4, <2>5, GrowsTree
    <2> QED BY <2>4, <2>6 DEF TypeOK, EstimatesCount
<1>3. ASSUME NEW p \in Tasks, NEW K \in SUBSET (Fresh \ {n}), NEW e \in Efforts, CreateRepetition(p, n, K, e)
      PROVE  TypeOK'
    <2>1. p \in Ids /\ K \subseteq Ids /\ K \cap Tasks = {} /\ task[p].ddl \in Int \cup {NoTime}
        BY DEF Fresh
    <2> DEFINE attr(q) == New(q, "todo", task[p].ddl, e)
    <2>2. \A q \in {p, n} : attr(q) \in Attr /\ attr(q).up = q /\ attr(q).est >= 0
        <3>1. attr(p) \in Attr /\ attr(n) \in Attr
            BY <1>n, <1>s, <1>e, <2>1, NewIsTask
        <3> QED BY <3>1, <1>e DEF New
    <2> HIDE DEF attr
    <2>3. task' = [x \in DOMAIN task \cup {n} \cup K |->
                      IF x \in DOMAIN task THEN task[x] ELSE attr(IF x = n THEN p ELSE n)]
        BY <1>3 DEF CreateRepetition, attr
    <2>4. IsTree(task) /\ DOMAIN task' = DOMAIN task \cup {n} \cup K
          /\ \A t \in DOMAIN task' : task'[t] \in Attr /\ task'[t].est >= 0
        BY <2>2, <2>3 DEF TypeOK
    <2>5. task'[n].up = p /\ (\A t \in DOMAIN task : task'[t] = task[t]) /\ \A t \in K : t # n /\ task'[t].up = n
        BY <1>n, <2>1, <2>2, <2>3
    <2>6. IsTree(task')
        BY <1>n, <2>1, <2>4, <2>5, GrowsTree
    <2> QED BY <2>4, <2>6 DEF TypeOK, EstimatesCount
<1>4. ASSUME NEW t \in Tasks, NEW w \in Efforts, NEW r \in BOOLEAN, Split(t, n, w, r)
      PROVE  TypeOK'
    <2> DEFINE off == SplitOff(t, w, r)
               attr == New(t, "todo", task[t].ddl, off)
    <2>0. w \in Int /\ w >= 0 /\ task[t].est \in Int /\ task[t].est >= 0 /\ (r \/ w > 0)
        BY <1>4, <1>e DEF Split
    <2>a. t \in Ids /\ task[t].ddl \in Int \cup {NoTime}
        OBVIOUS
    <2>1. off \in Int /\ off >= 0 /\ off <= task[t].est
        BY <2>0 DEF SplitOff, Larger, Smaller
    <2>2. attr \in Attr /\ attr.up = t /\ attr.est >= 0
        <3> HIDE DEF off
        <3>1. attr \in Attr
            BY <1>s, <2>a, <2>1, NewIsTask
        <3> QED BY <2>1, <3>1 DEF New
    <2>3. task' = [x \in DOMAIN task \cup {n} |->
                     IF x = n THEN attr ELSE IF x = t THEN [task[t] EXCEPT !.est = @ - off] ELSE task[x]]
        BY <1>4 DEF Split, With
    <2> HIDE DEF attr, off
    <2>4. [task[t] EXCEPT !.est = @ - off] \in Attr /\ [task[t] EXCEPT !.est = @ - off].est >= 0
          /\ [task[t] EXCEPT !.est = @ - off].up = task[t].up
        BY <2>0, <2>1 DEF Attr
    <2> QED BY <1>n, <2>2, <2>3, <2>4, OneMore
<1>5. ASSUME NEW t \in Tasks, NEW g \in BOOLEAN, NEW e \in Efforts, NextUp(t, n, g, e)
      PROVE  TypeOK'
    <2> DEFINE p == task[t].up
               left == IF g THEN Larger(0, task[p].est - e) ELSE task[p].est
               attr == New(p, "todo", task[p].ddl, IF g THEN e ELSE NewEffort)
    <2>0. t # Root /\ p \in Tasks /\ p # NoTask
        BY <1>5 DEF NextUp
    <2>a. p \in Ids /\ task[p].ddl \in Int \cup {NoTime} /\ task[p].est \in Int /\ task[p].est >= 0
        BY <2>0
    <2>1. left \in Int /\ left >= 0
        BY <2>a, <1>e DEF Larger
    <2>2. attr \in Attr /\ attr.up = p /\ attr.est >= 0
        <3>0. (IF g THEN e ELSE NewEffort) \in Int /\ (IF g THEN e ELSE NewEffort) >= 0
            BY <1>e
        <3>1. attr \in Attr
            BY <2>a, <1>s, <3>0, NewIsTask
        <3> QED BY <3>0, <3>1 DEF New
    <2>3. task' = With([task EXCEPT ![t].up = n, ![p].est = left], n, attr)
        BY <1>5 DEF NextUp
    <2> HIDE DEF attr, left
    <2>4. DOMAIN task' = DOMAIN task \cup {n} /\ task'[n] = attr
        BY <2>3 DEF With
    <2>5. ASSUME NEW x \in DOMAIN task
          PROVE  /\ task'[x] \in Attr /\ task'[x].est >= 0
                 /\ task'[x].up = IF x = t THEN n ELSE task[x].up
        <3>1. task'[x] = [task EXCEPT ![t].up = n, ![p].est = left][x]
            BY <1>n, <2>3 DEF With
        <3> QED BY <1>n, <2>0, <2>1, <3>1 DEF Attr
    <2>6. \A x \in DOMAIN task' : task'[x] \in Attr /\ task'[x].est >= 0
        BY <2>2, <2>4, <2>5
    <2> QED BY <2>0, <2>2, <2>4, <2>5, <2>6, OneMore
<1> QED BY <1>0, <1>1, <1>2, <1>3, <1>4, <1>5

LEMMA ChangeKeepsTypes ==
    ASSUME TypeOK, Change
    PROVE  TypeOK'
<1> USE KnownTasks DEF Tasks
<1>0. IsTree(task)
    BY DEF TypeOK
<1>1. ASSUME NEW t \in Tasks, NEW d \in Times, SetDeadline(t, d) PROVE TypeOK'
    <2>1. d \in Int
        BY NumbersAssumption
    <2> QED BY <1>0, <1>1, <2>1, PropagateChangesDeadlines, SameShape DEF SetDeadline
<1>2. ASSUME NEW t \in Tasks, UnsetDeadline(t) PROVE TypeOK'
    BY <1>2, SameShape DEF UnsetDeadline, Attr
<1>3. ASSUME NEW t \in Tasks, NEW s \in Times, MakeAppointment(t, s) PROVE TypeOK'
    <2> DEFINE tr == [task EXCEPT ![t].ddl = NoTime]
    <2>1. s + task[t].est \in Int
        BY NumbersAssumption DEF Attr
    <2>2. DOMAIN tr = DOMAIN task /\ \A x \in DOMAIN task :
             tr[x] \in Attr /\ tr[x].up = task[x].up /\ tr[x].est = task[x].est
        BY DEF Attr
    <2> HIDE DEF tr
    <2>3. IsTree(tr)
        BY <1>0, <2>2, GrowsTree
    <2>4. task' = Propagate(tr, t, s + task[t].est)
        BY <1>3 DEF MakeAppointment, tr
    <2> QED BY <2>1, <2>2, <2>3, <2>4, PropagateChangesDeadlines, SameShape
<1>4. ASSUME NEW t \in Tasks, Complete(t) PROVE TypeOK'
    BY <1>4, SameShape DEF Complete, Attr, Statuses
<1>5. ASSUME NEW t \in Tasks, NEW n \in Fresh, NEW d \in Times, NEW e \in Efforts,
             CompleteOccurrence(t, n, d, e)
      PROVE  TypeOK'
    <2> DEFINE p == task[t].up
               attr == New(p, "todo", d, e)
    <2>0. t # Root /\ p \in Tasks /\ n \notin Tasks /\ n \in Ids
        BY <1>5 DEF CompleteOccurrence, IsOccurrence, Fresh
    <2>1. attr \in Attr /\ attr.up = p /\ attr.est >= 0
        <3>0. p \in Ids /\ "todo" \in Statuses /\ d \in Int \cup {NoTime} /\ e \in Int /\ e >= 0
            BY <2>0, NumbersAssumption DEF Statuses
        <3>1. attr \in Attr
            BY <3>0, NewIsTask
        <3> QED BY <3>0, <3>1 DEF New
    <2> HIDE DEF attr
    <2>2. task' = [x \in DOMAIN task \cup {n} |->
                     IF x = n THEN attr ELSE IF x = t THEN [task[t] EXCEPT !.status = "done"] ELSE task[x]]
        BY <1>5 DEF CompleteOccurrence, With, attr
    <2>3. [task[t] EXCEPT !.status = "done"] \in Attr
          /\ [task[t] EXCEPT !.status = "done"].up = p
          /\ [task[t] EXCEPT !.status = "done"].est >= 0
        BY DEF Attr, Statuses
    <2> QED BY <2>0, <2>1, <2>2, <2>3, OneMore
<1>6. ASSUME NEW t \in Tasks, Defer(t) PROVE TypeOK'
    BY <1>6, SameShape DEF Defer, Attr, Statuses
<1>7. ASSUME NEW t \in Tasks, Extrude(t) PROVE TypeOK'
    BY <1>7, SameShape DEF Extrude, Attr, Statuses
<1>8. ASSUME NEW t \in Tasks, NEW e \in Efforts, SetEstimate(t, e) PROVE TypeOK'
    BY <1>8, SameShape, NumbersAssumption DEF SetEstimate, Attr
<1> QED BY <1>1, <1>2, <1>3, <1>4, <1>5, <1>6, <1>7, <1>8 DEF Change

LEMMA InitTypes == Init => TypeOK
BY TreesAssumption DEF Init, TypeOK, EstimatesCount, Tasks

(* The tasks are one tree and every estimate counts, whatever commands are *)
(* given: no task is its own ancestor, or hangs on one that is not there,  *)
(* and the file can be read again (handler.rs, task_use_case.rs).          *)
THEOREM TypeCorrect == Spec => []TypeOK
<1>1. Init => TypeOK
    BY InitTypes
<1>2. TypeOK /\ [Next]_task => TypeOK'
    <2> SUFFICES ASSUME TypeOK, [Next]_task PROVE TypeOK'
        OBVIOUS
    <2>1. CASE UNCHANGED task
        BY <2>1 DEF TypeOK, EstimatesCount, Tasks
    <2> QED BY <2>1, CreateKeepsTypes, ChangeKeepsTypes DEF Next
<1> QED BY <1>1, <1>2, PTL DEF Spec

-----------------------------------------------------------------------------
(***************************************************************************)
(* Where a deadline goes.                                                  *)
(***************************************************************************)
(* What is above a task above x is above x.                                *)
LEMMA UpIsTransitive ==
    ASSUME NEW tr, NEW x \in DOMAIN tr, NEW y \in Up(tr, x)
    PROVE  Up(tr, y) \subseteq Up(tr, x)
<1> SUFFICES ASSUME NEW a \in Up(tr, y) PROVE a \in Up(tr, x)
    OBVIOUS
<1>1. y \in DOMAIN tr /\ a \in DOMAIN tr
    BY DEF Up
<1>2. ASSUME NEW S \in SUBSET DOMAIN tr, x \in S, Closed(tr, S) PROVE a \in S
    BY <1>1, <1>2, InEveryClosedSet
<1> QED BY <1>1, <1>2, InEveryClosedSet

LEMMA IsAboveItself ==
    ASSUME NEW tr, NEW x \in DOMAIN tr
    PROVE  x \in Up(tr, x)
BY DEF Up

(* What an open task takes is no later than the deadline that is set, than *)
(* its own and than what a task above it takes.                            *)
LEMMA DeadlineOnTheWay ==
    ASSUME TypeOK, NEW t \in Tasks, NEW d \in Int, SetDeadline(t, d), Open(t), NEW x \in Reach(t, Open)
    PROVE  /\ task'[x].ddl # NoTime /\ task'[x].ddl <= d
           /\ task[x].ddl # NoTime => task'[x].ddl <= task[x].ddl
           /\ \A y \in Path(x) \cap Reach(t, Open) : task'[x].ddl <= task'[y].ddl
<1> DEFINE L(y) == Limits(task, t, d, y)
<1>1. \A y \in Reach(t, Open) : y \in Tasks
    BY DEF Reach
<1>2. \A y \in Reach(t, Open) : task'[y].ddl = Soonest(L(y))
    <2> TAKE y \in Reach(t, Open)
    <2>1. task'[y] = [task[y] EXCEPT !.ddl = Soonest(L(y))]
        BY <1>1 DEF SetDeadline, Propagate, Limits, Open, Done, Tasks
    <2>2. task[y] \in Attr
        BY <1>1 DEF TypeOK, IsTree, Tasks
    <2> QED BY <2>1, <2>2 DEF Attr
<1>3. \A y : IsFiniteSet(L(y)) /\ L(y) \subseteq Int \cup {NoTime}
    BY LimitsAreFinite DEF TypeOK
<1>4. \A y : d \in L(y) /\ d # NoTime
    BY NumbersAssumption DEF Limits
<1>5. ASSUME NEW y
      PROVE  /\ Soonest(L(y)) \in L(y) /\ Soonest(L(y)) \in Int /\ Soonest(L(y)) # NoTime
             /\ \A e \in L(y) : e # NoTime => Soonest(L(y)) <= e
    <2> HIDE DEF L
    <2> QED BY <1>3, <1>4, SoonestIsFirst, NumbersAssumption
<1>6. task[x].ddl \in L(x)
    <2>1. x \in Path(x)
        BY <1>1, IsAboveItself DEF Path, Tasks
    <2> QED BY <2>1 DEF Limits
<1>7. ASSUME NEW y \in Path(x) \cap Reach(t, Open) PROVE L(y) \subseteq L(x)
    <2>1. Path(y) \subseteq Path(x)
        BY <1>1, UpIsTransitive DEF Path, Tasks
    <2> QED BY <2>1 DEF Limits
<1> HIDE DEF L
<1>8. ASSUME NEW y \in Path(x) \cap Reach(t, Open) PROVE task'[x].ddl <= task'[y].ddl
    <2>1. Soonest(L(y)) \in L(x) /\ Soonest(L(y)) # NoTime
        BY <1>5, <1>7
    <2> QED BY <1>2, <1>5, <2>1
<1> QED BY <1>2, <1>4, <1>5, <1>6, <1>8

(* After a deadline is set no open task that the command reaches is due    *)
(* later than that, nor than it was, nor than an open task above it        *)
(* (set_deadline_time_opt).                                                *)
THEOREM DeadlinesCover == Spec => DeadlineCovers
<1>1. TypeOK /\ [Next]_task =>
        [\A t \in Tasks, d \in Times :
          SetDeadline(t, d) /\ Open(t) =>
              \A x \in Reach(t, Open) :
                  /\ task'[x].ddl # NoTime /\ task'[x].ddl <= d
                  /\ task[x].ddl # NoTime => task'[x].ddl <= task[x].ddl
                  /\ \A y \in Path(x) \cap Reach(t, Open) : task'[x].ddl <= task'[y].ddl]_task
    BY DeadlineOnTheWay, NumbersAssumption
<1> QED BY <1>1, TypeCorrect, PTL DEF Spec, DeadlineCovers

-----------------------------------------------------------------------------
(***************************************************************************)
(* Splitting.                                                              *)
(***************************************************************************)
Estimates(tr) == [t \in DOMAIN tr |-> tr[t].est]

LEMMA TotalIsSum ==
    ASSUME NEW tr, IsFiniteSet(DOMAIN tr), \A t \in DOMAIN tr : tr[t].est \in Int
    PROVE  Total(tr) = SumOver(Estimates(tr), DOMAIN tr)
<1> DEFINE S == DOMAIN tr
           f == Estimates(tr)
           Chosen(g) == g = [s \in SUBSET S |->
                                IF s = {} THEN 0 ELSE tr[AnyOf(s)].est + g[s \ {AnyOf(s)}]]
<1>1. \A s \in SUBSET S : s # {} => AnyOf(s) \in S
    BY DEF AnyOf
<1>2. \A s \in SUBSET S : s # {} => tr[AnyOf(s)].est = f[AnyOf(s)]
    BY <1>1 DEF Estimates
<1>3. ASSUME NEW g PROVE Chosen(g) <=> Sums(g, f, S)
    <2> HIDE DEF f
    <2>1. [s \in SUBSET S |-> IF s = {} THEN 0 ELSE tr[AnyOf(s)].est + g[s \ {AnyOf(s)}]]
            = [s \in SUBSET S |-> IF s = {} THEN 0 ELSE f[AnyOf(s)] + g[s \ {AnyOf(s)}]]
        BY <1>2
    <2> QED BY <2>1 DEF Sums
<1>4. \E g : Chosen(g)
    <2> HIDE DEF f, Chosen
    <2> QED BY <1>3, SumsExist
<1>5. PICK g : g = CHOOSE h : Chosen(h)
    OBVIOUS
<1>6. Sums(g, f, S)
    <2> HIDE DEF f, Chosen
    <2> QED BY <1>3, <1>4, <1>5
<1>7. Total(tr) = g[S]
    BY <1>5 DEF Total, MapThenSumSet, MapThenFoldSet, AnyOf
<1>8. PICK k : Sums(k, f, S) /\ SumOver(f, S) = k[S]
    BY SumIsOfSums
<1>9. \A t \in S : f[t] \in Int
    BY DEF Estimates
<1> HIDE DEF f
<1>10. g[S] = k[S]
    BY <1>6, <1>8, <1>9, SumsAgree
<1> QED BY <1>7, <1>8, <1>10 DEF f

LEMMA SplitMovesWork ==
    ASSUME TypeOK, NEW t \in Tasks, NEW n, n \notin Tasks, NEW w \in Efforts, NEW r \in BOOLEAN,
           Split(t, n, w, r)
    PROVE  Total(task') = Total(task)
<1> DEFINE off == SplitOff(t, w, r)
           rest == task[t].est - off
           T == DOMAIN task
           f == Estimates(task)
           h == Estimates(task')
<1>0. /\ IsFiniteSet(T) /\ t \in T /\ n \notin T
      /\ \A x \in T : task[x] \in Attr /\ task[x].est \in Int
    <2>1. IsFiniteSet(T)
        BY KnownTasks, IdsAssumption, FS_Subset DEF Tasks
    <2> QED BY <2>1, KnownTasks DEF Tasks
<1>1. off \in Int
    BY <1>0, NumbersAssumption DEF SplitOff, Larger, Smaller
<1>2. task' = [x \in T \cup {n} |->
                  IF x = n THEN New(t, "todo", task[t].ddl, off)
                  ELSE IF x = t THEN [task[t] EXCEPT !.est = @ - off] ELSE task[x]]
    BY <1>0 DEF Split, With
<1> HIDE DEF off
<1>3. /\ DOMAIN task' = T \cup {n}
      /\ task'[n].est = off /\ task'[t].est = task[t].est - off
      /\ \A x \in T \ {t} : task'[x] = task[x]
    BY <1>0, <1>2 DEF New, Attr
<1>4. IsFiniteSet(T \cup {n}) /\ IsFiniteSet(T \ {t}) /\ (T \cup {n}) \ {n} = T
    BY <1>0, FS_AddElement, FS_RemoveElement
<1>5. \A x \in T \cup {n} : task'[x].est \in Int
    BY <1>0, <1>1, <1>3
<1>6. /\ \A x \in T \cup {n} : h[x] \in Int
      /\ \A x \in T : f[x] \in Int
      /\ h[n] = off /\ h[t] = f[t] - off
      /\ \A x \in T \ {t} : f[x] \in Int /\ f[x] = h[x]
    BY <1>0, <1>3, <1>5 DEF Estimates
<1>7. Total(task) = SumOver(f, T) /\ Total(task') = SumOver(h, T \cup {n})
    BY <1>0, <1>3, <1>4, <1>5, TotalIsSum
<1> HIDE DEF f, h, T
<1>8. SumOver(h, T \cup {n}) = h[n] + SumOver(h, T)
    BY <1>4, <1>6, SumWithout
<1>9. SumOver(h, T) = h[t] + SumOver(h, T \ {t}) /\ SumOver(h, T \ {t}) \in Int
    BY <1>0, <1>6, SumWithout
<1>10. SumOver(f, T) = f[t] + SumOver(f, T \ {t})
    BY <1>0, <1>6, SumWithout
<1>11. SumOver(f, T \ {t}) = SumOver(h, T \ {t})
    BY <1>4, <1>6, SumOfTheSame
<1> QED BY <1>0, <1>1, <1>6, <1>7, <1>8, <1>9, <1>10, <1>11

(* Splitting a task moves estimated work and neither adds nor loses any,   *)
(* however much is asked for or kept back (execute_split).                 *)
THEOREM SplitsKeepTotal == Spec => SplitKeepsTotal
<1>1. TypeOK /\ [Next]_task =>
        [\A t \in Tasks, n \in DOMAIN task' \ Tasks, w \in Efforts, r \in BOOLEAN :
            Split(t, n, w, r) => Total(task') = Total(task)]_task
    BY SplitMovesWork
<1> QED BY <1>1, TypeCorrect, PTL DEF Spec, SplitKeepsTotal

-----------------------------------------------------------------------------
(***************************************************************************)
(* What the walk to the leaves finds.                                      *)
(***************************************************************************)
GoesDown(tr, S) == \A b \in S : \A c \in DOMAIN tr : tr[c].up = b /\ tr[c].status # "done" => c \in S

SightOf(tr) ==
    {d \in DOMAIN tr : tr[d].status # "done"
                       /\ \A S \in SUBSET DOMAIN tr : Root \in S /\ GoesDown(tr, S) => d \in S}

LEMMA SightIsOfTree ==
    InSight = SightOf(task) /\ InSight' = SightOf(task')
BY DEF InSight, SightOf, GoesDown, Reach, Open, Done, Children, Tasks

(* Nothing gets out of sight when the tasks that are finished, F, have no  *)
(* open child, none of the other open tasks is finished, and what is put   *)
(* between two tasks is open.                                              *)
LEMMA SightGrows ==
    ASSUME NEW tr, NEW new, DOMAIN tr \subseteq DOMAIN new, Root \in DOMAIN tr,
           NEW F \in SUBSET DOMAIN tr,
           \A t \in F : new[t].status = "done",
           \A c \in DOMAIN tr : tr[c].up \in F => tr[c].status = "done",
           \A t \in DOMAIN tr \ F : tr[t].status # "done" =>
               /\ new[t].status # "done"
               /\ \/ new[t].up = tr[t].up
                  \/ /\ new[t].up \in DOMAIN new /\ new[new[t].up].status # "done"
                     /\ new[new[t].up].up = tr[t].up
    PROVE  \A t \in SightOf(tr) : new[t].status = "done" \/ t \in SightOf(new)
<1> SUFFICES ASSUME NEW t \in SightOf(tr), new[t].status # "done",
                    NEW S \in SUBSET DOMAIN new, Root \in S, GoesDown(new, S)
             PROVE  t \in S
    BY DEF SightOf
<1> DEFINE Old == (S \cap DOMAIN tr) \cup F
<1>1. GoesDown(tr, Old)
    <2> SUFFICES ASSUME NEW b \in Old, NEW c \in DOMAIN tr, tr[c].up = b, tr[c].status # "done", c \notin F
                 PROVE  c \in S
        BY DEF GoesDown
    <2>1. b \in S
        OBVIOUS
    <2>2. CASE new[c].up = tr[c].up
        BY <2>1, <2>2 DEF GoesDown
    <2>3. CASE new[c].up # tr[c].up
        <3>1. new[c].up \in S
            BY <2>1, <2>3 DEF GoesDown
        <3> QED BY <3>1 DEF GoesDown
    <2> QED BY <2>2, <2>3
<1>2. Old \in SUBSET DOMAIN tr /\ Root \in Old
    OBVIOUS
<1>3. t \in Old
    BY <1>1, <1>2 DEF SightOf
<1> QED BY <1>3

(* The commands that finish nothing.                                       *)
LEMMA NothingFinished ==
    ASSUME TypeOK, DOMAIN task \subseteq DOMAIN task',
           \A t \in DOMAIN task : task[t].status # "done" =>
               /\ task'[t].status # "done"
               /\ \/ task'[t].up = task[t].up
                  \/ /\ task'[t].up \in DOMAIN task' /\ task'[task'[t].up].status # "done"
                     /\ task'[task'[t].up].up = task[t].up
    PROVE  KeepsInSight
<1>1. Root \in DOMAIN task /\ {} \in SUBSET DOMAIN task
    BY KnownTasks DEF Tasks
<1>2. \A t \in SightOf(task) : task'[t].status = "done" \/ t \in SightOf(task')
    BY <1>1, SightGrows
<1> QED BY <1>2, SightIsOfTree DEF KeepsInSight

(* The commands that finish one task.                                      *)
LEMMA OneFinished ==
    ASSUME TypeOK, NEW t \in Tasks, MayFinish(t), DOMAIN task \subseteq DOMAIN task',
           task'[t].status = "done", \A u \in DOMAIN task \ {t} : task'[u] = task[u]
    PROVE  KeepsInSight
<1>1. Root \in DOMAIN task /\ {t} \in SUBSET DOMAIN task
    BY KnownTasks DEF Tasks
<1>2. \A c \in DOMAIN task : task[c].up \in {t} => task[c].status = "done"
    BY DEF MayFinish, HasUndoneChildren, Children, Open, Done, Tasks
<1>3. \A u \in SightOf(task) : task'[u].status = "done" \/ u \in SightOf(task')
    BY <1>1, <1>2, SightGrows
<1> QED BY <1>3, SightIsOfTree DEF KeepsInSight

LEMMA CreateKeepsInSight ==
    ASSUME TypeOK, Create
    PROVE  KeepsInSight
<1> USE KnownTasks DEF Tasks
<1>0. PICK n \in Fresh :
        \/ \E p \in Tasks, st \in {"todo", "pending"} : Breakdown(p, n, st)
        \/ \E p \in Tasks, m \in Fresh \ {n}, e \in Efforts : Sequence(p, n, m, e)
        \/ \E p \in Tasks, K \in SUBSET (Fresh \ {n}), e \in Efforts : CreateRepetition(p, n, K, e)
        \/ \E t \in Tasks, w \in Efforts, r \in BOOLEAN : Split(t, n, w, r)
        \/ \E t \in Tasks, g \in BOOLEAN, e \in Efforts : NextUp(t, n, g, e)
    BY DEF Create
<1>n. n \in Ids /\ n \notin DOMAIN task
    BY DEF Fresh
<1>1. ASSUME NEW p \in Tasks, NEW st \in {"todo", "pending"}, Breakdown(p, n, st) PROVE KeepsInSight
    <2>1. DOMAIN task' = DOMAIN task \cup {n} /\ \A t \in DOMAIN task : task'[t] = task[t]
        BY <1>n, <1>1 DEF Breakdown, With
    <2> QED BY <2>1, NothingFinished
<1>2. ASSUME NEW p \in Tasks, NEW m \in Fresh \ {n}, NEW e \in Efforts, Sequence(p, n, m, e)
      PROVE  KeepsInSight
    <2>1. DOMAIN task \subseteq DOMAIN task' /\ \A t \in DOMAIN task : task'[t] = task[t]
        BY <1>n, <1>2 DEF Sequence, With, Fresh
    <2> QED BY <2>1, NothingFinished
<1>3. ASSUME NEW p \in Tasks, NEW K \in SUBSET (Fresh \ {n}), NEW e \in Efforts, CreateRepetition(p, n, K, e)
      PROVE  KeepsInSight
    <2>1. DOMAIN task \subseteq DOMAIN task' /\ \A t \in DOMAIN task : task'[t] = task[t]
        BY <1>3 DEF CreateRepetition
    <2> QED BY <2>1, NothingFinished
<1>4. ASSUME NEW t \in Tasks, NEW w \in Efforts, NEW r \in BOOLEAN, Split(t, n, w, r)
      PROVE  KeepsInSight
    <2> DEFINE tr == [task EXCEPT ![t].est = @ - SplitOff(t, w, r)]
    <2>1. DOMAIN tr = DOMAIN task /\ \A x \in DOMAIN task : tr[x].up = task[x].up /\ tr[x].status = task[x].status
        BY DEF Attr
    <2> HIDE DEF tr
    <2>2. DOMAIN task' = DOMAIN task \cup {n} /\ \A x \in DOMAIN task : task'[x] = tr[x]
        BY <1>n, <1>4, <2>1 DEF Split, With, tr
    <2> QED BY <2>1, <2>2, NothingFinished
<1>5. ASSUME NEW t \in Tasks, NEW g \in BOOLEAN, NEW e \in Efforts, NextUp(t, n, g, e)
      PROVE  KeepsInSight
    <2> DEFINE p == task[t].up
               left == IF g THEN Larger(0, task[p].est - e) ELSE task[p].est
               tr == [task EXCEPT ![t].up = n, ![p].est = left]
               attr == New(p, "todo", task[p].ddl, IF g THEN e ELSE NewEffort)
    <2>1. DOMAIN tr = DOMAIN task /\ \A x \in DOMAIN task :
              tr[x].status = task[x].status /\ tr[x].up = IF x = t THEN n ELSE task[x].up
        <3> HIDE DEF left
        <3> QED BY DEF Attr
    <2>2. attr.up = p /\ attr.status = "todo"
        BY DEF New
    <2>3. task' = With(tr, n, attr)
        BY <1>5 DEF NextUp
    <2> HIDE DEF tr, attr
    <2>4. /\ DOMAIN task' = DOMAIN task \cup {n} /\ task'[n] = attr
          /\ \A x \in DOMAIN task : task'[x] = tr[x]
        BY <1>n, <2>1, <2>3 DEF With
    <2> QED BY <2>1, <2>2, <2>4, NothingFinished
<1> QED BY <1>0, <1>1, <1>2, <1>3, <1>4, <1>5

LEMMA ChangeKeepsInSight ==
    ASSUME TypeOK, Change
    PROVE  KeepsInSight
<1> USE KnownTasks DEF Tasks
<1>0. IsTree(task)
    BY DEF TypeOK
<1>1. ASSUME NEW t \in Tasks, NEW d \in Times, SetDeadline(t, d) PROVE KeepsInSight
    <2>1. d \in Int
        BY NumbersAssumption
    <2> QED BY <1>0, <1>1, <2>1, PropagateChangesDeadlines, NothingFinished DEF SetDeadline
<1>2. ASSUME NEW t \in Tasks, UnsetDeadline(t) PROVE KeepsInSight
    BY <1>2, NothingFinished DEF UnsetDeadline, Attr
<1>3. ASSUME NEW t \in Tasks, NEW s \in Times, MakeAppointment(t, s) PROVE KeepsInSight
    <2> DEFINE tr == [task EXCEPT ![t].ddl = NoTime]
    <2>1. s + task[t].est \in Int
        BY NumbersAssumption
    <2>2. DOMAIN tr = DOMAIN task /\ \A x \in DOMAIN task :
             tr[x] \in Attr /\ tr[x].up = task[x].up /\ tr[x].status = task[x].status
        BY DEF Attr
    <2> HIDE DEF tr
    <2>3. IsTree(tr)
        BY <1>0, <2>2, GrowsTree
    <2>4. task' = Propagate(tr, t, s + task[t].est)
        BY <1>3 DEF MakeAppointment, tr
    <2> QED BY <2>1, <2>2, <2>3, <2>4, PropagateChangesDeadlines, NothingFinished
<1>4. ASSUME NEW t \in Tasks, Complete(t) PROVE KeepsInSight
    BY <1>4, OneFinished DEF Complete, Attr
<1>5. ASSUME NEW t \in Tasks, NEW n \in Fresh, NEW d \in Times, NEW e \in Efforts,
             CompleteOccurrence(t, n, d, e)
      PROVE  KeepsInSight
    <2> DEFINE tr == [task EXCEPT ![t].status = "done"]
    <2>1. DOMAIN tr = DOMAIN task /\ tr[t].status = "done" /\ \A u \in DOMAIN task \ {t} : tr[u] = task[u]
        BY DEF Attr
    <2> HIDE DEF tr
    <2>2. DOMAIN task' = DOMAIN task \cup {n} /\ \A x \in DOMAIN task : task'[x] = tr[x]
        BY <1>5, <2>1 DEF CompleteOccurrence, With, Fresh, tr
    <2> QED BY <1>5, <2>1, <2>2, OneFinished DEF CompleteOccurrence
<1>6. ASSUME NEW t \in Tasks, Defer(t) PROVE KeepsInSight
    BY <1>6, NothingFinished DEF Defer, Attr
<1>7. ASSUME NEW t \in Tasks, Extrude(t) PROVE KeepsInSight
    BY <1>7, NothingFinished DEF Extrude, Attr
<1>8. ASSUME NEW t \in Tasks, NEW e \in Efforts, SetEstimate(t, e) PROVE KeepsInSight
    BY <1>8, NothingFinished DEF SetEstimate, Attr
<1> QED BY <1>1, <1>2, <1>3, <1>4, <1>5, <1>6, <1>7, <1>8 DEF Change

(* A new open task is in sight when it is put below a task that was, and   *)
(* is not finished now, or below the project: directly, or below another   *)
(* new open task.                                                          *)
LEMMA PutInSight ==
    ASSUME TypeOK, KeepsInSight, DOMAIN task \subseteq DOMAIN task', NEW p \in Tasks,
           task[p].status # "done" => task'[p].status # "done",
           NEW n \in DOMAIN task', task'[n].status # "done",
           \/ task'[n].up = p
           \/ /\ task'[n].up \in DOMAIN task' /\ task'[task'[n].up].status # "done"
              /\ task'[task'[n].up].up = p,
           Path(n)' \cap Tasks \subseteq InSight \cup {Root}
    PROVE  n \in InSight'
<1>0. p \in DOMAIN task /\ p \in DOMAIN task'
    BY DEF Tasks
<1>1. p \in Up(task', n)
    <2> SUFFICES ASSUME NEW S \in SUBSET DOMAIN task', n \in S, Closed(task', S) PROVE p \in S
        BY <1>0, InEveryClosedSet
    <2>1. CASE task'[n].up = p
        BY <1>0, <2>1 DEF Closed
    <2>2. CASE task'[n].up \in DOMAIN task' /\ task'[task'[n].up].up = p
        <3>1. task'[n].up \in S
            BY <2>2 DEF Closed
        <3> QED BY <1>0, <2>2, <3>1 DEF Closed
    <2> QED BY <2>1, <2>2
<1>2. p \in InSight \cup {Root}
    BY <1>1 DEF Path
<1>3. p = Root \/ p \in SightOf(task')
    <2> SUFFICES ASSUME p # Root PROVE p \in SightOf(task')
        OBVIOUS
    <2>1. p \in InSight /\ task[p].status # "done"
        BY <1>2 DEF InSight, Open, Done
    <2>2. p \in InSight'
        BY <2>1 DEF KeepsInSight
    <2> QED BY <2>2, SightIsOfTree
<1>4. ASSUME NEW S \in SUBSET DOMAIN task', Root \in S, GoesDown(task', S) PROVE n \in S
    <2>1. p \in S
        BY <1>3, <1>4 DEF SightOf
    <2>2. CASE task'[n].up = p
        BY <1>4, <2>1, <2>2 DEF GoesDown
    <2>3. CASE /\ task'[n].up \in DOMAIN task' /\ task'[task'[n].up].status # "done"
               /\ task'[task'[n].up].up = p
        <3>1. task'[n].up \in S
            BY <1>4, <2>1, <2>3 DEF GoesDown
        <3> QED BY <1>4, <3>1 DEF GoesDown
    <2> QED BY <2>2, <2>3
<1>5. n \in SightOf(task')
    BY <1>4 DEF SightOf
<1> QED BY <1>5, SightIsOfTree

(* No command puts a task out of sight that is below tasks in sight.       *)
LEMMA CreateAddsInSight ==
    ASSUME TypeOK, Create
    PROVE  AddsInSight
<1> USE KnownTasks DEF Tasks
<1>0. PICK n \in Fresh :
        \/ \E p \in Tasks, st \in {"todo", "pending"} : Breakdown(p, n, st)
        \/ \E p \in Tasks, m \in Fresh \ {n}, e \in Efforts : Sequence(p, n, m, e)
        \/ \E p \in Tasks, K \in SUBSET (Fresh \ {n}), e \in Efforts : CreateRepetition(p, n, K, e)
        \/ \E t \in Tasks, w \in Efforts, r \in BOOLEAN : Split(t, n, w, r)
        \/ \E t \in Tasks, g \in BOOLEAN, e \in Efforts : NextUp(t, n, g, e)
    BY DEF Create
<1>n. n \in Ids /\ n \notin DOMAIN task
    BY DEF Fresh
<1>k. KeepsInSight
    BY CreateKeepsInSight
<1>1. ASSUME NEW p \in Tasks, NEW st \in {"todo", "pending"}, Breakdown(p, n, st) PROVE AddsInSight
    <2>1. /\ DOMAIN task' = DOMAIN task \cup {n} /\ task'[p] = task[p]
          /\ task'[n].up = p /\ task'[n].status # "done"
        BY <1>n, <1>1 DEF Breakdown, With, New
    <2> QED BY <1>k, <2>1, PutInSight DEF AddsInSight
<1>2. ASSUME NEW p \in Tasks, NEW m \in Fresh \ {n}, NEW e \in Efforts, Sequence(p, n, m, e)
      PROVE  AddsInSight
    <2>1. /\ DOMAIN task' = DOMAIN task \cup {n, m} /\ task'[p] = task[p]
          /\ task'[n].up = p /\ task'[n].status # "done"
          /\ task'[m].up = n /\ task'[m].status # "done"
        BY <1>n, <1>2 DEF Sequence, With, New, Fresh
    <2>2. \A k \in {n, m} : Path(k)' \cap Tasks \subseteq InSight \cup {Root} => k \in InSight'
        BY <1>k, <2>1, PutInSight
    <2> QED BY <2>1, <2>2 DEF AddsInSight
<1>3. ASSUME NEW p \in Tasks, NEW K \in SUBSET (Fresh \ {n}), NEW e \in Efforts, CreateRepetition(p, n, K, e)
      PROVE  AddsInSight
    <2>1. /\ DOMAIN task' = DOMAIN task \cup {n} \cup K /\ task'[p] = task[p]
          /\ task'[n].up = p /\ task'[n].status # "done"
          /\ \A k \in K : task'[k].up = n /\ task'[k].status # "done"
        BY <1>n, <1>3 DEF CreateRepetition, New, Fresh
    <2>2. \A k \in {n} \cup K : Path(k)' \cap Tasks \subseteq InSight \cup {Root} => k \in InSight'
        BY <1>k, <2>1, PutInSight
    <2> QED BY <2>1, <2>2 DEF AddsInSight
<1>4. ASSUME NEW t \in Tasks, NEW w \in Efforts, NEW r \in BOOLEAN, Split(t, n, w, r)
      PROVE  AddsInSight
    <2> DEFINE tr == [task EXCEPT ![t].est = @ - SplitOff(t, w, r)]
    <2>1. DOMAIN tr = DOMAIN task /\ tr[t].status = task[t].status
        BY DEF Attr
    <2> HIDE DEF tr
    <2>2. /\ DOMAIN task' = DOMAIN task \cup {n} /\ task'[t].status = task[t].status
          /\ task'[n].up = t /\ task'[n].status # "done"
        BY <1>n, <1>4, <2>1 DEF Split, With, New, tr
    <2> QED BY <1>k, <2>2, PutInSight DEF AddsInSight
<1>5. ASSUME NEW t \in Tasks, NEW g \in BOOLEAN, NEW e \in Efforts, NextUp(t, n, g, e)
      PROVE  AddsInSight
    <2> DEFINE p == task[t].up
               left == IF g THEN Larger(0, task[p].est - e) ELSE task[p].est
               tr == [task EXCEPT ![t].up = n, ![p].est = left]
               attr == New(p, "todo", task[p].ddl, IF g THEN e ELSE NewEffort)
    <2>0. p \in Tasks
        BY <1>5 DEF NextUp
    <2>1. DOMAIN tr = DOMAIN task /\ tr[p].status = task[p].status
        <3> HIDE DEF left
        <3> QED BY <2>0 DEF Attr
    <2>2. attr.up = p /\ attr.status = "todo"
        BY DEF New
    <2>3. task' = With(tr, n, attr)
        BY <1>5 DEF NextUp
    <2> HIDE DEF tr, attr, p
    <2>4. /\ DOMAIN task' = DOMAIN task \cup {n} /\ task'[p].status = task[p].status
          /\ task'[n].up = p /\ task'[n].status # "done"
        BY <1>n, <2>0, <2>1, <2>2, <2>3 DEF With
    <2> QED BY <1>k, <2>0, <2>4, PutInSight DEF AddsInSight
<1> QED BY <1>0, <1>1, <1>2, <1>3, <1>4, <1>5

LEMMA ChangeAddsInSight ==
    ASSUME TypeOK, Change
    PROVE  AddsInSight
<1> USE KnownTasks DEF Tasks
<1>0. IsTree(task)
    BY DEF TypeOK
<1>1. ASSUME NEW t \in Tasks, NEW n \in Fresh, NEW d \in Times, NEW e \in Efforts,
             CompleteOccurrence(t, n, d, e)
      PROVE  AddsInSight
    <2> DEFINE tr == [task EXCEPT ![t].status = "done"]
               p == task[t].up
    <2>0. p \in Tasks /\ p # t /\ n \notin DOMAIN task
        <3>1. t # Root /\ p \in Tasks /\ n \notin DOMAIN task
            BY <1>1 DEF CompleteOccurrence, IsOccurrence, Fresh
        <3>2. ASSUME p = t PROVE FALSE
            <4>1. {t} \in SUBSET DOMAIN task /\ Closed(task, {t}) /\ Root \in Up(task, t) /\ Root \in DOMAIN task
                BY <1>0, <3>2 DEF Closed, IsTree
            <4>2. Root \in {t}
                BY <4>1, InEveryClosedSet
            <4> QED BY <3>1, <4>2
        <3> QED BY <3>1, <3>2
    <2>1. DOMAIN tr = DOMAIN task /\ tr[p] = task[p]
        BY <2>0 DEF Attr
    <2> HIDE DEF tr
    <2>2. /\ DOMAIN task' = DOMAIN task \cup {n} /\ task'[p] = task[p]
          /\ task'[n].up = p /\ task'[n].status # "done"
        BY <1>1, <2>0, <2>1 DEF CompleteOccurrence, With, New, tr
    <2>3. KeepsInSight
        BY ChangeKeepsInSight
    <2> HIDE DEF p
    <2> QED BY <2>0, <2>2, <2>3, PutInSight DEF AddsInSight
<1>2. ASSUME ~ \E t \in Tasks, n \in Fresh, d \in Times, e \in Efforts : CompleteOccurrence(t, n, d, e)
      PROVE  AddsInSight
    <2>1. DOMAIN task' = DOMAIN task
        <3>1. ASSUME NEW t, NEW d, NEW tr, DOMAIN tr = DOMAIN task PROVE DOMAIN Propagate(tr, t, d) = DOMAIN task
            BY <3>1 DEF Propagate
        <3>2. ASSUME NEW t \in Tasks, NEW s \in Times, MakeAppointment(t, s) PROVE DOMAIN task' = DOMAIN task
            <4> DEFINE tr == [task EXCEPT ![t].ddl = NoTime]
            <4>1. DOMAIN tr = DOMAIN task /\ task' = Propagate(tr, t, s + task[t].est)
                BY <3>2 DEF MakeAppointment
            <4> HIDE DEF tr
            <4> QED BY <3>1, <4>1
        <3>3. CASE (\E t \in Tasks, d \in Times : SetDeadline(t, d)) \/ \E t \in Tasks, s \in Times : MakeAppointment(t, s)
            BY <3>1, <3>2, <3>3 DEF SetDeadline
        <3>4. CASE \/ \E t \in Tasks : UnsetDeadline(t) \/ Complete(t) \/ Defer(t) \/ Extrude(t)
                   \/ \E t \in Tasks, e \in Efforts : SetEstimate(t, e)
            BY <3>4 DEF UnsetDeadline, Complete, Defer, Extrude, SetEstimate
        <3> QED BY <1>2, <3>3, <3>4 DEF Change
    <2> QED BY <2>1 DEF AddsInSight
<1> QED BY <1>1, <1>2

(* No command takes away from the walk to the leaves an open task that it  *)
(* reached, and what is put below a task that it reached is reached as     *)
(* well: what is above open work is not finished, whatever commands are    *)
(* given in whatever order (complete_task, execute_next_up).               *)
THEOREM WorkStaysInSight == Spec => StaysInSight
<1>1. TypeOK /\ [Next]_task => [KeepsInSight /\ AddsInSight]_task
    BY CreateKeepsInSight, ChangeKeepsInSight, CreateAddsInSight, ChangeAddsInSight DEF Next
<1> QED BY <1>1, TypeCorrect, PTL DEF Spec, StaysInSight

-----------------------------------------------------------------------------
(***************************************************************************)
(* The project file.  The file holds a tree, whoever wrote it, and a       *)
(* project without a mark is what its file is read as.                     *)
(***************************************************************************)
FileIInv ==
    /\ TypeOK
    /\ IsTree(file.tree)
    /\ marked \in BOOLEAN
    /\ OpenWorkKept

(* Reading a tree makes a tree with the same estimates.                    *)
LEMMA LoadedIsTree ==
    ASSUME NEW tr, IsTree(tr)
    PROVE  /\ IsTree(Loaded(tr)) /\ DOMAIN Loaded(tr) = DOMAIN tr
           /\ \A t \in DOMAIN tr : Loaded(tr)[t].est = tr[t].est
<1>1. \A t \in DOMAIN tr : tr[t] \in Attr
    BY DEF IsTree
<1>2. DOMAIN Loaded(tr) = DOMAIN tr
    BY DEF Loaded
<1>3. ASSUME NEW t \in DOMAIN tr
      PROVE  Loaded(tr)[t] \in Attr /\ Loaded(tr)[t].up = tr[t].up /\ Loaded(tr)[t].est = tr[t].est
    <2>1. Loaded(tr)[t] = [tr[t] EXCEPT !.ddl = IF tr[t].status = "done" THEN NoTime ELSE @,
                                        !.status = IF tr[t].repeats THEN "pending" ELSE @]
        BY DEF Loaded
    <2> QED BY <1>1, <2>1 DEF Attr, Statuses
<1>4. DOMAIN tr \subseteq Ids
    BY DEF IsTree
<1> QED BY <1>2, <1>3, <1>4, GrowsTree

(* An open task that is no routine is read as it was written.              *)
LEMMA OpenIsReadAsItIs ==
    ASSUME NEW tr, IsTree(tr), NEW t \in DOMAIN tr, tr[t].status # "done", ~ tr[t].repeats
    PROVE  Loaded(tr)[t] = tr[t]
<1>1. tr[t] \in Attr
    BY DEF IsTree
<1>2. Loaded(tr)[t] = [tr[t] EXCEPT !.ddl = tr[t].ddl, !.status = tr[t].status]
    BY DEF Loaded
<1> QED BY <1>1, <1>2 DEF Attr

LEMMA FileStep ==
    ASSUME FileIInv, FileNext
    PROVE  FileIInv'
<1> USE DEF FileIInv
<1>1. CASE Command
    <2>1. TypeOK'
        BY <1>1, CreateKeepsTypes, ChangeKeepsTypes DEF Command, Next
    <2>2. file' = file /\ work' = work /\ marked' = (marked \/ task' # task \/ work' # work)
        BY <1>1 DEF Command, Touch
    <2>3. OpenWorkKept'
        <3>1. ~ marked' => ~ marked /\ task' = task
            BY <2>2
        <3> QED BY <2>2, <3>1 DEF OpenWorkKept, Tasks, Open, Done, Loaded
    <2> QED BY <2>1, <2>2, <2>3
<1>2. ASSUME NEW t \in Tasks, NEW w \in Works, SetActual(t, w) PROVE FileIInv'
    <2>1. task' = task /\ file' = file /\ marked' = (marked \/ task' # task \/ work' # work)
        BY <1>2 DEF SetActual, Touch
    <2>2. OpenWorkKept'
        <3>1. ~ marked' => ~ marked /\ work' = work
            BY <2>1
        <3> QED BY <2>1, <3>1 DEF OpenWorkKept, Tasks, Open, Done, Loaded
    <2>3. TypeOK'
        BY <2>1 DEF TypeOK, EstimatesCount, Tasks
    <2> QED BY <2>1, <2>2, <2>3
<1>3. CASE Save
    <2>1. task' = task /\ work' = work /\ ~ marked' /\ marked' \in BOOLEAN
        BY <1>3 DEF Save
    <2>2. TypeOK'
        BY <2>1 DEF TypeOK, EstimatesCount, Tasks
    <2>3. CASE marked
        <3>1. file' = [tree |-> task, work |-> work]
            BY <1>3, <2>3 DEF Save
        <3>2. file'.tree = task /\ file'.work = work /\ IsTree(task)
            BY <3>1 DEF TypeOK
        <3>3. DOMAIN Loaded(task) = DOMAIN task
            BY DEF Loaded
        <3>4. \A t \in DOMAIN task : task[t].status # "done" /\ ~ task[t].repeats => Loaded(task)[t] = task[t]
            BY <3>2, OpenIsReadAsItIs
        <3>5. OpenWorkKept'
            BY <2>1, <3>2, <3>3, <3>4 DEF OpenWorkKept, Tasks, Open, Done, Loaded
        <3> QED BY <2>1, <2>2, <3>2, <3>5
    <2>4. CASE ~ marked
        <3>1. file' = file
            BY <1>3, <2>4 DEF Save
        <3>2. OpenWorkKept'
            BY <2>1, <2>4, <3>1 DEF OpenWorkKept, Tasks, Open, Done, Loaded
        <3> QED BY <2>1, <2>2, <3>1, <3>2
    <2> QED BY <2>3, <2>4
<1>4. CASE Load
    <2>1. /\ task' = Loaded(file.tree) /\ work' = file.work /\ file' = file /\ marked' = FALSE
          /\ \A t \in DOMAIN file.tree : file.tree[t].est >= 0
        BY <1>4 DEF Load, Loadable
    <2>2. TypeOK'
        BY <2>1, LoadedIsTree DEF TypeOK, EstimatesCount, Tasks
    <2>3. OpenWorkKept'
        BY <2>1 DEF OpenWorkKept, Tasks, Loaded
    <2> QED BY <2>1, <2>2, <2>3
<1> QED BY <1>1, <1>2, <1>3, <1>4 DEF FileNext

LEMMA FileInitInv == FileInit => FileIInv
<1> SUFFICES ASSUME FileInit PROVE FileIInv
    OBVIOUS
<1>1. PICK tr \in Trees : file = [tree |-> tr, work |-> [t \in Ids |-> 0]]
    BY DEF FileInit
<1>2. file.tree = tr /\ IsTree(tr) /\ \A t \in DOMAIN tr : tr[t].est >= 0
    BY <1>1, TreesAssumption
<1>3. task = Loaded(tr) /\ work = file.work /\ marked = FALSE
    BY <1>2 DEF FileInit
<1>4. TypeOK
    BY <1>2, <1>3, LoadedIsTree DEF TypeOK, EstimatesCount, Tasks
<1>5. OpenWorkKept
    BY <1>2, <1>3 DEF OpenWorkKept, Tasks
<1> QED BY <1>2, <1>3, <1>4, <1>5 DEF FileIInv

LEMMA FileAtRest == FileIInv /\ UNCHANGED fileVars => FileIInv'
<1> SUFFICES ASSUME FileIInv, UNCHANGED fileVars PROVE FileIInv'
    OBVIOUS
<1>1. task' = task /\ work' = work /\ file' = file /\ marked' = marked
    BY DEF fileVars
<1>2. TypeOK'
    BY <1>1 DEF FileIInv, TypeOK, EstimatesCount, Tasks
<1>3. OpenWorkKept'
    BY <1>1 DEF FileIInv, OpenWorkKept, Tasks, Open, Done, Loaded
<1> QED BY <1>1, <1>2, <1>3 DEF FileIInv

LEMMA FileInvariance == FileSpec => []FileIInv
<1>1. FileIInv /\ [FileNext]_fileVars => FileIInv'
    BY FileStep, FileAtRest
<1> QED BY <1>1, FileInitInv, PTL DEF FileSpec

(* Through saves and reads as well the tasks are one tree with estimates   *)
(* that count, so that only the work, which may be set below zero, can     *)
(* make a file that is refused (yaml.rs, task_repository.rs).              *)
THEOREM FileTypeCorrect == FileSpec => []TypeOK
BY FileInvariance, PTL DEF FileIInv

(* A project without a mark has the tasks of its file, their work, and     *)
(* every open task that is no routine as it is (task_to_yaml, yaml.rs).    *)
THEOREM OpenWorkIsKept == FileSpec => []OpenWorkKept
BY FileInvariance, PTL DEF FileIInv

-----------------------------------------------------------------------------
(***************************************************************************)
(* The walk to the leaves (FocusSelection)                                 *)
(***************************************************************************)
\* How deep the tasks are: less than their parents.
AreDepths(depth, n) ==
    /\ n \in Nat /\ depth \in [Members -> 0..n]
    /\ NoTask \notin Members /\ \A t \in Members : depth[t] \in Int
    /\ \A t \in Members : ParentOf[t] # NoTask => ParentOf[t] \in Members /\ depth[ParentOf[t]] < depth[t]

LEMMA SetsAre ==
    /\ Focus!IsFiniteSet(Members) <=> IsFiniteSet(Members)
    /\ Focus!Cardinality(Members) = Cardinality(Members)
<1>1. Focus!IsFiniteSet(Members) <=> IsFiniteSet(Members)
    BY DEF Focus!IsFiniteSet, IsFiniteSet
<1>2. Focus!Cardinality(Members) = Cardinality(Members)
    BY DEF Focus!Cardinality, Cardinality, Focus!IsFiniteSet, IsFiniteSet
<1> QED BY <1>1, <1>2

LEMMA DepthsAre ==
    ASSUME Focus!IsForest
    PROVE  \E depth, n : AreDepths(depth, n)
<1>1. PICK depth \in [Members -> 0..Cardinality(Members)] :
          \A t \in Members : ParentOf[t] # NoTask => depth[ParentOf[t]] < depth[t]
    BY SetsAre DEF Focus!IsForest
<1>2. Cardinality(Members) \in Nat
    BY FS_CardinalityType, SetsAre DEF Focus!IsForest
<1>3. \A t \in Members : ParentOf[t] # NoTask => ParentOf[t] \in Members
    BY DEF Focus!IsForest
<1>4. NoTask \notin Members /\ \A t \in Members : depth[t] \in Int
    BY <1>1, <1>2 DEF Focus!IsForest
<1> QED BY <1>1, <1>2, <1>3, <1>4 DEF AreDepths

\* Where the walk can go: a task with nothing left to do below, and the way
\* down to it from a task.
IsEnd(ts, statuses, l) == l \in Members /\ ts[l].status \in statuses /\ Focus!Undone(ts, l) = {}
Above(l) == {l} \cup Focus!Shell!Ancestors[l]
IsWay(ts, t, l) == t \in Above(l) /\ \A a \in Above(l) : t \in Focus!Shell!Ancestors[a] => ts[a].status # "done"

(* Ancestors are what their definition says.                               *)
LEMMA AncestorsAre ==
    ASSUME Focus!IsForest
    PROVE  \A t \in Members :
              /\ Focus!Shell!Ancestors[t] = IF ParentOf[t] = NoTask THEN {}
                                            ELSE {ParentOf[t]} \cup Focus!Shell!Ancestors[ParentOf[t]]
              /\ Focus!Shell!Ancestors[t] \subseteq Members
<1>1. PICK depth, n : AreDepths(depth, n)
    BY DepthsAre
<1> DEFINE V == SUBSET Members
           Value(t, f) == IF ParentOf[t] = NoTask THEN {} ELSE {ParentOf[t]} \cup f[ParentOf[t]]
           step == [p \in Members \X [Members -> V] |-> Value(p[1], p[2])]
<1>2. n \in Nat
    BY <1>1 DEF AreDepths
<1>3. \A t \in Members, f \in [Members -> V] : Value(t, f) \in V
    BY <1>1 DEF AreDepths
<1>4. \A t \in Members, f \in [Members -> V] : step[<<t, f>>] = Value(t, f)
    OBVIOUS
<1>5. Recursion(Members, V, n, depth, step)
    <2>1. step \in [Members \X [Members -> V] -> V]
        BY <1>3
    <2>2. \A x \in Members : \A g, h \in [Members -> V] :
              (\A y \in Members : depth[y] < depth[x] => g[y] = h[y]) => Value(x, g) = Value(x, h)
        BY <1>1 DEF AreDepths
    <2> HIDE DEF step, Value, V
    <2>3. \A x \in Members : \A g, h \in [Members -> V] :
              (\A y \in Members : depth[y] < depth[x] => g[y] = h[y]) => step[<<x, g>>] = step[<<x, h>>]
        BY <1>4, <2>2
    <2> QED BY <1>1, <1>2, <2>1, <2>3 DEF Recursion, V, AreDepths
<1>6. PICK f \in [Members -> V] : \A t \in Members : f[t] = step[<<t, f>>]
    <2> HIDE DEF step, V
    <2> QED BY <1>5, RecursionExists
<1>7. f = [t \in Members |-> Value(t, f)]
    <2>1. \A t \in Members : f[t] = Value(t, f)
        BY <1>4, <1>6
    <2> HIDE DEF Value, step
    <2> QED BY <1>6, <2>1
<1>8. Focus!Shell!Ancestors = CHOOSE a : a = [t \in Members |-> Value(t, a)]
    BY DEF Focus!Shell!Ancestors
<1>9. Focus!Shell!Ancestors = [t \in Members |-> Value(t, Focus!Shell!Ancestors)]
    <2> HIDE DEF Value
    <2> QED BY <1>7, <1>8
<1>10. \A t \in Members : Focus!Shell!Ancestors[t] = Value(t, Focus!Shell!Ancestors)
    <2> HIDE DEF Value
    <2> QED BY <1>9
<1> DEFINE Good == {t \in Members : Focus!Shell!Ancestors[t] \subseteq Members}
<1>11. \A t \in Members : (\A u \in Members : depth[u] < depth[t] => u \in Good) => t \in Good
    BY <1>1, <1>10 DEF AreDepths
<1>12. Inherited(Good, Members, n, depth)
    <2> HIDE DEF Good
    <2> QED BY <1>1, <1>2, <1>11 DEF Inherited, Good, AreDepths
<1>13. Good = Members
    <2> HIDE DEF Good
    <2> QED BY <1>12, RankInduction
<1>14. \A t \in Members : Focus!Shell!Ancestors[t] \subseteq Members
    BY <1>13
<1> QED BY <1>10, <1>14

(* No task is above itself, what is above what is above it is, and of two  *)
(* above it one is above the other.                                        *)
LEMMA AncestorsOrder ==
    ASSUME Focus!IsForest
    PROVE  /\ \A t \in Members : t \notin Focus!Shell!Ancestors[t]
           /\ \A t \in Members : \A a \in Focus!Shell!Ancestors[t] :
                 Focus!Shell!Ancestors[a] \subseteq Focus!Shell!Ancestors[t]
           /\ \A t \in Members : \A a, b \in Above(t) :
                 a = b \/ a \in Focus!Shell!Ancestors[b] \/ b \in Focus!Shell!Ancestors[a]
<1>1. PICK depth, n : AreDepths(depth, n)
    BY DepthsAre
<1>2. n \in Nat
    BY <1>1 DEF AreDepths
<1> DEFINE Anc(t) == Focus!Shell!Ancestors[t]
           Good == {t \in Members : \A a \in Anc(t) : a \in Members /\ depth[a] < depth[t] /\ Anc(a) \subseteq Anc(t)}
<1>3. \A t \in Members : (\A u \in Members : depth[u] < depth[t] => u \in Good) => t \in Good
    <2> SUFFICES ASSUME NEW t \in Members, \A u \in Members : depth[u] < depth[t] => u \in Good,
                        NEW a \in Anc(t)
                 PROVE  a \in Members /\ depth[a] < depth[t] /\ Anc(a) \subseteq Anc(t)
        OBVIOUS
    <2>1. /\ ParentOf[t] \in Members /\ depth[ParentOf[t]] < depth[t]
          /\ Anc(t) = {ParentOf[t]} \cup Anc(ParentOf[t])
        BY <1>1, AncestorsAre DEF AreDepths
    <2>2. \A b \in Anc(ParentOf[t]) : b \in Members /\ depth[b] < depth[ParentOf[t]] /\ Anc(b) \subseteq Anc(ParentOf[t])
        BY <2>1
    <2> HIDE DEF Anc
    <2>3. depth[t] \in Int /\ depth[ParentOf[t]] \in Int /\ (a \in Members => depth[a] \in Int)
        BY <1>1, <1>2, <2>1 DEF AreDepths
    <2> QED BY <2>1, <2>2, <2>3
<1>4. Inherited(Good, Members, n, depth)
    <2> HIDE DEF Good
    <2> QED BY <1>1, <1>2, <1>3 DEF Inherited, Good, AreDepths
<1>5. Good = Members
    BY <1>4, RankInduction
<1>6. \A t \in Members : depth[t] \in Int
    BY <1>1 DEF AreDepths
<1> DEFINE Line(t) == \A a, b \in {t} \cup Anc(t) : a = b \/ a \in Anc(b) \/ b \in Anc(a)
           Lines == {t \in Members : Line(t)}
<1>7. \A t \in Members : (\A u \in Members : depth[u] < depth[t] => u \in Lines) => t \in Lines
    <2> SUFFICES ASSUME NEW t \in Members, \A u \in Members : depth[u] < depth[t] => u \in Lines PROVE Line(t)
        OBVIOUS
    <2>1. CASE ParentOf[t] = NoTask
        BY <2>1, AncestorsAre
    <2>2. CASE ParentOf[t] # NoTask
        <3>1. /\ ParentOf[t] \in Members /\ depth[ParentOf[t]] < depth[t]
              /\ Anc(t) = {ParentOf[t]} \cup Anc(ParentOf[t])
            BY <1>1, <2>2, AncestorsAre DEF AreDepths
        <3>2. Line(ParentOf[t])
            BY <3>1
        <3> HIDE DEF Anc
        <3> QED BY <3>1, <3>2
    <2> QED BY <2>1, <2>2
<1>8. Inherited(Lines, Members, n, depth)
    <2> HIDE DEF Lines
    <2> QED BY <1>1, <1>2, <1>7 DEF Inherited, Lines, AreDepths
<1>9. Lines = Members
    BY <1>8, RankInduction
<1> QED BY <1>5, <1>6, <1>9 DEF Above

(* From a task the walk finds the ends it has a way to.                    *)
LEMMA WalkFinds ==
    ASSUME Focus!IsForest, NEW ts, NEW statuses
    PROVE  Focus!LeafTasks(ts, statuses) =
              UNION {{l \in Members : IsEnd(ts, statuses, l) /\ IsWay(ts, r, l)} : r \in Focus!Children(NoTask)}
<1> DEFINE Found(t) == {l \in Members : IsEnd(ts, statuses, l) /\ IsWay(ts, t, l)}
           Value(t, f) == IF ts[t].status \in statuses /\ Focus!Undone(ts, t) = {} THEN {t}
                          ELSE UNION {{l \in f[c] : ts[l].status \in statuses} : c \in Focus!Undone(ts, t)}
           Walk == CHOOSE f : f = [t \in Members |-> Value(t, f)]
<1> DEFINE Anc(t) == Focus!Shell!Ancestors[t]
<1>1. Focus!LeafTasks(ts, statuses) = UNION {Walk[r] : r \in Focus!Children(NoTask)}
    BY DEF Focus!LeafTasks
<1>2. \A t \in Members : Focus!Undone(ts, t) = {c \in Members : ParentOf[c] = t /\ ts[c].status # "done"}
    BY DEF Focus!Undone, Focus!Children
<1>3. ASSUME NEW t \in Members, NEW l \in Members, IsEnd(ts, statuses, l)
      PROVE  IsWay(ts, t, l) <=> l = t \/ \E c \in Focus!Undone(ts, t) : IsWay(ts, c, l)
    <2>0. /\ \A a \in Above(l) : a \in Members /\ Anc(a) \subseteq Above(l)
          /\ \A a \in Members : a \notin Anc(a)
          /\ \A a \in Members : ParentOf[a] # NoTask => ParentOf[a] \in Members /\ Anc(a) = {ParentOf[a]} \cup Anc(ParentOf[a])
          /\ \A a \in Members : ParentOf[a] = NoTask => Anc(a) = {}
          /\ \A a \in Members : \A b \in Anc(a) : Anc(b) \subseteq Anc(a) /\ b \in Members
        BY AncestorsAre, AncestorsOrder DEF Above
    <2>00. NoTask \notin Members
        BY DepthsAre DEF AreDepths
    <2> HIDE DEF Anc
    <2>1. ASSUME IsWay(ts, t, l), l # t PROVE \E c \in Focus!Undone(ts, t) : IsWay(ts, c, l)
        <3> DEFINE Good == {a \in Members : t \in Anc(a) => \E c \in Members : ParentOf[c] = t /\ c \in {a} \cup Anc(a)}
        <3>1. PICK depth, n : AreDepths(depth, n)
            BY DepthsAre
        <3>2. \A a \in Members : (\A b \in Members : depth[b] < depth[a] => b \in Good) => a \in Good
            BY <2>0, <3>1 DEF AreDepths
        <3>3. Inherited(Good, Members, n, depth)
            <4> HIDE DEF Good
            <4> QED BY <3>1, <3>2 DEF Inherited, Good, AreDepths
        <3>4. l \in Good
            BY <3>3, RankInduction
        <3>5. t \in Anc(l)
            BY <2>1 DEF IsWay, Above, Anc
        <3>6. PICK c \in Members : ParentOf[c] = t /\ c \in Above(l)
            BY <3>4, <3>5 DEF Above, Anc
        <3>7. t \in Anc(c)
            BY <2>0, <3>6, <2>00
        <3>8. c \in Focus!Undone(ts, t)
            BY <1>2, <2>1, <3>6, <3>7 DEF IsWay, Anc
        <3>9. \A a \in Above(l) : c \in Anc(a) => t \in Anc(a)
            BY <2>0, <3>7
        <3> QED BY <2>1, <3>6, <3>8, <3>9 DEF IsWay, Anc
    <2>2. ASSUME l = t PROVE IsWay(ts, t, l)
        BY <2>0, <2>2 DEF IsWay, Above, Anc
    <2>3. ASSUME NEW c \in Focus!Undone(ts, t), IsWay(ts, c, l) PROVE IsWay(ts, t, l)
        <3>1. c \in Members /\ ParentOf[c] = t /\ ts[c].status # "done" /\ c \in Above(l)
            BY <1>2, <2>3 DEF IsWay
        <3>2. t \in Anc(c) /\ t \in Above(l) /\ Anc(c) = {t} \cup Anc(t) /\ t \notin Anc(t)
            BY <2>0, <3>1, <2>00
        <3>3. ASSUME NEW a \in Above(l), t \in Anc(a) PROVE ts[a].status # "done"
            <4>1. CASE c \in Anc(a)
                BY <2>3, <3>3, <4>1 DEF IsWay, Anc
            <4>2. CASE a = c
                BY <3>1, <4>2
            <4>3. CASE a \notin {c} \cup Anc(c) /\ c \notin Anc(a)
                BY <2>0, <3>1, <3>3, <4>3, AncestorsOrder DEF Above, Anc
            <4>4. CASE a \in Anc(c)
                BY <2>0, <3>2, <3>3, <4>4
            <4> QED BY <4>1, <4>2, <4>3, <4>4
        <3> QED BY <3>2, <3>3 DEF IsWay, Anc
    <2> QED BY <2>1, <2>2, <2>3
<1>4. \A t \in Members : Found(t) = IF ts[t].status \in statuses /\ Focus!Undone(ts, t) = {} THEN {t}
                                 ELSE UNION {{l \in Found(c) : ts[l].status \in statuses} : c \in Focus!Undone(ts, t)}
    <2> SUFFICES ASSUME NEW t \in Members
                 PROVE  Found(t) = IF ts[t].status \in statuses /\ Focus!Undone(ts, t) = {} THEN {t}
                                   ELSE UNION {{l \in Found(c) : ts[l].status \in statuses} : c \in Focus!Undone(ts, t)}
        OBVIOUS
    <2>1. \A l \in Members : l \in Found(t) <=>
             IsEnd(ts, statuses, l) /\ (l = t \/ \E c \in Focus!Undone(ts, t) : IsWay(ts, c, l))
        BY <1>3
    <2>2. IsEnd(ts, statuses, t) <=> ts[t].status \in statuses /\ Focus!Undone(ts, t) = {}
        BY DEF IsEnd
    <2>3. \A l : IsEnd(ts, statuses, l) => ts[l].status \in statuses /\ l \in Members
        BY DEF IsEnd
    <2>4. CASE IsEnd(ts, statuses, t)
        BY <2>1, <2>2, <2>4
    <2>5. CASE ~ IsEnd(ts, statuses, t)
        <3>1. ~ (ts[t].status \in statuses /\ Focus!Undone(ts, t) = {})
            BY <2>2, <2>5
        <3>2. \A l \in Members : l \in Found(t) <=> \E c \in Focus!Undone(ts, t) : l \in Found(c)
            BY <2>1, <2>5
        <3>3. \A l \in Members : \A c : l \in Found(c) => ts[l].status \in statuses
            BY <2>3
        <3>4. \A c : Found(c) \subseteq Members
            OBVIOUS
        <3> HIDE DEF Found
        <3> QED BY <3>1, <3>2, <3>3, <3>4
    <2> QED BY <2>4, <2>5
<1> DEFINE F == [t \in Members |-> Found(t)]
<1>5. F = [t \in Members |-> Value(t, F)]
    <2>1. \A t \in Members : Value(t, F) = Found(t)
        <3> SUFFICES ASSUME NEW t \in Members PROVE Value(t, F) = Found(t)
            OBVIOUS
        <3>1. \A c \in Focus!Undone(ts, t) : F[c] = Found(c)
            BY <1>2
        <3> HIDE DEF F, Found
        <3>2. UNION {{l \in F[c] : ts[l].status \in statuses} : c \in Focus!Undone(ts, t)}
              = UNION {{l \in Found(c) : ts[l].status \in statuses} : c \in Focus!Undone(ts, t)}
            BY <3>1
        <3> QED BY <1>4, <3>2
    <2> HIDE DEF Value, Found
    <2> QED BY <2>1
<1>6. Walk = [t \in Members |-> Value(t, Walk)]
    <2> HIDE DEF Value, F
    <2> QED BY <1>5
<1>7. PICK depth, n : AreDepths(depth, n)
    BY DepthsAre
<1> DEFINE height == [t \in Members |-> n - depth[t]]
           Good == {t \in Members : Walk[t] = F[t]}
<1>8. n \in Nat
    BY <1>7 DEF AreDepths
<1>9. /\ height \in [Members -> 0..n]
      /\ \A t \in Members : \A c \in Focus!Undone(ts, t) : c \in Members /\ height[c] < height[t]
    <2>1. height \in [Members -> 0..n]
        BY <1>7, <1>8 DEF AreDepths
    <2>2. \A t \in Members : depth[t] \in Int
        BY <1>7 DEF AreDepths
    <2>3. \A t \in Members : \A c \in Focus!Undone(ts, t) : c \in Members /\ depth[t] < depth[c]
        BY <1>2, <1>7 DEF AreDepths
    <2> QED BY <1>8, <2>1, <2>2, <2>3
<1>10. \A t \in Members : (\A u \in Members : height[u] < height[t] => u \in Good) => t \in Good
    <2> SUFFICES ASSUME NEW t \in Members, \A u \in Members : height[u] < height[t] => u \in Good
                 PROVE  Walk[t] = F[t]
        OBVIOUS
    <2>1. \A c \in Focus!Undone(ts, t) : Walk[c] = F[c]
        BY <1>9
    <2>2. Walk[t] = Value(t, Walk) /\ F[t] = Value(t, F)
        <3> HIDE DEF Value, F, Walk
        <3> QED BY <1>5, <1>6
    <2> HIDE DEF F, Walk, height, Good
    <2>3. UNION {{l \in Walk[c] : ts[l].status \in statuses} : c \in Focus!Undone(ts, t)}
          = UNION {{l \in F[c] : ts[l].status \in statuses} : c \in Focus!Undone(ts, t)}
        BY <2>1
    <2> QED BY <2>2, <2>3
<1>11. Good = Members
    <2>1. Inherited(Good, Members, n, height)
        <3> HIDE DEF Good, height
        <3> QED BY <1>8, <1>9, <1>10 DEF Inherited, Good, AreDepths
    <2> HIDE DEF Good, height
    <2> QED BY <2>1, RankInduction
<1>12. \A r \in Focus!Children(NoTask) : r \in Members /\ Walk[r] = Found(r)
    <2>1. \A r \in Focus!Children(NoTask) : r \in Members
        BY DEF Focus!Children
    <2>2. \A r \in Members : F[r] = Found(r)
        BY DEF F
    <2> HIDE DEF Walk, F, Found
    <2> QED BY <1>11, <2>1, <2>2
<1>13. UNION {Walk[r] : r \in Focus!Children(NoTask)} = UNION {Found(r) : r \in Focus!Children(NoTask)}
    <2> HIDE DEF Walk, Found
    <2> QED BY <1>12
<1> QED BY <1>1, <1>13

(* These are the leaves that InteractiveShell means: every task has a root *)
(* above it, which is above all others there, and finished only there.     *)
LEMMA LeavesAreFound ==
    ASSUME Focus!IsForest, NEW ts, \A t \in Members : ts[t].status # "absent",
           NEW statuses, "done" \notin statuses
    PROVE  Focus!LeafTasks(ts, statuses) = Focus!Shell!Leaves([t \in Members |-> ts[t].status], statuses)
<1> DEFINE Anc(t) == Focus!Shell!Ancestors[t]
           v == [t \in Members |-> ts[t].status]
<1>1. PICK depth, n : AreDepths(depth, n)
    BY DepthsAre
<1>2. \A t \in Members : ParentOf[t] # NoTask => ParentOf[t] \in Members /\ Anc(t) = {ParentOf[t]} \cup Anc(ParentOf[t])
    BY <1>1, AncestorsAre DEF AreDepths
<1>3. \A t \in Members : Anc(t) \subseteq Members /\ (ParentOf[t] = NoTask => Anc(t) = {})
    BY AncestorsAre
<1> DEFINE Good == {t \in Members : \E r \in Above(t) : ParentOf[r] = NoTask}
<1>4. \A t \in Members : (\A u \in Members : depth[u] < depth[t] => u \in Good) => t \in Good
    BY <1>1, <1>2 DEF AreDepths, Above
<1>5. Good = Members
    <2>1. Inherited(Good, Members, n, depth)
        <3> HIDE DEF Good
        <3> QED BY <1>1, <1>4 DEF Inherited, Good, AreDepths
    <2> HIDE DEF Good
    <2> QED BY <2>1, RankInduction
<1>6. ASSUME NEW l \in Members, NEW r \in Above(l), ParentOf[r] = NoTask
      PROVE  \A a \in Above(l) : a \in Members /\ (r \in Anc(a) <=> ParentOf[a] # NoTask)
    <2> SUFFICES ASSUME NEW a \in Above(l) PROVE a \in Members /\ (r \in Anc(a) <=> ParentOf[a] # NoTask)
        OBVIOUS
    <2>1. r \in Members /\ a \in Members
        BY <1>3, <1>6 DEF Above
    <2>2. Anc(r) = {}
        BY <1>3, <1>6, <2>1
    <2>3. r = a \/ a \in Anc(r) \/ r \in Anc(a)
        BY <1>6, AncestorsOrder
    <2> HIDE DEF Anc
    <2> QED BY <1>3, <1>6, <2>1, <2>2, <2>3
<1>7. ASSUME NEW l \in Members
      PROVE  l \in Focus!LeafTasks(ts, statuses) <=>
                IsEnd(ts, statuses, l) /\ \A a \in Anc(l) : ts[a].status = "done" => ParentOf[a] = NoTask
    <2>1. l \in Focus!LeafTasks(ts, statuses) <=>
             IsEnd(ts, statuses, l) /\ \E r \in Members : ParentOf[r] = NoTask /\ IsWay(ts, r, l)
        BY WalkFinds DEF Focus!Children
    <2>2. PICK root \in Above(l) : ParentOf[root] = NoTask
        BY <1>5
    <2>3. root \in Members
        BY <1>3, <2>2 DEF Above
    <2>4. IsEnd(ts, statuses, l) => ts[l].status # "done"
        BY DEF IsEnd
    <2>5. \A r \in Members : IsWay(ts, r, l) => r \in Above(l)
        BY DEF IsWay
    <2>6. \A r \in Above(l) : ParentOf[r] = NoTask =>
             (IsWay(ts, r, l) <=> \A a \in Above(l) : ParentOf[a] # NoTask => ts[a].status # "done")
        BY <1>6 DEF IsWay
    <2>7. \A a : a \in Above(l) <=> a = l \/ a \in Anc(l)
        BY DEF Above
    <2> HIDE DEF Anc
    <2> QED BY <2>1, <2>2, <2>3, <2>4, <2>5, <2>6, <2>7
<1>8. \A l \in Members : IsEnd(ts, statuses, l) <=> v[l] \in statuses /\ Focus!Shell!UndoneChildren(v, l) = {}
    <2>1. \A l \in Members : Focus!Shell!UndoneChildren(v, l) = Focus!Undone(ts, l)
        BY DEF Focus!Shell!UndoneChildren, Focus!Shell!Children, Focus!Shell!Present, Focus!Shell!Absent,
               Focus!Undone, Focus!Children
    <2> QED BY <2>1 DEF IsEnd
<1>9. \A l : l \in Focus!Shell!Leaves(v, statuses) <=>
         /\ l \in Members /\ IsEnd(ts, statuses, l)
         /\ \A a \in Anc(l) : ts[a].status = "done" => ParentOf[a] = NoTask
    <2>1. \A l \in Members : \A a \in Anc(l) : v[a] = ts[a].status
        BY <1>3
    <2>2. DOMAIN v = Members
        OBVIOUS
    <2> HIDE DEF v
    <2> QED BY <1>8, <2>1, <2>2 DEF Focus!Shell!Leaves
<1>10. Focus!LeafTasks(ts, statuses) \subseteq Members
    BY WalkFinds
<1> QED BY <1>7, <1>9, <1>10

-----------------------------------------------------------------------------
(***************************************************************************)
(* The tasks of a session have the status that follows from their times.   *)
(***************************************************************************)
LEMMA EvaluatedTask ==
    ASSUME Focus!Assumption, NEW t \in Focus!Task, NEW e, e = Focus!St!Evaluated(t)
    PROVE  /\ e \in Focus!Task /\ e = Focus!St!Evaluated(e)
           /\ e.pend = Focus!St!Clamped(t) /\ (e.status = "done" <=> t.orig = "done")
           /\ e.orig = t.orig /\ e.start = t.start /\ e.ddl = t.ddl /\ e.est = t.est /\ e.act = t.act
           /\ e.synced = t.synced /\ e.prio = t.prio
<1> DEFINE u == [t EXCEPT !.pend = Focus!St!Clamped(t)]
           w == [u EXCEPT !.status = Focus!St!DerivedStatus(u)]
<1>0. PendingBuffer \in Int /\ ForceBuffer \in Int /\ NoTime \notin Int
    BY DEF Focus!Assumption
<1>1. Focus!St!Clamped(t) \in Int
    BY <1>0 DEF Focus!Task, Focus!St!Clamped, Focus!St!Lesser, Focus!St!DeadlinePendingLimit
<1>2. /\ u \in Focus!Task /\ u.pend = Focus!St!Clamped(t) /\ u.orig = t.orig /\ u.start = t.start
      /\ u.ddl = t.ddl /\ u.est = t.est /\ u.act = t.act /\ u.synced = t.synced /\ u.prio = t.prio
    BY <1>1 DEF Focus!Task
<1>3. /\ Focus!St!DerivedStatus(u) \in Focus!St!Statuses
      /\ Focus!St!DerivedStatus(u) = "done" <=> u.orig = "done"
    BY <1>2 DEF Focus!St!DerivedStatus, Focus!Task, Focus!St!Statuses
<1>4. /\ w \in Focus!Task /\ w.status = Focus!St!DerivedStatus(u) /\ w.pend = u.pend /\ w.orig = u.orig
      /\ w.start = u.start /\ w.ddl = u.ddl /\ w.est = u.est /\ w.act = u.act
      /\ w.synced = u.synced /\ w.prio = u.prio
    BY <1>2, <1>3 DEF Focus!Task
<1>5. e = w
    BY DEF Focus!St!Evaluated
<1>6. Focus!St!DerivedStatus(w) = Focus!St!DerivedStatus(u)
    BY <1>4 DEF Focus!St!DerivedStatus, Focus!St!DeadlineNear, Focus!St!WaitIsOver
<1>7. Focus!St!Clamped(w) = w.pend
    BY <1>0, <1>2, <1>4 DEF Focus!St!Clamped, Focus!St!Lesser, Focus!St!DeadlinePendingLimit, Focus!Task
<1>8. [w EXCEPT !.pend = w.pend] = w /\ [w EXCEPT !.status = w.status] = w
    BY <1>4 DEF Focus!Task
<1>9. Focus!St!Evaluated(w) = w
    <2> HIDE DEF w
    <2> QED BY <1>4, <1>6, <1>7, <1>8 DEF Focus!St!Evaluated
<1> QED
    BY <1>2, <1>3, <1>4, <1>5, <1>9

\* What is known of the state between the operations.
SelectionInv ==
    /\ now \in Int /\ tasks \in [Members -> Focus!Task] /\ tasks = Focus!Synced(tasks, now)
    /\ sel = [focus |-> sel.focus, mode |-> sel.mode, days |-> sel.days]
    /\ sel.focus \in Members \cup {NoTask} /\ sel.days \in Int

(* Synchronising any tasks with the clock makes them such.                 *)
LEMMA SyncedTasks ==
    ASSUME Focus!Assumption, NEW ts \in [Members -> Focus!Task], NEW n \in Int
    PROVE  LET s == Focus!Synced(ts, n)
           IN  /\ s \in [Members -> Focus!Task] /\ s = Focus!Synced(s, n)
               /\ \A t \in Members : s[t] = Focus!St!Evaluated([ts[t] EXCEPT !.synced = n])
<1> DEFINE s == Focus!Synced(ts, n)
           with(t) == [ts[t] EXCEPT !.synced = n]
<1>1. \A t \in Members : with(t) \in Focus!Task /\ with(t).synced = n
    BY DEF Focus!Task
<1>2. s = [t \in Members |-> Focus!St!Evaluated(with(t))]
    BY DEF Focus!Synced
<1>3. \A t \in Members : /\ s[t] \in Focus!Task /\ s[t].synced = n /\ Focus!St!Evaluated(s[t]) = s[t]
                       /\ s[t] = Focus!St!Evaluated(with(t))
    <2> HIDE DEF with, s
    <2> QED BY <1>1, <1>2, EvaluatedTask
<1>4. \A t \in Members : [s[t] EXCEPT !.synced = n] = s[t]
    <2> HIDE DEF s
    <2> QED BY <1>3 DEF Focus!Task
<1>5. Focus!Synced(s, n) = [t \in Members |-> s[t]]
    <2> HIDE DEF s
    <2> QED BY <1>3, <1>4 DEF Focus!Synced
<1>6. s = [t \in Members |-> s[t]]
    <2> HIDE DEF with
    <2> QED BY <1>2
<1> QED BY <1>3, <1>5, <1>6

-----------------------------------------------------------------------------
(***************************************************************************)
(* The keys that the selections compare                                    *)
(***************************************************************************)
LEMMA TupleKeys ==
    ASSUME NEW a \in Int, NEW b \in Int, NEW c \in Int, NEW d \in Int
    PROVE  <<a, b, c, d>> \in [1..4 -> Int] /\ DOMAIN <<a, b, c, d>> = 1..4
OBVIOUS

LEMMA FourSmaller ==
    ASSUME NEW a1 \in Int, NEW a2 \in Int, NEW a3 \in Int, NEW a4 \in Int,
           NEW b1 \in Int, NEW b2 \in Int, NEW b3 \in Int, NEW b4 \in Int
    PROVE  Focus!Smaller(<<a1, a2, a3, a4>>, <<b1, b2, b3, b4>>) <=>
              \/ a1 < b1
              \/ a1 = b1 /\ a2 < b2
              \/ a1 = b1 /\ a2 = b2 /\ a3 < b3
              \/ a1 = b1 /\ a2 = b2 /\ a3 = b3 /\ a4 < b4
<1> DEFINE a == <<a1, a2, a3, a4>>
           b == <<b1, b2, b3, b4>>
           Here(i) == a[i] < b[i] /\ \A j \in 1..(i - 1) : a[j] = b[j]
<1>1. /\ a[1] = a1 /\ a[2] = a2 /\ a[3] = a3 /\ a[4] = a4
      /\ b[1] = b1 /\ b[2] = b2 /\ b[3] = b3 /\ b[4] = b4
    OBVIOUS
<1>2. DOMAIN a = {1, 2, 3, 4}
    OBVIOUS
<1> HIDE DEF a, b
<1>3. Focus!Smaller(a, b) <=> Here(1) \/ Here(2) \/ Here(3) \/ Here(4)
    BY <1>2 DEF Focus!Smaller
<1>4. Here(1) <=> a1 < b1
    BY <1>1
<1>5. Here(2) <=> a1 = b1 /\ a2 < b2
    <2>1. 1..(2 - 1) = {1}
        OBVIOUS
    <2> QED BY <1>1, <2>1
<1>6. Here(3) <=> a1 = b1 /\ a2 = b2 /\ a3 < b3
    <2>1. 1..(3 - 1) = {1, 2}
        OBVIOUS
    <2> QED BY <1>1, <2>1
<1>7. Here(4) <=> a1 = b1 /\ a2 = b2 /\ a3 = b3 /\ a4 < b4
    <2>1. 1..(4 - 1) = {1, 2, 3}
        OBVIOUS
    <2> QED BY <1>1, <2>1
<1> HIDE DEF Here
<1>8. Focus!Smaller(a, b) <=>
              \/ a1 < b1
              \/ a1 = b1 /\ a2 < b2
              \/ a1 = b1 /\ a2 = b2 /\ a3 < b3
              \/ a1 = b1 /\ a2 = b2 /\ a3 = b3 /\ a4 < b4
    BY <1>3, <1>4, <1>5, <1>6, <1>7
<1> QED BY <1>8 DEF a, b

-----------------------------------------------------------------------------
(***************************************************************************)
(* The selections                                                          *)
(***************************************************************************)
\* Every task with its attributes.
AreTasks(ts) == ts \in [Members -> Focus!Task]

LEMMA KeyParts ==
    ASSUME Focus!Assumption, NEW ts, AreTasks(ts), NEW t \in Members, NEW n \in Int
    PROVE  /\ t \in Int /\ ts[t] \in Focus!Task
           /\ Focus!Undated(ts[t]) \in {0, 1} /\ Focus!Due(ts[t]) \in Int /\ -ts[t].prio \in Int
           /\ ts[t].start \in Int /\ ts[t].pend \in Int
           /\ ts[t].ddl = NoTime => Focus!Undated(ts[t]) = 1 /\ Focus!Due(ts[t]) = 0
           /\ ts[t].ddl # NoTime => Focus!Undated(ts[t]) = 0
           /\ Focus!St!FirstAvailable(ts[t]) \in Int
           /\ Focus!St!FirstAvailable(ts[t]) < n <=>
                 ts[t].start < n /\ (ts[t].orig = "pending" => ts[t].pend < n)
<1>1. t \in Int
    BY DEF Focus!Assumption, Focus!IsForest
<1>2. ts[t] \in Focus!Task
    BY DEF AreTasks
<1>3. /\ ts[t].prio \in Int /\ ts[t].start \in Int /\ ts[t].pend \in Int
      /\ ts[t].ddl \in Int \cup {NoTime}
    BY <1>2 DEF Focus!Task
<1>4. Focus!Due(ts[t]) \in Int
    BY <1>3 DEF Focus!Due
<1>5. /\ Focus!St!FirstAvailable(ts[t]) \in Int
      /\ Focus!St!FirstAvailable(ts[t]) < n <=>
            ts[t].start < n /\ (ts[t].orig = "pending" => ts[t].pend < n)
    BY <1>3 DEF Focus!St!FirstAvailable, Focus!St!Greater
<1> QED BY <1>1, <1>2, <1>3, <1>4, <1>5 DEF Focus!Undated, Focus!Due

(* "highest" and the list of leaves choose a leaf, "lowest" one of those   *)
(* that are before the threshold, if there is one.                         *)
LEMMA Chosen ==
    ASSUME Focus!Assumption, NEW ts, AreTasks(ts), NEW threshold \in Int
    PROVE  /\ IF Focus!LeafTasks(ts, {"todo"}) = {} THEN Focus!Highest(ts) = NoTask
              ELSE Focus!Highest(ts) \in Focus!LeafTasks(ts, {"todo"})
           /\ IF Focus!BeforeThreshold(ts, threshold) = {} THEN Focus!Lowest(ts, threshold) = NoTask
              ELSE Focus!Lowest(ts, threshold) \in Focus!BeforeThreshold(ts, threshold)
<1>0. Focus!IsForest /\ IsFiniteSet(Members)
    BY SetsAre DEF Focus!Assumption, Focus!IsForest
<1>1. /\ Focus!LeafTasks(ts, {"todo"}) \subseteq Members
      /\ Focus!BeforeThreshold(ts, threshold) \subseteq Members
    BY <1>0, WalkFinds DEF Focus!BeforeThreshold
<1>2. ASSUME Focus!LeafTasks(ts, {"todo"}) # {}
      PROVE  Focus!Highest(ts) \in Focus!LeafTasks(ts, {"todo"})
    <2> DEFINE S == Focus!LeafTasks(ts, {"todo"})
               key == [t \in S |-> Focus!HighKey(ts, t)]
    <2>1. IsFiniteSet(S) /\ S # {} /\ S \subseteq Members
        BY <1>0, <1>1, <1>2, FS_Subset
    <2>2. ASSUME NEW t \in S
          PROVE  /\ Focus!HighKey(ts, t) \in [1..4 -> Int] /\ Focus!HighKey(ts, t)[4] = t
                 /\ DOMAIN Focus!HighKey(ts, t) = 1..4
        <3>1. /\ t \in Int /\ Focus!Undated(ts[t]) \in Int /\ Focus!Due(ts[t]) \in Int /\ -ts[t].prio \in Int
            BY <2>1, KeyParts
        <3> QED BY <3>1, TupleKeys DEF Focus!HighKey
    <2> HIDE DEF S
    <2>3. key \in [S -> [1..4 -> Int]]
        BY <2>2
    <2>4. \A t, u \in S : key[t] = key[u] => t = u
        BY <2>2
    <2>5. PICK t \in S : \A u \in S \ {t} : KeyBefore(key[t], key[u], 4)
        <3> HIDE DEF key
        <3> QED BY <2>1, <2>3, <2>4, LeastKey
    <2>6. \A u \in S \ {t} : Focus!Smaller(Focus!HighKey(ts, t), Focus!HighKey(ts, u))
        BY <2>2, <2>5 DEF KeyBefore, Focus!Smaller
    <2>7. \E x \in S : \A u \in S \ {x} : Focus!Smaller(Focus!HighKey(ts, x), Focus!HighKey(ts, u))
        BY <2>6
    <2>8. Focus!Highest(ts) = CHOOSE x \in S :
             \A u \in S \ {x} : Focus!Smaller(Focus!HighKey(ts, x), Focus!HighKey(ts, u))
        BY <2>1 DEF Focus!Highest, S
    <2>9. Focus!Highest(ts) \in S
        BY <2>7, <2>8
    <2> QED BY <2>9 DEF S
<1>3. ASSUME Focus!BeforeThreshold(ts, threshold) # {}
      PROVE  Focus!Lowest(ts, threshold) \in Focus!BeforeThreshold(ts, threshold)
    <2> DEFINE S == Focus!BeforeThreshold(ts, threshold)
               key == [t \in S |-> Focus!LowKey(ts, t, threshold)]
    <2>1. IsFiniteSet(S) /\ S # {} /\ S \subseteq Members
        BY <1>0, <1>1, <1>3, FS_Subset
    <2>2. ASSUME NEW t \in S
          PROVE  /\ Focus!LowKey(ts, t, threshold) \in [1..6 -> Int] /\ Focus!LowKey(ts, t, threshold)[6] = t
                 /\ DOMAIN Focus!LowKey(ts, t, threshold) = 1..6
        <3> DEFINE early == IF Focus!St!FirstAvailable(ts[t]) < threshold THEN 1 ELSE 0
        <3>1. /\ t \in Int /\ Focus!Undated(ts[t]) \in Int /\ Focus!Due(ts[t]) \in Int /\ -ts[t].prio \in Int
              /\ Focus!St!FirstAvailable(ts[t]) \in Int
            BY <2>1, KeyParts
        <3>2. early \in Int
            OBVIOUS
        <3>3. Focus!LowKey(ts, t, threshold) =
                 <<Focus!Undated(ts[t]), early, -ts[t].prio, Focus!Due(ts[t]), Focus!St!FirstAvailable(ts[t]), t>>
            BY DEF Focus!LowKey
        <3>4. Focus!LowKey(ts, t, threshold)[6] = t
            BY <3>3
        <3> DEFINE k1 == Focus!Undated(ts[t])
                   k3 == -ts[t].prio
                   k4 == Focus!Due(ts[t])
                   k5 == Focus!St!FirstAvailable(ts[t])
        <3>5. k1 \in Int /\ early \in Int /\ k3 \in Int /\ k4 \in Int /\ k5 \in Int /\ t \in Int
            BY <3>1, <3>2
        <3> HIDE DEF early, k1, k3, k4, k5
        <3>6. <<k1, early, k3, k4, k5, t>> \in [1..6 -> Int] /\ DOMAIN <<k1, early, k3, k4, k5, t>> = 1..6
            BY <3>5
        <3> QED BY <3>3, <3>4, <3>6 DEF k1, k3, k4, k5
    <2> HIDE DEF S
    <2>3. key \in [S -> [1..6 -> Int]]
        BY <2>2
    <2>4. \A t, u \in S : key[t] = key[u] => t = u
        BY <2>2
    <2>5. PICK t \in S : \A u \in S \ {t} : KeyBefore(key[u], key[t], 6)
        <3> HIDE DEF key
        <3> QED BY <2>1, <2>3, <2>4, GreatestKey
    <2>6. \A u \in S \ {t} : Focus!Smaller(Focus!LowKey(ts, u, threshold), Focus!LowKey(ts, t, threshold))
        BY <2>2, <2>5 DEF KeyBefore, Focus!Smaller
    <2>7. \E x \in S : \A u \in S \ {x} : Focus!Smaller(Focus!LowKey(ts, u, threshold), Focus!LowKey(ts, x, threshold))
        BY <2>6
    <2>8. Focus!Lowest(ts, threshold) = CHOOSE x \in S :
             \A u \in S \ {x} : Focus!Smaller(Focus!LowKey(ts, u, threshold), Focus!LowKey(ts, x, threshold))
        BY <2>1 DEF Focus!Lowest, S
    <2>9. Focus!Lowest(ts, threshold) \in S
        BY <2>7, <2>8
    <2> QED BY <2>9 DEF S
<1>4. Focus!LeafTasks(ts, {"todo"}) = {} => Focus!Highest(ts) = NoTask
    BY DEF Focus!Highest
<1>5. Focus!BeforeThreshold(ts, threshold) = {} => Focus!Lowest(ts, threshold) = NoTask
    BY DEF Focus!Lowest
<1> QED BY <1>2, <1>3, <1>4, <1>5

(* Where all that is due has one priority, both orders agree on any two.   *)
LEMMA ListEnds ==
    ASSUME Focus!Assumption, NEW ts, AreTasks(ts),
           \A t, u \in Focus!LeafTasks(ts, {"todo"}) :
               ts[t].ddl # NoTime /\ ts[u].ddl # NoTime => ts[t].prio = ts[u].prio
    PROVE  Focus!LastRow(ts) = Focus!Highest(ts)
<1> DEFINE S == Focus!LeafTasks(ts, {"todo"})
           High(t, u) == Focus!Smaller(Focus!HighKey(ts, t), Focus!HighKey(ts, u))
           Row(t, u) == Focus!Smaller(Focus!RowKey(ts, t), Focus!RowKey(ts, u))
<1>1. S \subseteq Members
    BY WalkFinds DEF Focus!Assumption
<1>2. ASSUME NEW t \in S, NEW u \in S PROVE High(t, u) <=> Row(t, u)
    <2> DEFINE kt == Focus!Undated(ts[t])
               ku == Focus!Undated(ts[u])
               dt == Focus!Due(ts[t])
               du == Focus!Due(ts[u])
               pt == -ts[t].prio
               pu == -ts[u].prio
    <2>1. /\ t \in Int /\ kt \in {0, 1} /\ dt \in Int /\ pt \in Int
          /\ u \in Int /\ ku \in {0, 1} /\ du \in Int /\ pu \in Int
          /\ kt = 1 => dt = 0
          /\ ku = 1 => du = 0
        BY <1>1, KeyParts
    <2>2. kt = 0 /\ ku = 0 => pt = pu
        BY DEF Focus!Undated
    <2> HIDE DEF kt, ku, dt, du, pt, pu
    <2>3. High(t, u) <=> Focus!Smaller(<<kt, dt, pt, t>>, <<ku, du, pu, u>>)
        BY DEF Focus!HighKey, kt, ku, dt, du, pt, pu
    <2>4. Row(t, u) <=> Focus!Smaller(<<kt, pt, dt, t>>, <<ku, pu, du, u>>)
        BY DEF Focus!RowKey, kt, ku, dt, du, pt, pu
    <2>5. kt \in Int /\ ku \in Int
        BY <2>1
    <2>6. High(t, u) <=> \/ kt < ku
                         \/ kt = ku /\ dt < du
                         \/ kt = ku /\ dt = du /\ pt < pu
                         \/ kt = ku /\ dt = du /\ pt = pu /\ t < u
        BY <2>1, <2>3, <2>5, FourSmaller
    <2>7. Row(t, u) <=> \/ kt < ku
                        \/ kt = ku /\ pt < pu
                        \/ kt = ku /\ pt = pu /\ dt < du
                        \/ kt = ku /\ pt = pu /\ dt = du /\ t < u
        BY <2>1, <2>4, <2>5, FourSmaller
    <2> HIDE DEF High, Row
    <2> QED BY <2>1, <2>2, <2>6, <2>7
<1> HIDE DEF High, Row, S
<1>3. \A t \in S : (\A u \in S \ {t} : High(t, u)) <=> (\A u \in S \ {t} : Row(t, u))
    BY <1>2
<1>4. (CHOOSE t \in S : \A u \in S \ {t} : High(t, u)) = CHOOSE t \in S : \A u \in S \ {t} : Row(t, u)
    BY <1>3
<1>5. Focus!Highest(ts) = IF S = {} THEN NoTask ELSE CHOOSE t \in S : \A u \in S \ {t} : High(t, u)
    BY DEF Focus!Highest, High, S
<1>6. Focus!LastRow(ts) = IF S = {} THEN NoTask ELSE CHOOSE t \in S : \A u \in S \ {t} : Row(t, u)
    BY DEF Focus!LastRow, Row, S
<1> QED BY <1>4, <1>5, <1>6

-----------------------------------------------------------------------------
(***************************************************************************)
(* The session                                                             *)
(***************************************************************************)
LEMMA ThresholdIsTime ==
    ASSUME Focus!Assumption, NEW n \in Int, NEW d \in Int
    PROVE  Focus!Threshold(n, d) \in Int
<1>1. Morning \in Int /\ DayLength \in Int /\ DayLength > 0
    BY DEF Focus!Assumption
<1>2. (n - Morning) \div DayLength \in Int
    BY <1>1
<1> DEFINE q == (n - Morning) \div DayLength + 1 + d
<1>3. q \in Int
    BY <1>2
<1> HIDE DEF q
<1>4. q * DayLength \in Int
    BY <1>1, <1>3
<1> QED BY <1>1, <1>4 DEF Focus!Threshold, q

LEMMA StatusesAre ==
    ASSUME NEW ts, AreTasks(ts)
    PROVE  \A t \in Members : ts[t].status \in {"todo", "pending", "done"} /\ ts[t].status # "absent"
BY DEF AreTasks, Focus!Task, Focus!St!Statuses

(* What is true of any state with tasks in it is true of those of a        *)
(* session.                                                                *)
LEMMA SelectionSoundThen ==
    ASSUME Focus!Assumption, SelectionInv
    PROVE  Focus!SelectionIsSound
<1>0. Focus!IsForest /\ AreTasks(tasks) /\ now \in Int
    BY DEF Focus!Assumption, SelectionInv, AreTasks
<1>1. ASSUME NEW S \in {{"todo"}, {"todo", "pending"}}
      PROVE  Focus!LeafTasks(tasks, S) = Focus!Shell!Leaves(Focus!View, S)
    <2>1. "done" \notin S
        OBVIOUS
    <2>2. \A t \in Members : tasks[t].status # "absent"
        BY <1>0, StatusesAre
    <2> QED BY <1>0, <2>1, <2>2, LeavesAreFound DEF Focus!View
<1>2. Days \subseteq Int
    BY DEF Focus!Assumption
<1>3. ASSUME NEW d \in Days
      PROVE  /\ Focus!Selected(tasks, "highest", d, now) \in Focus!Shell!Candidates(Focus!View, "highest")
             /\ Focus!Selected(tasks, "lowest", d, now) \in Focus!Shell!Candidates(Focus!View, "lowest")
    <2>1. Focus!Threshold(now, d) \in Int
        BY <1>0, <1>2, ThresholdIsTime
    <2>2. Focus!Selected(tasks, "highest", d, now) \in Focus!Shell!Candidates(Focus!View, "highest")
        BY <1>0, <1>1, <2>1, Chosen DEF Focus!Selected, Focus!Shell!Candidates
    <2>3. Focus!BeforeThreshold(tasks, Focus!Threshold(now, d)) \subseteq Focus!Shell!Leaves(Focus!View, {"todo", "pending"})
        BY <1>1 DEF Focus!BeforeThreshold
    <2>4. Focus!Selected(tasks, "lowest", d, now) \in Focus!Shell!Candidates(Focus!View, "lowest")
        BY <1>0, <2>1, <2>3, Chosen DEF Focus!Selected, Focus!Shell!Candidates, Focus!Shell!Open
    <2> QED BY <2>2, <2>4
<1>4. Focus!ChoosesCandidate
    BY <1>1, <1>3 DEF Focus!ChoosesCandidate
<1>5. Focus!OfferIsAtHand
    <2> SUFFICES ASSUME NEW d \in Days, Focus!Selected(tasks, "lowest", d, now) # NoTask
                 PROVE  LET t == Focus!Selected(tasks, "lowest", d, now)
                        IN  /\ Focus!St!FirstAvailable(tasks[t]) < Focus!Threshold(now, d)
                            /\ t \in Focus!TreeRows(tasks, t)
        BY DEF Focus!OfferIsAtHand
    <2> DEFINE t == Focus!Selected(tasks, "lowest", d, now)
               h == Focus!Threshold(now, d)
    <2>1. h \in Int
        BY <1>0, <1>2, ThresholdIsTime
    <2>2. t \in Focus!BeforeThreshold(tasks, h)
        BY <1>0, <2>1, Chosen DEF Focus!Selected
    <2>3. t \in Focus!LeafTasks(tasks, {"todo", "pending"})
        BY <2>2 DEF Focus!BeforeThreshold
    <2>4. t \in Members /\ tasks[t].status \in {"todo", "pending"}
        BY <1>0, <2>3, WalkFinds DEF IsEnd
    <2> HIDE DEF t, h
    <2>5. Focus!St!FirstAvailable(tasks[t]) < h
        BY <1>0, <2>1, <2>2, <2>4, KeyParts DEF Focus!BeforeThreshold
    <2>6. t \in Focus!TreeRows(tasks, t)
        BY <2>4 DEF Focus!TreeRows
    <2> QED BY <2>5, <2>6 DEF t, h
<1>6. Focus!ListEndsInFocus
    BY <1>0, ListEnds DEF Focus!ListEndsInFocus
<1> QED BY <1>4, <1>5, <1>6 DEF Focus!SelectionIsSound

(* What the operations do to the tasks: all are synchronised afterwards.   *)
LEMMA OutcomeKeeps ==
    ASSUME Focus!Assumption, NEW ts, AreTasks(ts), NEW s, NEW n \in Int, Focus!Outcome(ts, s, n),
           s = [focus |-> s.focus, mode |-> s.mode, days |-> s.days],
           s.focus \in Members \cup {NoTask}, s.days \in Int
    PROVE  SelectionInv'
<1>1. now' = n /\ tasks' = Focus!Synced(ts, n) /\ sel' = Focus!Reconciled(tasks', s, n)
    BY DEF Focus!Outcome
<1>2. /\ tasks' \in [Members -> Focus!Task]
      /\ tasks' = Focus!Synced(tasks', n)
    BY <1>1, SyncedTasks DEF AreTasks
<1> DEFINE mode == IF s.mode = "explicit" THEN "highest" ELSE s.mode
           chosen == Focus!Selected(tasks', mode, s.days, n)
<1>3. chosen \in Members \cup {NoTask}
    <2>1. AreTasks(tasks') /\ Focus!IsForest
        BY <1>2 DEF AreTasks, Focus!Assumption
    <2>2. Focus!Threshold(n, s.days) \in Int
        BY ThresholdIsTime
    <2>3. /\ Focus!LeafTasks(tasks', {"todo"}) \subseteq Members
          /\ Focus!BeforeThreshold(tasks', Focus!Threshold(n, s.days)) \subseteq Members
        BY <2>1, WalkFinds DEF Focus!BeforeThreshold
    <2>4. /\ Focus!Highest(tasks') \in Members \cup {NoTask}
          /\ Focus!Lowest(tasks', Focus!Threshold(n, s.days)) \in Members \cup {NoTask}
        BY <2>1, <2>2, <2>3, Chosen
    <2> QED BY <2>4 DEF Focus!Selected
<1>4. sel' = s \/ sel' = [s EXCEPT !.focus = chosen, !.mode = mode]
    BY <1>1 DEF Focus!Reconciled
<1>5. /\ sel' = [focus |-> sel'.focus, mode |-> sel'.mode, days |-> sel'.days]
      /\ sel'.focus \in Members \cup {NoTask} /\ sel'.days \in Int
    <2> HIDE DEF chosen, mode
    <2>1. CASE sel' = s
        BY <2>1
    <2>2. CASE sel' = [s EXCEPT !.focus = chosen, !.mode = mode]
        <3>1. sel' = [focus |-> chosen, mode |-> mode, days |-> s.days]
            BY <2>2
        <3> QED BY <1>3, <3>1
    <2> QED BY <1>4, <2>1, <2>2
<1> QED BY <1>1, <1>2, <1>5 DEF SelectionInv

\* Putting off and finishing keep them tasks.
LEMMA ChangesKeepTasks ==
    ASSUME Focus!Assumption, NEW ts, AreTasks(ts), NEW f \in Members, NEW until \in Int
    PROVE  /\ AreTasks(Focus!PutOff(ts, f, until))
           /\ AreTasks([ts EXCEPT ![f] = Focus!St!Evaluated([@ EXCEPT !.orig = "done"])])
<1>1. ts[f] \in Focus!Task
    BY DEF AreTasks
<1>2. [ts[f] EXCEPT !.orig = "done"] \in Focus!Task /\ [ts[f] EXCEPT !.pend = until] \in Focus!Task
    BY <1>1 DEF Focus!Task, Focus!St!Statuses
<1> DEFINE w == Focus!St!Evaluated([ts[f] EXCEPT !.pend = until])
<1>3. Focus!St!Evaluated([ts[f] EXCEPT !.orig = "done"]) \in Focus!Task /\ w \in Focus!Task
    BY <1>2, EvaluatedTask
<1> HIDE DEF w
<1>4. [w EXCEPT !.orig = "pending"] \in Focus!Task
    BY <1>3 DEF Focus!Task, Focus!St!Statuses
<1>5. Focus!St!Evaluated([w EXCEPT !.orig = "pending"]) \in Focus!Task
    BY <1>4, EvaluatedTask
<1>6. Focus!PutOff(ts, f, until) = [ts EXCEPT ![f] = Focus!St!Evaluated([w EXCEPT !.orig = "pending"])]
    BY DEF Focus!PutOff, w, AreTasks
<1> QED BY <1>3, <1>5, <1>6 DEF AreTasks

\* Between the operations all tasks are synchronised, and the focus is a task
\* or there is none.
LEMMA SelectionInvHolds ==
    ASSUME Focus!Assumption
    PROVE  /\ Focus!Init => SelectionInv
           /\ SelectionInv /\ [Focus!Next]_(Focus!selectionVars) => SelectionInv'
<1>0. Focus!IsForest /\ Clock \subseteq Int /\ Waits \subseteq Int /\ Days \subseteq Int
    BY DEF Focus!Assumption
<1>1. ASSUME Focus!Init PROVE SelectionInv
    <2>1. PICK f \in FocusForests : tasks = Focus!Synced(f, now)
        BY <1>1 DEF Focus!Init
    <2>2. now \in Int /\ f \in [Members -> Focus!Task]
        BY <1>0, <1>1 DEF Focus!Init, Focus!Assumption
    <2>3. tasks \in [Members -> Focus!Task] /\ tasks = Focus!Synced(tasks, now)
        BY <2>1, <2>2, SyncedTasks
    <2>4. sel = [focus |-> Focus!Highest(tasks), mode |-> "highest", days |-> 0]
        BY <1>1 DEF Focus!Init, Focus!Selection
    <2>5. Focus!Highest(tasks) \in Members \cup {NoTask}
        <3>1. AreTasks(tasks)
            BY <2>3 DEF AreTasks
        <3>2. Focus!LeafTasks(tasks, {"todo"}) \subseteq Members
            BY <1>0, WalkFinds
        <3> QED BY <2>2, <3>1, <3>2, Chosen
    <2> QED BY <2>2, <2>3, <2>4, <2>5 DEF SelectionInv
<1>2. ASSUME SelectionInv, [Focus!Next]_(Focus!selectionVars) PROVE SelectionInv'
    <2>0. /\ AreTasks(tasks) /\ now \in Int
          /\ sel = [focus |-> sel.focus, mode |-> sel.mode, days |-> sel.days]
          /\ sel.focus \in Members \cup {NoTask} /\ sel.days \in Int
        BY <1>2 DEF SelectionInv, AreTasks
    <2>1. CASE Focus!Refresh
        BY <1>0, <2>0, <2>1, OutcomeKeeps DEF Focus!Refresh
    <2>2. CASE Focus!ChangeMode
        <3>1. PICK mode \in {"highest", "lowest"}, d \in Int : Focus!Outcome(tasks, Focus!Selection(NoTask, mode, d), now)
            <4>1. 0 \in Int
                OBVIOUS
            <4> HIDE DEF Focus!Selection
            <4>2. \/ Focus!Outcome(tasks, Focus!Selection(NoTask, "highest", 0), now)
                  \/ \E d \in Int : Focus!Outcome(tasks, Focus!Selection(NoTask, "lowest", d), now)
                BY <1>0, <2>2 DEF Focus!ChangeMode
            <4> QED BY <4>1, <4>2, Zenon
        <3> DEFINE s == [focus |-> NoTask, mode |-> mode, days |-> d]
        <3>2. s.focus = NoTask /\ s.mode = mode /\ s.days = d
            OBVIOUS
        <3>3. Focus!Outcome(tasks, s, now)
            BY <3>1 DEF Focus!Selection
        <3> HIDE DEF s
        <3>4. s = [focus |-> s.focus, mode |-> s.mode, days |-> s.days]
            BY <3>2 DEF s
        <3> QED BY <2>0, <3>2, <3>3, <3>4, OutcomeKeeps
    <2>3. CASE Focus!FocusOn
        <3>1. PICK t \in Members : Focus!Outcome(tasks, Focus!Selection(t, "explicit", 0), now)
            BY <2>3 DEF Focus!FocusOn
        <3> DEFINE s == [focus |-> t, mode |-> "explicit", days |-> 0]
        <3>2. s.focus = t /\ s.mode = "explicit" /\ s.days = 0
            OBVIOUS
        <3>3. Focus!Outcome(tasks, s, now)
            BY <3>1 DEF Focus!Selection
        <3> HIDE DEF s
        <3>4. s = [focus |-> s.focus, mode |-> s.mode, days |-> s.days]
            BY <3>2 DEF s
        <3> QED BY <2>0, <3>2, <3>3, <3>4, OutcomeKeeps
    <2>4. ASSUME NEW g \in Members \cup {NoTask}
          PROVE  LET s == [sel EXCEPT !.focus = g]
                 IN  /\ s = [focus |-> s.focus, mode |-> s.mode, days |-> s.days]
                     /\ s.focus \in Members \cup {NoTask} /\ s.days \in Int
        <3>1. [sel EXCEPT !.focus = g] = [focus |-> g, mode |-> sel.mode, days |-> sel.days]
            BY <2>0
        <3> QED BY <2>0, <3>1
    <2>5. CASE Focus!Finish
        <3> DEFINE f == sel.focus
                   up == ParentOf[f]
                   done == [tasks EXCEPT ![f] = Focus!St!Evaluated([@ EXCEPT !.orig = "done"])]
                   g == IF up # NoTask /\ Focus!Undone(done, up) = {} THEN up ELSE NoTask
                   s == [sel EXCEPT !.focus = g]
        <3>1. f \in Members /\ Focus!Outcome(done, s, now)
            BY <2>0, <2>5 DEF Focus!Finish, Focus!Given_Up
        <3>2. AreTasks(done)
            BY <2>0, <3>1, ChangesKeepTasks
        <3>3. g \in Members \cup {NoTask}
            BY <1>0, <3>1 DEF Focus!IsForest
        <3> HIDE DEF done, g
        <3>4. s = [focus |-> s.focus, mode |-> s.mode, days |-> s.days] /\ s.focus \in Members \cup {NoTask} /\ s.days \in Int
            BY <2>4, <3>3
        <3> HIDE DEF s
        <3> QED BY <2>0, <3>1, <3>2, <3>4, OutcomeKeeps
    <2>6. CASE \E until \in Waits : Focus!Defer(until)
        <3>1. PICK until \in Waits : Focus!Defer(until)
            BY <2>6
        <3> DEFINE s == [sel EXCEPT !.focus = NoTask]
                   ts == Focus!PutOff(tasks, sel.focus, until)
        <3>2. sel.focus \in Members /\ until \in Int /\ Focus!Outcome(ts, s, now)
            BY <1>0, <2>0, <3>1 DEF Focus!Defer, Focus!Given_Up
        <3>3. AreTasks(ts)
            BY <2>0, <3>2, ChangesKeepTasks
        <3>4. s = [focus |-> s.focus, mode |-> s.mode, days |-> s.days] /\ s.focus \in Members \cup {NoTask} /\ s.days \in Int
            BY <2>4
        <3> HIDE DEF s, ts
        <3> QED BY <2>0, <3>2, <3>3, <3>4, OutcomeKeeps
    <2>7. CASE UNCHANGED Focus!selectionVars
        BY <1>2, <2>7 DEF SelectionInv, Focus!selectionVars
    <2> QED BY <1>2, <2>1, <2>2, <2>3, <2>5, <2>6, <2>7 DEF Focus!Next
<1> QED BY <1>1, <1>2

\* A task put off beyond the threshold waits beyond it, if its deadline lets it;
\* no other task changes.
LEMMA PutOffWaits ==
    ASSUME Focus!Assumption, SelectionInv, NEW f \in Members, NEW until \in Int, NEW threshold \in Int,
           until >= threshold, Focus!MayWait(f, threshold)
    PROVE  LET ts == Focus!Synced(Focus!PutOff(tasks, f, until), now)
           IN  /\ AreTasks(ts)
               /\ \A t \in Members \ {f} : ts[t] = tasks[t]
               /\ ts[f].orig = "pending" /\ ts[f].status # "done" /\ ts[f].pend >= threshold
<1>0. /\ AreTasks(tasks) /\ now \in Int /\ tasks = Focus!Synced(tasks, now)
      /\ NoTime \notin Int /\ PendingBuffer \in Int
    BY DEF SelectionInv, AreTasks, Focus!Assumption
<1> DEFINE p == Focus!PutOff(tasks, f, until)
           ts == Focus!Synced(p, now)
           w == [tasks[f] EXCEPT !.pend = until]
           x == Focus!St!Evaluated(w)
           y == [x EXCEPT !.orig = "pending"]
           z == Focus!St!Evaluated(y)
           v == [z EXCEPT !.synced = now]
           limit == Focus!St!DeadlinePendingLimit(tasks[f].ddl, tasks[f].est)
<1>1. AreTasks(p)
    BY <1>0, ChangesKeepTasks
<1>2. \A t \in Members : ts[t] = Focus!St!Evaluated([p[t] EXCEPT !.synced = now])
    BY DEF Focus!Synced
<1>3. AreTasks(ts)
    BY <1>0, <1>1, SyncedTasks DEF AreTasks
<1>4. p[f] = z /\ \A t \in Members \ {f} : p[t] = tasks[t]
    BY <1>0 DEF Focus!PutOff, AreTasks
<1>5. \A t \in Members : tasks[t] = Focus!St!Evaluated([tasks[t] EXCEPT !.synced = now])
    BY <1>0 DEF Focus!Synced
<1>6. \A t \in Members \ {f} : ts[t] = tasks[t]
    <2> HIDE DEF p, ts, z
    <2> QED BY <1>2, <1>4, <1>5
<1>7. tasks[f] \in Focus!Task
    BY <1>0 DEF AreTasks
<1>8. /\ w \in Focus!Task /\ w.pend = until /\ w.ddl = tasks[f].ddl /\ w.est = tasks[f].est
      /\ tasks[f].ddl \in Int \cup {NoTime} /\ tasks[f].est \in Int
    BY <1>7 DEF Focus!Task
<1>9. tasks[f].ddl # NoTime => limit \in Int /\ limit >= threshold
    BY <1>0, <1>8 DEF Focus!MayWait, Focus!St!DeadlinePendingLimit
<1> HIDE DEF w
<1>10. x \in Focus!Task /\ x.pend = Focus!St!Clamped(w) /\ x.ddl = w.ddl /\ x.est = w.est
    BY <1>8, EvaluatedTask
<1>11. ASSUME NEW t, t.pend \in Int, t.pend >= threshold, t.ddl = tasks[f].ddl, t.est = tasks[f].est
       PROVE  Focus!St!Clamped(t) \in Int /\ Focus!St!Clamped(t) >= threshold
    <2>1. tasks[f].ddl # NoTime => Focus!St!DeadlinePendingLimit(t.ddl, t.est) = limit
        BY <1>11
    <2> HIDE DEF limit
    <2> QED BY <1>9, <1>11, <2>1 DEF Focus!St!Clamped, Focus!St!Lesser
<1>12. x.pend \in Int /\ x.pend >= threshold
    BY <1>8, <1>10, <1>11
<1> HIDE DEF x
<1>13. /\ y \in Focus!Task /\ y.pend = x.pend /\ y.ddl = x.ddl /\ y.est = x.est /\ y.orig = "pending"
    BY <1>10 DEF Focus!Task, Focus!St!Statuses
<1> HIDE DEF y
<1>14. /\ z \in Focus!Task /\ z.pend = Focus!St!Clamped(y) /\ z.ddl = y.ddl /\ z.est = y.est /\ z.orig = "pending"
    BY <1>13, EvaluatedTask
<1>15. z.pend \in Int /\ z.pend >= threshold
    BY <1>8, <1>10, <1>11, <1>12, <1>13, <1>14
<1> HIDE DEF z
<1>16. /\ v \in Focus!Task /\ v.pend = z.pend /\ v.ddl = z.ddl /\ v.est = z.est /\ v.orig = "pending"
    BY <1>0, <1>14 DEF Focus!Task
<1> HIDE DEF v
<1> DEFINE e == Focus!St!Evaluated(v)
<1>17. /\ e.pend = Focus!St!Clamped(v) /\ e.orig = "pending" /\ e.status # "done"
    BY <1>16, EvaluatedTask
<1>18. e.pend \in Int /\ e.pend >= threshold
    BY <1>8, <1>10, <1>11, <1>13, <1>14, <1>15, <1>16, <1>17
<1>19. ts[f] = e
    <2> HIDE DEF p, ts
    <2> QED BY <1>2, <1>4 DEF v
<1> QED
    <2> HIDE DEF e, p, ts
    <2>1. /\ AreTasks(ts) /\ \A t \in Members \ {f} : ts[t] = tasks[t]
          /\ ts[f].orig = "pending" /\ ts[f].status # "done" /\ ts[f].pend >= threshold
        BY <1>3, <1>6, <1>17, <1>18, <1>19
    <2> QED BY <2>1 DEF ts, p

\* Which leaves are open does not depend on whether they wait.
LEMMA LeavesDependOnDone ==
    ASSUME Focus!IsForest, NEW ts, NEW us, AreTasks(ts), AreTasks(us),
           \A t \in Members : ts[t].status = "done" <=> us[t].status = "done"
    PROVE  Focus!LeafTasks(ts, {"todo", "pending"}) = Focus!LeafTasks(us, {"todo", "pending"})
<1> DEFINE S == {"todo", "pending"}
<1>1. \A t \in Members : ts[t].status \in S <=> us[t].status \in S
    BY StatusesAre
<1>2. \A t : Focus!Undone(ts, t) = Focus!Undone(us, t)
    BY DEF Focus!Undone, Focus!Children
<1> HIDE DEF S
<1>3. \A l : IsEnd(ts, S, l) <=> IsEnd(us, S, l)
    BY <1>1, <1>2 DEF IsEnd
<1>4. \A l \in Members : Above(l) \subseteq Members
    BY AncestorsAre DEF Above
<1>5. \A l \in Members : \A r : IsWay(ts, r, l) <=> IsWay(us, r, l)
    BY <1>4 DEF IsWay
<1>6. Focus!LeafTasks(ts, S) = UNION {{l \in Members : IsEnd(ts, S, l) /\ IsWay(ts, r, l)} : r \in Focus!Children(NoTask)}
    BY WalkFinds
<1>7. Focus!LeafTasks(us, S) = UNION {{l \in Members : IsEnd(us, S, l) /\ IsWay(us, r, l)} : r \in Focus!Children(NoTask)}
    BY WalkFinds
<1>8. \A r : {l \in Members : IsEnd(ts, S, l) /\ IsWay(ts, r, l)} = {l \in Members : IsEnd(us, S, l) /\ IsWay(us, r, l)}
    BY <1>3, <1>5
<1>9. Focus!LeafTasks(ts, S) = Focus!LeafTasks(us, S)
    BY <1>6, <1>7, <1>8
<1> QED BY <1>9 DEF S

\* Putting the focus off beyond the threshold takes it, and no other task, from
\* those to be put forward; the next is one of the rest.
LEMMA DeferSifts ==
    ASSUME Focus!Assumption, SelectionInv
    PROVE  Focus!SiftGoesOn
<1> DEFINE h == Focus!Threshold(now, sel.days)
           f == sel.focus
<1> SUFFICES ASSUME NEW until \in Waits, Focus!Defer(until), sel.mode = "lowest", until >= h,
                    tasks[f].status # "done", Focus!MayWait(f, h)
             PROVE  /\ sel'.mode = "lowest"
                    /\ Focus!BeforeThreshold(tasks', h) = Focus!BeforeThreshold(tasks, h) \ {f}
                    /\ sel'.focus \in (Focus!BeforeThreshold(tasks, h) \ {f}) \cup {NoTask}
                    /\ sel'.focus = NoTask => Focus!BeforeThreshold(tasks', h) = {}
    BY DEF Focus!SiftGoesOn
<1>0. /\ Focus!IsForest /\ AreTasks(tasks) /\ now \in Int /\ sel.days \in Int /\ until \in Int
      /\ sel = [focus |-> sel.focus, mode |-> sel.mode, days |-> sel.days]
      /\ f \in Members \cup {NoTask} /\ NoTask \notin Members
    BY DEF Focus!Assumption, SelectionInv, AreTasks, Focus!IsForest
<1>1. h \in Int
    BY <1>0, ThresholdIsTime
<1>2. /\ f \in Members /\ tasks' = Focus!Synced(Focus!PutOff(tasks, f, until), now)
      /\ sel' = Focus!Reconciled(tasks', [sel EXCEPT !.focus = NoTask], now)
    BY <1>0 DEF Focus!Defer, Focus!Outcome, Focus!Given_Up
<1> HIDE DEF h
<1>3. /\ AreTasks(tasks') /\ \A t \in Members \ {f} : tasks'[t] = tasks[t]
      /\ tasks'[f].orig = "pending" /\ tasks'[f].status # "done" /\ tasks'[f].pend >= h
    BY <1>0, <1>1, <1>2, PutOffWaits
<1>4. Focus!LeafTasks(tasks', {"todo", "pending"}) = Focus!LeafTasks(tasks, {"todo", "pending"})
    <2>1. \A t \in Members : tasks'[t].status = "done" <=> tasks[t].status = "done"
        BY <1>3
    <2> QED BY <1>0, <1>3, <2>1, LeavesDependOnDone
<1>5. Focus!BeforeThreshold(tasks', h) = Focus!BeforeThreshold(tasks, h) \ {f}
    <2>1. Focus!LeafTasks(tasks, {"todo", "pending"}) \subseteq Members
        BY <1>0, WalkFinds
    <2>2. ~ (tasks'[f].pend < h)
        <3>1. tasks'[f].pend \in Int
            BY <1>2, <1>3 DEF AreTasks, Focus!Task
        <3> QED BY <1>1, <1>3, <3>1
    <2>3. f \notin Focus!BeforeThreshold(tasks', h)
        BY <1>3, <2>2 DEF Focus!BeforeThreshold
    <2> HIDE DEF f
    <2>4. \A t \in Members \ {f} : t \in Focus!BeforeThreshold(tasks', h) <=> t \in Focus!BeforeThreshold(tasks, h)
        BY <1>3, <1>4 DEF Focus!BeforeThreshold
    <2>5. Focus!BeforeThreshold(tasks', h) \subseteq Members /\ Focus!BeforeThreshold(tasks, h) \subseteq Members
        BY <1>4, <2>1 DEF Focus!BeforeThreshold
    <2> QED BY <2>3, <2>4, <2>5
<1> DEFINE s == [sel EXCEPT !.focus = NoTask]
<1>6. s = [focus |-> NoTask, mode |-> "lowest", days |-> sel.days]
    BY <1>0
<1>7. sel' = [focus |-> Focus!Lowest(tasks', h), mode |-> "lowest", days |-> sel.days]
    <2>1. s.focus = NoTask /\ s.mode = "lowest" /\ s.days = sel.days
        BY <1>6
    <2>2. Focus!Selected(tasks', "lowest", sel.days, now) = Focus!Lowest(tasks', h)
        BY DEF Focus!Selected, h
    <2> DEFINE new == Focus!Lowest(tasks', h)
    <2>3. sel' = [s EXCEPT !.focus = new, !.mode = "lowest"]
        <3> HIDE DEF s, f
        <3>1. Focus!Reselects(tasks', s)
            BY <2>1 DEF Focus!Reselects
        <3>2. sel' = Focus!Reconciled(tasks', s, now)
            BY <1>2 DEF s
        <3> QED BY <2>1, <2>2, <3>1, <3>2 DEF Focus!Reconciled
    <2> HIDE DEF s, new
    <2>4. sel' = [focus |-> new, mode |-> "lowest", days |-> sel.days]
        BY <1>6, <2>3
    <2> QED BY <2>4 DEF new
<1>8. sel'.focus = Focus!Lowest(tasks', h) /\ sel'.mode = "lowest"
    BY <1>7
<1>9. IF Focus!BeforeThreshold(tasks', h) = {} THEN sel'.focus = NoTask
      ELSE sel'.focus \in Focus!BeforeThreshold(tasks', h)
    BY <1>1, <1>3, <1>8, Chosen
<1>10. NoTask \notin Focus!BeforeThreshold(tasks', h)
    BY <1>0, <1>3, WalkFinds DEF Focus!BeforeThreshold
<1> QED BY <1>5, <1>8, <1>9, <1>10

-----------------------------------------------------------------------------
(***************************************************************************)
(* The record of a task, whose status is derived (TaskStatus)              *)
(***************************************************************************)
USE RecordAssumption

Derived(t) == t.pend = Record!Clamped(t) /\ t.status = Record!DerivedStatus(t)

StatusInv == Record!StatusTypeOK /\ (fresh => Derived(record))

-----------------------------------------------------------------------------
(***************************************************************************)
(* Deriving the status                                                     *)
(***************************************************************************)
\* Deriving the status of a task touches its pending time and its status,
\* and deriving it twice is deriving it once.
LEMMA EvaluatedIsDerived ==
    ASSUME NEW t \in Record!Task
    PROVE  /\ Record!Evaluated(t) \in Record!Task
           /\ Derived(Record!Evaluated(t))
           /\ Record!Evaluated(t).status = "done" <=> t.orig = "done"
           /\ Record!Evaluated(t).orig = t.orig
           /\ Record!Evaluated(t).start = t.start
           /\ Record!Evaluated(t).ddl = t.ddl
           /\ Record!Evaluated(t).est = t.est
           /\ Record!Evaluated(t).act = t.act
           /\ Record!Evaluated(t).synced = t.synced
<1> DEFINE u == [t EXCEPT !.pend = Record!Clamped(t)]
           v == [u EXCEPT !.status = Record!DerivedStatus(u)]
<1>1. Record!Clamped(t) \in Int
  BY DEF Record!Task, Record!Clamped, Record!Lesser, Record!DeadlinePendingLimit
<1>2. /\ u \in Record!Task /\ u.pend = Record!Clamped(t) /\ u.orig = t.orig /\ u.start = t.start
      /\ u.ddl = t.ddl /\ u.est = t.est /\ u.act = t.act /\ u.synced = t.synced
  BY <1>1 DEF Record!Task
<1>3. Record!DerivedStatus(u) \in Record!Statuses /\ (Record!DerivedStatus(u) = "done" <=> u.orig = "done")
  BY <1>2 DEF Record!DerivedStatus, Record!Task, Record!Statuses
<1>4. /\ v \in Record!Task /\ v.status = Record!DerivedStatus(u) /\ v.pend = u.pend /\ v.orig = u.orig
      /\ v.start = u.start /\ v.ddl = u.ddl /\ v.est = u.est /\ v.act = u.act
      /\ v.synced = u.synced
  BY <1>2, <1>3 DEF Record!Task
<1>5. Record!Evaluated(t) = v
  BY DEF Record!Evaluated
<1>6. Record!DerivedStatus(v) = Record!DerivedStatus(u)
  BY <1>4 DEF Record!DerivedStatus, Record!DeadlineNear, Record!WaitIsOver
<1>7. Record!Clamped(v) = v.pend
  BY <1>2, <1>4 DEF Record!Clamped, Record!Lesser, Record!DeadlinePendingLimit, Record!Task
<1> QED
  BY <1>2, <1>3, <1>4, <1>5, <1>6, <1>7 DEF Derived

\* A deadline moved up changes nothing else.
LEMMA AdvancedTask ==
    ASSUME NEW t \in Record!Task, NEW d \in Int
    PROVE  /\ Record!Hastened(t, d) \in Record!Task
           /\ Record!Hastened(t, d).status = t.status
           /\ Record!Hastened(t, d).orig = t.orig
  BY DEF Record!Hastened, Record!Task, Record!Lesser


\* A step that derives the status of a well typed task establishes StatusInv.
LEMMA EvaluatesInv ==
    ASSUME NEW t \in Record!Task, Record!Evaluates(t)
    PROVE  StatusInv'
  BY EvaluatedIsDerived DEF Record!Evaluates, StatusInv, Record!StatusTypeOK, Derived, Record!Clamped, Record!DerivedStatus,
     Record!DeadlineNear, Record!WaitIsOver

\* A step that leaves the status alone keeps StatusInv.
LEMMA LeavesInv ==
    ASSUME StatusInv, NEW t \in Record!Task, Record!LeavesStatus(t), t.status = record.status, t.orig = record.orig
    PROVE  StatusInv'
  BY DEF Record!LeavesStatus, StatusInv, Record!StatusTypeOK, Derived, Record!Clamped, Record!DerivedStatus, Record!DeadlineNear, Record!WaitIsOver

\* The initial states satisfy StatusInv.

\* Every step keeps StatusInv.
LEMMA StatusNextInv == StatusInv /\ [Record!StatusNext]_(Record!statusVars) => StatusInv'
<1> SUFFICES ASSUME StatusInv, [Record!StatusNext]_(Record!statusVars) PROVE StatusInv'
  OBVIOUS
<1>0. record \in Record!Task
  BY DEF StatusInv, Record!StatusTypeOK
<1>1. CASE Record!SyncClock
  <2>1. PICK c \in Ticks : Record!Evaluates([record EXCEPT !.synced = c])
    BY <1>1 DEF Record!SyncClock
  <2>2. [record EXCEPT !.synced = c] \in Record!Task
    BY <1>0 DEF Record!Task
  <2> QED
    BY <2>1, <2>2, EvaluatesInv
<1>2. CASE Record!SetOrigStatus
  <2>1. PICK s \in {"todo", "done"} : Record!Evaluates([record EXCEPT !.orig = s])
    BY <1>2 DEF Record!SetOrigStatus
  <2>2. [record EXCEPT !.orig = s] \in Record!Task
    BY <1>0 DEF Record!Task, Record!Statuses
  <2> QED
    BY <2>1, <2>2, EvaluatesInv
<1>3. CASE Record!SetStartTime
  <2>1. PICK s \in StatedTimes : Record!Evaluates([record EXCEPT !.start = s])
    BY <1>3 DEF Record!SetStartTime
  <2>2. [record EXCEPT !.start = s] \in Record!Task
    BY <1>0 DEF Record!Task
  <2> QED
    BY <2>1, <2>2, EvaluatesInv
<1>4. CASE Record!Defer
  <2>1. PICK p \in StatedTimes :
          Record!Evaluates([Record!Evaluated([record EXCEPT !.pend = p]) EXCEPT !.orig = "pending"])
    BY <1>4 DEF Record!Defer
  <2>2. Record!Evaluated([record EXCEPT !.pend = p]) \in Record!Task
    BY <1>0, EvaluatedIsDerived DEF Record!Task
  <2>3. [Record!Evaluated([record EXCEPT !.pend = p]) EXCEPT !.orig = "pending"] \in Record!Task
    BY <2>2 DEF Record!Task, Record!Statuses
  <2> QED
    BY <2>1, <2>3, EvaluatesInv
<1>5. CASE Record!SetDeadlineTime
  <2>1. PICK d \in StatedTimes : Record!LeavesStatus(Record!Hastened(record, d))
    BY <1>5 DEF Record!SetDeadlineTime
  <2> QED
    BY <1>0, <2>1, AdvancedTask, LeavesInv
<1>6. CASE Record!UnsetDeadlineTime
  <2>1. [record EXCEPT !.ddl = NoTime] \in Record!Task
    BY <1>0 DEF Record!Task
  <2> QED
    BY <1>6, <2>1, <1>0, LeavesInv DEF Record!UnsetDeadlineTime, Record!Task
<1>7. CASE Record!SetEstimate
  <2>1. PICK e \in Amounts : Record!LeavesStatus([record EXCEPT !.est = e])
    BY <1>7 DEF Record!SetEstimate
  <2>2. [record EXCEPT !.est = e] \in Record!Task
    BY <1>0 DEF Record!Task
  <2> QED
    BY <2>1, <2>2, <1>0, LeavesInv DEF Record!Task
<1>8. CASE Record!SetActual
  <2>1. PICK a \in Amounts : Record!LeavesStatus([record EXCEPT !.act = a])
    BY <1>8 DEF Record!SetActual
  <2>2. [record EXCEPT !.act = a] \in Record!Task
    BY <1>0 DEF Record!Task
  <2> QED
    BY <2>1, <2>2, <1>0, LeavesInv DEF Record!Task
<1>9. CASE Record!MakeAppointment
  <2>1. PICK s \in StatedTimes :
          Record!Evaluates([Record!Hastened([record EXCEPT !.ddl = NoTime], s + record.est) EXCEPT !.start = s])
    BY <1>9 DEF Record!MakeAppointment
  <2>2. [record EXCEPT !.ddl = NoTime] \in Record!Task /\ s + record.est \in Int
    BY <1>0 DEF Record!Task
  <2>3. Record!Hastened([record EXCEPT !.ddl = NoTime], s + record.est) \in Record!Task
    BY <2>2, AdvancedTask
  <2>4. [Record!Hastened([record EXCEPT !.ddl = NoTime], s + record.est) EXCEPT !.start = s] \in Record!Task
    BY <2>3 DEF Record!Task
  <2> QED
    BY <2>1, <2>4, EvaluatesInv
<1>10. CASE UNCHANGED Record!statusVars
  BY <1>10 DEF Record!statusVars, StatusInv, Record!StatusTypeOK, Derived, Record!Clamped, Record!DerivedStatus, Record!DeadlineNear, Record!WaitIsOver
<1> QED
  BY <1>1, <1>2, <1>3, <1>4, <1>5, <1>6, <1>7, <1>8, <1>9, <1>10 DEF Record!StatusNext

-----------------------------------------------------------------------------
(***************************************************************************)
(* The task in its file                                                    *)
(***************************************************************************)
(* The other attributes; those of a project are of a root alone.           *)
More ==
    [root : BOOLEAN, side : BOOLEAN, atomic : BOOLEAN, prio : Int, category : {"none", "earning"},
     end : Int \cup {NoTime}, interval : Nat, anchor : {"deadline", "completion"}, advance : Nat]

OwnMore(m) == ~ m.root => m.prio = Record!Default.prio /\ m.category = Record!Default.category

(* A time that is written is whole, and a whole one is written as it is.   *)
LEMMA WholeIsWhole ==
    ASSUME Record!IsRecord, NEW time \in Int
    PROVE  Record!Whole(time) \in Record!WholeTimes /\ (time \in Record!WholeTimes => Record!Whole(time) = time)
<1>1. Second \in Nat /\ Second > 0
    BY DEF Record!IsRecord
<1>2. time # NoTime
    BY RecordAssumption
<1>3. time % Second \in Int /\ (time - (time % Second)) % Second = 0
    <2>1. time % Second \in Nat /\ time = Second * (time \div Second) + (time % Second) /\ time \div Second \in Int
        BY <1>1
    <2>2. time - (time % Second) = Second * (time \div Second)
        BY <2>1, <1>1
    <2>3. \A d \in Int : (Second * d) % Second = 0
        BY <1>1
    <2> QED BY <2>1, <2>2, <2>3
<1> QED BY <1>1, <1>2, <1>3 DEF Record!Whole, Record!WholeTimes

LEMMA FieldsAre ==
    Record!Fields = {"status", "side", "atomic", "pend", "prio", "category", "start", "end", "ddl", "est",
              "act", "interval", "anchor", "advance"}
BY DEF Record!Fields, Record!Default

LEMMA ToldIs ==
    ASSUME NEW t, NEW m
    PROVE  /\ DOMAIN Record!Told(t, m) = Record!Fields
           /\ Record!Told(t, m) = [field \in Record!Fields |-> Record!Told(t, m)[field]]
BY FieldsAre DEF Record!Told

(* No attribute is Null, so that its field is not empty where it is.       *)
LEMMA NotNull ==
    ASSUME Record!IsRecord, NEW t \in Record!Task, NEW m \in More, NEW field \in Record!Fields
    PROVE  Record!Told(t, m)[field] \notin {Null, Ill}
<1>1. /\ Null \notin Int /\ Ill \notin Int
      /\ Null \notin Record!Statuses /\ Ill \notin Record!Statuses
      /\ Null \notin BOOLEAN /\ Ill \notin BOOLEAN
      /\ Null \notin {"none", "earning"} /\ Ill \notin {"none", "earning"}
      /\ Null \notin {"deadline", "completion"} /\ Ill \notin {"deadline", "completion"}
    <2>1. \A g \in Record!Fields : Record!Values[g] \cap {Null, Ill} = {}
        BY DEF Record!IsRecord
    <2>2. Record!Values["prio"] \cap {Null, Ill} = {} /\ Record!Values["prio"] = Int
        BY <2>1, FieldsAre DEF Record!Values
    <2>3. Record!Values["status"] \cap {Null, Ill} = {} /\ Record!Statuses \subseteq Record!Values["status"]
        BY <2>1, FieldsAre DEF Record!Values
    <2>4. Record!Values["side"] \cap {Null, Ill} = {} /\ Record!Values["side"] = BOOLEAN
        BY <2>1, FieldsAre DEF Record!Values
    <2>5. Record!Values["category"] \cap {Null, Ill} = {} /\ {"none", "earning"} \subseteq Record!Values["category"]
        BY <2>1, FieldsAre DEF Record!Values
    <2>6. Record!Values["anchor"] \cap {Null, Ill} = {} /\ {"deadline", "completion"} \subseteq Record!Values["anchor"]
        BY <2>1, FieldsAre DEF Record!Values
    <2> QED BY <2>2, <2>3, <2>4, <2>5, <2>6
<1>2. /\ Record!Whole(t.pend) \in Int /\ Record!Whole(t.start) \in Int
      /\ Record!Whole(t.ddl) \in Int \cup {NoTime} /\ Record!Whole(m.end) \in Int \cup {NoTime}
    BY WholeIsWhole DEF Record!Task, More, Record!Whole, Record!WholeTimes
<1>3. NoTime \notin {Null, Ill}
    BY DEF Record!IsRecord
<1> QED BY <1>1, <1>2, <1>3, FieldsAre DEF Record!Told, Record!Task, More

(* What the writer says is not spelled in another way.                     *)
LEMMA MeansItself ==
    ASSUME NEW t \in Record!Task, NEW m \in More, NEW field \in Record!Fields
    PROVE  Record!Meaning(field, Record!Told(t, m)[field]) = Record!Told(t, m)[field]
<1>1. DOMAIN Record!Spellings = {"TODO", "Pending", "DONE", "Completion", "Earning", "theSignOfEarning"}
    BY DEF Record!Spellings
<1>2. /\ Record!Told(t, m)["status"] \in Record!Statuses
      /\ Record!Told(t, m)["category"] \in {"none", "earning"}
      /\ Record!Told(t, m)["anchor"] \in {"deadline", "completion"}
    BY DEF Record!Told, Record!Task, More
<1>3. Record!Told(t, m)[field] \notin DOMAIN Record!Spellings \/ field \notin {"status", "category", "anchor"}
    BY <1>1, <1>2 DEF Record!Statuses
<1> QED BY <1>3 DEF Record!Meaning

(* What is left out is put in again.                                       *)
LEMMA GotWritten ==
    ASSUME Record!IsRecord, NEW t \in Record!Task, NEW m \in More, OwnMore(m), NEW clock
    PROVE  Record!Got(Record!Written(t, m), clock) = Record!Told(t, m)
<1> DEFINE told == Record!Told(t, m)
           w == Record!Written(t, m)
<1>1. DOMAIN w = {f \in Record!Fields : told[f] # Record!Default[f] /\ (f \in Record!OfProject => m.root)}
    BY DEF Record!Written, Record!Restrict
<1>2. \A f \in DOMAIN w : w[f] = told[f]
    BY DEF Record!Written, Record!Restrict
<1>3. told["start"] # Record!Default["start"]
    BY NotNull, FieldsAre DEF Record!Default
<1>4. \A f \in Record!Fields : f \in Record!OfProject /\ ~ m.root => told[f] = Record!Default[f]
    BY DEF OwnMore, Record!OfProject, Record!Told, Record!Default
<1>5. ASSUME NEW f \in Record!Fields PROVE Record!Got(w, clock)[f] = told[f]
    <2> HIDE DEF told, w
    <2>1. told[f] # Null /\ Record!Meaning(f, told[f]) = told[f]
        BY NotNull, MeansItself DEF told
    <2>2. "start" \notin Record!OfProject
        BY DEF Record!OfProject
    <2> QED BY <1>1, <1>2, <1>3, <1>4, <2>1, <2>2 DEF Record!Got
<1>6. Record!Got(w, clock) = [f \in Record!Fields |-> Record!Got(w, clock)[f]]
    BY DEF Record!Got
<1> HIDE DEF told, w
<1>7. [f \in Record!Fields |-> Record!Got(w, clock)[f]] = [f \in Record!Fields |-> told[f]]
    BY <1>5
<1> QED BY <1>6, <1>7, ToldIs DEF told, w

(* Two tasks that agree in what is in a file and in their clock agree in   *)
(* their status.                                                           *)
LEMMA SameStatus ==
    ASSUME NEW t \in Record!Task, NEW u \in Record!Task, Derived(t), Derived(u),
           Record!Persistent(t) = Record!Persistent(u), t.synced = u.synced
    PROVE  t = u
<1>1. /\ t.orig = u.orig /\ t.start = u.start /\ t.pend = u.pend /\ t.ddl = u.ddl
      /\ t.est = u.est /\ t.act = u.act
    BY DEF Record!Persistent
<1>2. Record!DerivedStatus(t) = Record!DerivedStatus(u)
    BY <1>1 DEF Record!DerivedStatus, Record!DeadlineNear, Record!WaitIsOver
<1> QED BY <1>1, <1>2 DEF Derived, Record!Task

(* What a reader gets of a file.                                           *)
Gotten ==
    [status : Record!Statuses, side : BOOLEAN, atomic : BOOLEAN, pend : Record!WholeTimes, prio : Int,
     category : {"none", "earning"}, start : Int, end : Record!WholeTimes \cup {NoTime},
     ddl : Record!WholeTimes \cup {NoTime}, est : Record!WholeTimes \cap Nat, act : Nat, interval : Nat,
     anchor : {"deadline", "completion"}, advance : Nat]

LEMMA GottenIs ==
    ASSUME NEW g, g = [field \in Record!Fields |-> g[field]],
           g["status"] \in Record!Statuses, g["side"] \in BOOLEAN, g["atomic"] \in BOOLEAN,
           g["pend"] \in Record!WholeTimes, g["prio"] \in Int, g["category"] \in {"none", "earning"},
           g["start"] \in Int, g["end"] \in Record!WholeTimes \cup {NoTime},
           g["ddl"] \in Record!WholeTimes \cup {NoTime}, g["est"] \in Record!WholeTimes \cap Nat,
           g["act"] \in Nat, g["interval"] \in Nat, g["anchor"] \in {"deadline", "completion"},
           g["advance"] \in Nat
    PROVE  g \in Gotten
BY FieldsAre DEF Gotten

(* A task read from a file is well typed, and its times are whole.         *)
LEMMA ReadIs ==
    ASSUME Record!IsRecord, NEW g \in Gotten, NEW clock \in Int, NEW root \in BOOLEAN
    PROVE  /\ Record!ReadTask(g, clock) \in Record!Task
           /\ Record!ReadMore(g, root) \in More /\ OwnMore(Record!ReadMore(g, root))
<1> DEFINE base == [orig |-> IF g.interval > 0 THEN "pending" ELSE g.status, status |-> "todo",
                    start |-> g.start, pend |-> IF g.interval > 0 THEN FarFuture ELSE g.pend,
                    ddl |-> IF g.status = "done" THEN NoTime ELSE g.ddl,
                    est |-> g.est, act |-> g.act, synced |-> clock]
<1>1. base \in Record!Task
    BY DEF Record!IsRecord, Gotten, Record!Task, Record!WholeTimes, Record!Statuses
<1>2. Record!ReadTask(g, clock) = Record!Evaluated(base)
    BY DEF Record!ReadTask
<1>3. Record!ReadTask(g, clock) \in Record!Task
    <2> HIDE DEF base
    <2> QED BY <1>1, <1>2, EvaluatedIsDerived
<1>4. Record!ReadMore(g, root) \in More /\ OwnMore(Record!ReadMore(g, root))
    <2>1. /\ g.side \in BOOLEAN /\ g.atomic \in BOOLEAN /\ g.prio \in Int /\ g.interval \in Nat
          /\ g.category \in {"none", "earning"} /\ g.end \in Int \cup {NoTime}
          /\ g.anchor \in {"deadline", "completion"} /\ g.advance \in Nat
        BY DEF Gotten, Record!WholeTimes
    <2>2. Record!Default.prio = 0 /\ Record!Default.category = "none"
        BY DEF Record!Default
    <2>3. Record!ReadMore(g, root) \in More
        BY <2>1, <2>2 DEF Record!ReadMore, More
    <2>4. OwnMore(Record!ReadMore(g, root))
        <3>1. Record!ReadMore(g, root).root = root
              /\ (~ root => Record!ReadMore(g, root).prio = Record!Default.prio /\ Record!ReadMore(g, root).category = Record!Default.category)
            BY DEF Record!ReadMore
        <3> QED BY <3>1 DEF OwnMore
    <2> QED BY <2>3, <2>4
<1> QED BY <1>3, <1>4

(* A file the reader takes says something of the right kind of every field. *)
LEMMA GotIs ==
    ASSUME Record!IsRecord, NEW f, Record!IsText(f), Record!IsTaken(f), NEW clock \in Int
    PROVE  Record!Got(f, clock) \in Gotten /\ ("start" \in DOMAIN f => Record!Got(f, clock).start \in Record!WholeTimes)
<1> DEFINE g == Record!Got(f, clock)
<1>1. g = [field \in Record!Fields |-> g[field]]
    BY DEF Record!Got
<1>2. \A field \in Record!Fields :
                            \/ g[field] = Record!Default[field] /\ field # "start"
                            \/ g[field] = clock /\ field = "start" /\ field \notin DOMAIN f
                            \/ /\ f[field] \in Record!Values[field]
                               /\ Record!Takes(field, f[field]) /\ f[field] # Null
                               /\ g[field] = Record!Meaning(field, f[field])
    <2> TAKE field \in Record!Fields
    <2>1. CASE field \in DOMAIN f /\ f[field] # Null
        <3>1. f[field] # Ill /\ Record!Takes(field, f[field])
            BY <2>1 DEF Record!IsTaken, Record!Takes
        <3> QED BY <2>1, <3>1 DEF Record!IsText, Record!Got
    <2>2. CASE ~ (field \in DOMAIN f /\ f[field] # Null)
        <3>1. field = "start" => field \notin DOMAIN f
            BY <2>2 DEF Record!IsTaken, Record!Takes
        <3> QED BY <2>2, <3>1 DEF Record!Got
    <2> QED BY <2>1, <2>2
<1> HIDE DEF g
<1>3. DOMAIN Record!Spellings = {"TODO", "Pending", "DONE", "Completion", "Earning", "theSignOfEarning"}
    BY DEF Record!Spellings
<1>4. g["status"] \in Record!Statuses
    BY <1>2, <1>3, FieldsAre DEF Record!Default, Record!Values, Record!Meaning, Record!Spellings, Record!Statuses
<1>5. g["side"] \in BOOLEAN /\ g["atomic"] \in BOOLEAN /\ g["prio"] \in Int
    <2>1. /\ Record!Default["side"] = FALSE /\ Record!Default["atomic"] = FALSE /\ Record!Default["prio"] = 0
          /\ Record!Values["side"] = BOOLEAN /\ Record!Values["atomic"] = BOOLEAN /\ Record!Values["prio"] = Int
        BY DEF Record!Default, Record!Values
    <2>2. ASSUME NEW field \in {"side", "atomic", "prio"}, NEW v PROVE Record!Meaning(field, v) = v
        <3>1. field \notin {"status", "category", "anchor"}
            OBVIOUS
        <3> QED BY <3>1, Zenon DEF Record!Meaning
    <2>3. ASSUME NEW field \in {"side", "atomic", "prio"}
          PROVE  g[field] = Record!Default[field] \/ g[field] \in Record!Values[field]
        <3>1. field \in Record!Fields
            BY FieldsAre
        <3> QED BY <1>2, <2>2, <3>1
    <2>4. g["side"] \in BOOLEAN
        BY <2>1, <2>3
    <2>5. g["atomic"] \in BOOLEAN
        BY <2>1, <2>3
    <2>6. g["prio"] \in Int
        BY <2>1, <2>3
    <2> QED BY <2>4, <2>5, <2>6
<1>6. g["pend"] \in Record!WholeTimes
      /\ g["start"] \in Int /\ ("start" \in DOMAIN f => g["start"] \in Record!WholeTimes)
      /\ g["end"] \in Record!WholeTimes \cup {NoTime} /\ g["ddl"] \in Record!WholeTimes \cup {NoTime}
    BY <1>2, FieldsAre DEF Record!Default, Record!Values, Record!Meaning, Record!IsRecord, Record!WholeTimes
<1>7. g["category"] \in {"none", "earning"}
    BY <1>2, <1>3, FieldsAre DEF Record!Default, Record!Values, Record!Meaning, Record!Spellings
<1>8. g["anchor"] \in {"deadline", "completion"}
    BY <1>2, <1>3, FieldsAre DEF Record!Default, Record!Values, Record!Meaning, Record!Spellings
<1>9. g["est"] \in Record!WholeTimes \cap Nat
    BY <1>2, FieldsAre DEF Record!Default, Record!Values, Record!Meaning, Record!IsRecord, Record!WholeTimes, Record!Takes
<1>10. g["act"] \in Nat /\ g["interval"] \in Nat /\ g["advance"] \in Nat
    BY <1>2, FieldsAre DEF Record!Default, Record!Values, Record!Meaning, Record!Takes
<1> QED BY <1>1, <1>4, <1>5, <1>6, <1>7, <1>8, <1>9, <1>10, GottenIs DEF g

(* What a task is made of when it is read: the attributes before its       *)
(* status is derived.                                                      *)
Base(got, clock) ==
    [orig |-> IF got.interval > 0 THEN "pending" ELSE got.status, status |-> "todo",
     start |-> got.start, pend |-> IF got.interval > 0 THEN FarFuture ELSE got.pend,
     ddl |-> IF got.status = "done" THEN NoTime ELSE got.ddl,
     est |-> got.est, act |-> got.act, synced |-> clock]

LEMMA ReadIsBase == ASSUME NEW got, NEW clock PROVE Record!ReadTask(got, clock) = Record!Evaluated(Base(got, clock))
BY DEF Record!ReadTask, Base

(* The pending time a deadline leaves.                                     *)
LEMMA EvaluatedPend ==
    ASSUME NEW t \in Record!Task
    PROVE  Record!Evaluated(t).pend = Record!Clamped(t)
<1> DEFINE u == [t EXCEPT !.pend = Record!Clamped(t)]
<1>1. u.pend = Record!Clamped(t)
    BY DEF Record!Task
<1>2. [u EXCEPT !.status = Record!DerivedStatus(u)].pend = u.pend
    <2> HIDE DEF u
    <2>1. u \in [{"orig", "status", "start", "pend", "ddl", "est", "act", "synced"} -> {u[x] : x \in DOMAIN u}]
        BY DEF u, Record!Task
    <2> QED BY <2>1
<1> QED BY <1>1, <1>2 DEF Record!Evaluated

LEMMA WholeDifference ==
    ASSUME Record!IsRecord, NEW x \in Record!WholeTimes, NEW y \in Record!WholeTimes
    PROVE  x - y \in Record!WholeTimes
<1>1. Second \in Nat /\ Second > 0
    BY DEF Record!IsRecord
<1>2. /\ x \in Int /\ x = Second * (x \div Second) + (x % Second) /\ x \div Second \in Int /\ x % Second = 0
      /\ y \in Int /\ y = Second * (y \div Second) + (y % Second) /\ y \div Second \in Int /\ y % Second = 0
    BY <1>1 DEF Record!WholeTimes
<1> DEFINE d == x \div Second - y \div Second
<1>3. d \in Int /\ x - y = Second * d
    BY <1>1, <1>2
<1>4. (Second * d) % Second = 0
    <2> HIDE DEF d
    <2> QED BY <1>1, <1>3
<1> QED BY <1>2, <1>3, <1>4 DEF Record!WholeTimes

(* The times of a task that is read are whole, and so is the time it waits *)
(* for once its deadline was looked at.                                    *)
LEMMA BaseIs ==
    ASSUME Record!IsRecord, NEW g \in Gotten, g.start \in Record!WholeTimes, NEW clock \in Int
    PROVE  /\ Base(g, clock) \in Record!Task
           /\ Base(g, clock).start \in Record!WholeTimes /\ Base(g, clock).ddl \in Record!WholeTimes \cup {NoTime}
           /\ Record!Clamped(Base(g, clock)) \in Record!WholeTimes
<1>1. Base(g, clock) \in Record!Task
    BY DEF Base, Record!IsRecord, Gotten, Record!Task, Record!WholeTimes, Record!Statuses
<1>2. \A x, y \in Record!WholeTimes : x - y \in Record!WholeTimes
    BY WholeDifference
<1>3. /\ Base(g, clock).start \in Record!WholeTimes /\ Base(g, clock).ddl \in Record!WholeTimes \cup {NoTime}
      /\ Base(g, clock).pend \in Record!WholeTimes /\ Base(g, clock).est \in Record!WholeTimes
    BY DEF Base, Gotten, Record!IsRecord
<1>4. PendingBuffer \in Record!WholeTimes
    BY DEF Record!IsRecord
<1>5. Base(g, clock).ddl # NoTime => Record!DeadlinePendingLimit(Base(g, clock).ddl, Base(g, clock).est) \in Record!WholeTimes
    BY <1>2, <1>3, <1>4 DEF Record!DeadlinePendingLimit
<1> QED BY <1>1, <1>3, <1>5 DEF Record!Clamped, Record!Lesser

(* Reading again what was read and written is reading it once.             *)
LEMMA ReadAgain ==
    ASSUME Record!IsRecord, NEW g \in Gotten, g.start \in Record!WholeTimes, NEW clock \in Int, NEW root \in BOOLEAN
    PROVE  LET t == Record!ReadTask(g, clock)
               m == Record!ReadMore(g, root)
           IN  Record!ReadTask(Record!Told(t, m), clock) = t /\ Record!ReadMore(Record!Told(t, m), root) = m
<1> DEFINE t == Record!ReadTask(g, clock)
           m == Record!ReadMore(g, root)
           b == Base(g, clock)
           told == Record!Told(t, m)
<1>1. b \in Record!Task /\ t = Record!Evaluated(b)
    BY BaseIs, ReadIsBase
<1>2. t \in Record!Task /\ m \in More /\ OwnMore(m) /\ Derived(t)
    BY <1>1, ReadIs, EvaluatedIsDerived
<1>3. /\ t.orig = b.orig /\ t.start = b.start /\ t.ddl = b.ddl /\ t.est = b.est /\ t.act = b.act
      /\ t.synced = clock /\ t.pend = Record!Clamped(b)
    <2>1. b.synced = clock
        BY DEF Base
    <2> HIDE DEF b, t
    <2> QED BY <1>1, <2>1, EvaluatedIsDerived, EvaluatedPend
<1>4. Record!Whole(t.start) = t.start /\ Record!Whole(t.ddl) = t.ddl /\ Record!Whole(t.pend) = t.pend
    <2>1. t.start \in Record!WholeTimes /\ t.ddl \in Record!WholeTimes \cup {NoTime} /\ t.pend \in Record!WholeTimes
        BY <1>3, BaseIs
    <2> QED BY <2>1, WholeIsWhole DEF Record!Whole, Record!WholeTimes
<1>5. Record!Whole(m.end) = m.end
    <2>1. m.end \in Record!WholeTimes \cup {NoTime}
        BY DEF Record!ReadMore, Gotten
    <2> QED BY <2>1, WholeIsWhole DEF Record!Whole, Record!WholeTimes
<1>6. /\ told.status = t.orig /\ told.start = t.start /\ told.pend = t.pend /\ told.ddl = t.ddl
      /\ told.est = t.est /\ told.act = t.act /\ told.interval = m.interval
      /\ told.side = m.side /\ told.atomic = m.atomic /\ told.prio = m.prio
      /\ told.category = m.category /\ told.end = m.end /\ told.anchor = m.anchor
      /\ told.advance = m.advance
    <2> HIDE DEF t, m
    <2> QED BY <1>4, <1>5 DEF Record!Told
<1>7. Record!ReadMore(told, root) = m
    <2>1. m = [root |-> root, side |-> m.side, atomic |-> m.atomic, prio |-> m.prio,
               category |-> m.category, end |-> m.end, interval |-> m.interval,
               anchor |-> m.anchor, advance |-> m.advance]
        BY DEF Record!ReadMore
    <2>2. ~ root => m.prio = Record!Default.prio /\ m.category = Record!Default.category
        BY DEF Record!ReadMore
    <2> HIDE DEF m, told
    <2> QED BY <1>6, <2>1, <2>2 DEF Record!ReadMore
<1>8. m.interval = g.interval /\ g.interval \in Nat
    BY DEF Record!ReadMore, Gotten
<1> DEFINE again == Base(told, clock)
<1>9. /\ again.orig = b.orig /\ again.start = b.start /\ again.ddl = b.ddl /\ again.est = b.est
      /\ again.act = b.act /\ again.synced = b.synced /\ again.status = b.status
      /\ again.pend = b.pend \/ again.pend = Record!Clamped(b)
    <2>1. /\ b.orig = IF g.interval > 0 THEN "pending" ELSE g.status
          /\ b.ddl = IF g.status = "done" THEN NoTime ELSE g.ddl
          /\ b.pend = IF g.interval > 0 THEN FarFuture ELSE g.pend
          /\ b.synced = clock /\ b.status = "todo"
        BY DEF Base
    <2>2. /\ again.orig = IF told.interval > 0 THEN "pending" ELSE told.status
          /\ again.ddl = IF told.status = "done" THEN NoTime ELSE told.ddl
          /\ again.pend = IF told.interval > 0 THEN FarFuture ELSE told.pend
          /\ again.start = told.start /\ again.est = told.est /\ again.act = told.act
          /\ again.synced = clock /\ again.status = "todo"
        BY DEF Base
    <2> HIDE DEF again, b, t, m, told
    <2> QED BY <1>3, <1>6, <1>8, <2>1, <2>2
<1>10. again \in Record!Task
    <2>1. DOMAIN again = {"orig", "status", "start", "pend", "ddl", "est", "act", "synced"}
        BY DEF Base
    <2>2. again = [orig |-> again.orig, status |-> again.status, start |-> again.start,
                   pend |-> again.pend, ddl |-> again.ddl, est |-> again.est, act |-> again.act,
                   synced |-> again.synced]
        BY DEF Base
    <2>3. Record!Clamped(b) \in Int
        BY BaseIs DEF Record!WholeTimes
    <2> HIDE DEF again, b
    <2> QED BY <1>1, <1>9, <2>2, <2>3 DEF Record!Task
<1>11. Record!Clamped(again) = Record!Clamped(b)
    <2> HIDE DEF again, b
    <2> QED BY <1>1, <1>9, <1>10 DEF Record!Clamped, Record!Lesser, Record!DeadlinePendingLimit, Record!Task
<1>12. Record!Evaluated(again) = t
    <2> HIDE DEF again, b, t
    <2>1. Record!Evaluated(again) \in Record!Task /\ Derived(Record!Evaluated(again))
        BY <1>10, EvaluatedIsDerived
    <2>2. Record!Persistent(Record!Evaluated(again)) = Record!Persistent(t) /\ Record!Evaluated(again).synced = t.synced
        BY <1>1, <1>3, <1>9, <1>10, <1>11, EvaluatedIsDerived, EvaluatedPend DEF Record!Persistent
    <2> QED BY <1>2, <2>1, <2>2, SameStatus
<1>13. Record!ReadTask(told, clock) = t
    BY <1>12, ReadIsBase
<1> QED BY <1>7, <1>13

(* What is written is a text, and the reader takes it.                     *)
LEMMA WrittenIs ==
    ASSUME Record!IsRecord, NEW t \in Record!Task, t.est \in Record!WholeTimes, NEW m \in More
    PROVE  Record!IsText(Record!Written(t, m)) /\ Record!IsTaken(Record!Written(t, m)) /\ "start" \in DOMAIN Record!Written(t, m)
<1> DEFINE told == Record!Told(t, m)
           w == Record!Written(t, m)
<1>1. DOMAIN w = {f \in Record!Fields : told[f] # Record!Default[f] /\ (f \in Record!OfProject => m.root)}
    BY DEF Record!Written, Record!Restrict
<1>2. \A f \in DOMAIN w : w[f] = told[f]
    BY DEF Record!Written, Record!Restrict
<1>3. /\ t.orig \in Record!Statuses /\ t.est \in Nat /\ t.act \in Nat
      /\ m.interval \in Nat /\ m.advance \in Nat /\ m.prio \in Int
      /\ m.category \in {"none", "earning"} /\ m.anchor \in {"deadline", "completion"}
      /\ Record!Whole(t.pend) \in Record!WholeTimes /\ Record!Whole(t.start) \in Record!WholeTimes
      /\ Record!Whole(t.ddl) \in Record!WholeTimes \cup {NoTime} /\ Record!Whole(m.end) \in Record!WholeTimes \cup {NoTime}
    BY WholeIsWhole DEF Record!Task, More, Record!Whole
<1>4. m.side \in BOOLEAN /\ m.atomic \in BOOLEAN
    BY DEF More
<1>5. ASSUME NEW f \in DOMAIN w PROVE w[f] \in Record!Values[f]
    <2>1. f \in Record!Fields /\ told[f] # Record!Default[f] /\ w[f] = told[f]
        BY <1>1, <1>2
    <2>2. CASE f \in {"side", "atomic"}
        <3>1. /\ told["side"] = m.side /\ told["atomic"] = m.atomic
              /\ Record!Values["side"] = BOOLEAN /\ Record!Values["atomic"] = BOOLEAN
            BY DEF Record!Told, Record!Values
        <3> HIDE DEF told, w
        <3>2. CASE f = "side"
            BY <2>1, <3>1, <3>2, <1>4
        <3>3. CASE f = "atomic"
            BY <2>1, <3>1, <3>3, <1>4
        <3> QED BY <2>2, <3>2, <3>3
    <2>3. CASE f \notin {"side", "atomic"}
        <3>1. /\ told["status"] = t.orig /\ told["pend"] = Record!Whole(t.pend) /\ told["prio"] = m.prio
              /\ told["category"] = m.category /\ told["start"] = Record!Whole(t.start)
              /\ told["end"] = Record!Whole(m.end) /\ told["ddl"] = Record!Whole(t.ddl) /\ told["est"] = t.est
              /\ told["act"] = t.act /\ told["interval"] = m.interval /\ told["anchor"] = m.anchor
              /\ told["advance"] = m.advance
            BY DEF Record!Told
        <3>2. Record!Default["end"] = NoTime /\ Record!Default["ddl"] = NoTime
            BY DEF Record!Default
        <3> HIDE DEF told, w
        <3> QED BY <2>1, <2>3, <3>1, <3>2, <1>3, FieldsAre DEF Record!Values
    <2> QED BY <2>2, <2>3
<1>6. ASSUME NEW f \in DOMAIN w PROVE Record!Takes(f, w[f])
    <2>1. f \in Record!Fields /\ told[f] # Record!Default[f] /\ w[f] = told[f] /\ told[f] \notin {Null, Ill}
        BY <1>1, <1>2, NotNull
    <2>2. /\ told["est"] = t.est /\ told["act"] = t.act /\ told["interval"] = m.interval
          /\ told["advance"] = m.advance
        BY DEF Record!Told
    <2>3. Record!Default["interval"] = 0
        BY DEF Record!Default
    <2> HIDE DEF told, w
    <2> QED BY <2>1, <2>2, <2>3, <1>3 DEF Record!Takes
<1>7. told["start"] # Record!Default["start"] /\ "start" \in Record!Fields /\ "start" \notin Record!OfProject
    BY NotNull, FieldsAre DEF Record!Default, Record!OfProject
<1> HIDE DEF told, w
<1> QED BY <1>1, <1>5, <1>6, <1>7 DEF Record!IsText, Record!IsTaken, w

(* A file read once is as read after saving what was read.                 *)
LEMMA Settles ==
    ASSUME Record!IsRecord, NEW f, Record!IsText(f), Record!IsTaken(f), "start" \in DOMAIN f,
           NEW clock \in Int, NEW root \in BOOLEAN
    PROVE  LET t == Record!ReadTask(Record!Got(f, clock), clock)
               m == Record!ReadMore(Record!Got(f, clock), root)
               again == Record!Written(t, m)
           IN  Record!IsTaken(again) /\ Record!ReadTask(Record!Got(again, clock), clock) = t /\ Record!ReadMore(Record!Got(again, clock), root) = m
<1> DEFINE g == Record!Got(f, clock)
           t == Record!ReadTask(g, clock)
           m == Record!ReadMore(g, root)
<1>1. g \in Gotten /\ g.start \in Record!WholeTimes
    BY GotIs
<1>2. t \in Record!Task /\ m \in More /\ OwnMore(m)
    BY <1>1, ReadIs
<1>3. t.est \in Record!WholeTimes
    <2>1. t = Record!Evaluated(Base(g, clock)) /\ Base(g, clock) \in Record!Task /\ Base(g, clock).est = g.est
        BY <1>1, BaseIs, ReadIsBase DEF Base
    <2>2. t.est = g.est
        BY <2>1, EvaluatedIsDerived
    <2> QED BY <1>1, <2>2 DEF Gotten
<1>4. Record!IsTaken(Record!Written(t, m)) /\ Record!Got(Record!Written(t, m), clock) = Record!Told(t, m)
    BY <1>2, <1>3, WrittenIs, GotWritten
<1>5. Record!ReadTask(Record!Told(t, m), clock) = t /\ Record!ReadMore(Record!Told(t, m), root) = m
    BY <1>1, ReadAgain
<1> QED BY <1>4, <1>5

(* Evaluating what is derived changes nothing.                             *)
LEMMA EvaluatedOnce ==
    ASSUME NEW t \in Record!Task, Derived(t)
    PROVE  Record!Evaluated(t) = t
<1>1. Record!Evaluated(t) \in Record!Task /\ Derived(Record!Evaluated(t))
    BY EvaluatedIsDerived
<1>2. Record!Persistent(Record!Evaluated(t)) = Record!Persistent(t) /\ Record!Evaluated(t).synced = t.synced
    BY EvaluatedIsDerived, EvaluatedPend DEF Record!Persistent, Derived
<1> QED BY <1>1, <1>2, SameStatus

(* What is written depends on what is in a file alone.                     *)
LEMMA WrittenSame ==
    ASSUME NEW t, NEW u, NEW m, Record!Persistent(t) = Record!Persistent(u)
    PROVE  Record!Written(t, m) = Record!Written(u, m)
<1>1. /\ t.orig = u.orig /\ t.start = u.start /\ t.pend = u.pend /\ t.ddl = u.ddl
      /\ t.est = u.est /\ t.act = u.act
    BY DEF Record!Persistent
<1>2. Record!Told(t, m) = Record!Told(u, m)
    BY <1>1 DEF Record!Told
<1> QED BY <1>2 DEF Record!Written

(* A file that says a start is read alike at any time.                     *)
LEMMA ReadAnyTime ==
    ASSUME Record!IsRecord, NEW f, Record!IsText(f), Record!IsTaken(f), "start" \in DOMAIN f, NEW n \in Int, NEW k \in Int
    PROVE  /\ Record!Got(f, n) = Record!Got(f, k)
           /\ Record!Persistent(Record!ReadTask(Record!Got(f, n), n)) = Record!Persistent(Record!ReadTask(Record!Got(f, k), k))
<1>1. f["start"] # Null
    BY DEF Record!IsTaken, Record!Takes
<1>2. Record!Got(f, n) = Record!Got(f, k)
    BY <1>1 DEF Record!Got
<1> DEFINE g == Record!Got(f, n)
           a == Base(g, n)
           b == Base(g, k)
<1>3. g \in Gotten /\ g.start \in Record!WholeTimes
    BY GotIs
<1>4. a \in Record!Task /\ b \in Record!Task
    BY <1>3, BaseIs
<1>5. /\ a.orig = b.orig /\ a.start = b.start /\ a.pend = b.pend /\ a.ddl = b.ddl
      /\ a.est = b.est /\ a.act = b.act
    BY DEF Base
<1>6. Record!Persistent(Record!Evaluated(a)) = Record!Persistent(Record!Evaluated(b))
    <2> HIDE DEF a, b
    <2>1. Record!Clamped(a) = Record!Clamped(b)
        BY <1>5 DEF Record!Clamped
    <2> QED BY <1>4, <1>5, <2>1, EvaluatedIsDerived, EvaluatedPend DEF Record!Persistent
<1> QED BY <1>2, <1>6, ReadIsBase

(* An unmarked task is in the file: as it was written or as it was read.   *)
InFile ==
    \/ document = Record!Written(record, more)
    \/ /\ Record!IsTaken(document)
       /\ \E n \in Int : /\ Record!Persistent(record) = Record!Persistent(Record!ReadTask(Record!Got(document, n), n))
                         /\ more = Record!ReadMore(Record!Got(document, n), more.root)

RecordInv ==
    /\ StatusInv
    /\ record.est \in Record!WholeTimes
    /\ more \in More /\ OwnMore(more)
    /\ Record!IsText(document)
    /\ Record!Loaded /\ ~ dirty => InFile

(* Nothing is claimed of a program that has read nothing.                  *)
LEMMA RecordInitInv == Record!IsRecord /\ Record!RecordInit => RecordInv
<1> SUFFICES ASSUME Record!IsRecord, Record!RecordInit PROVE RecordInv
    OBVIOUS
<1> DEFINE d == [Record!Default EXCEPT !.start = 0]
<1>1. PICK root \in BOOLEAN : more = Record!ReadMore(Record!Default, root)
    BY DEF Record!RecordInit
<1>2. d \in Gotten
    <2>1. d = [field \in Record!Fields |-> d[field]]
        BY FieldsAre DEF Record!Default
    <2>2. /\ d["status"] = "todo" /\ d["side"] = FALSE /\ d["atomic"] = FALSE /\ d["pend"] = LongAgo
          /\ d["prio"] = 0 /\ d["category"] = "none" /\ d["start"] = 0 /\ d["end"] = NoTime
          /\ d["ddl"] = NoTime /\ d["est"] = DefaultEstimate /\ d["act"] = 0
          /\ d["interval"] = 0 /\ d["anchor"] = "deadline" /\ d["advance"] = 0
        BY DEF Record!Default
    <2>3. LongAgo \in Record!WholeTimes /\ DefaultEstimate \in Record!WholeTimes \cap Nat
        BY DEF Record!IsRecord, Record!WholeTimes
    <2> HIDE DEF d
    <2>4. d["side"] \in BOOLEAN /\ d["atomic"] \in BOOLEAN
        BY <2>2
    <2> QED BY <2>1, <2>2, <2>3, <2>4, GottenIs DEF Record!Statuses
<1>3. Record!ReadMore(Record!Default, root) = Record!ReadMore(d, root)
    BY DEF Record!ReadMore, Record!Default
<1>4. more \in More /\ OwnMore(more)
    BY <1>1, <1>2, <1>3, ReadIs
<1>5. record = Record!ReadTask(d, 0) /\ fresh = TRUE /\ loading = "start"
    BY DEF Record!RecordInit
<1>6. d.start \in Record!WholeTimes /\ d.est \in Record!WholeTimes
    <2>1. d.start = 0 /\ d.est = DefaultEstimate
        BY DEF Record!Default
    <2>2. 0 % Second = 0
        BY DEF Record!IsRecord
    <2> QED BY <2>1, <2>2 DEF Record!IsRecord, Record!WholeTimes
<1>7. record = Record!Evaluated(Base(d, 0)) /\ Base(d, 0) \in Record!Task /\ Base(d, 0).est = d.est
    <2> HIDE DEF d
    <2>1. Base(d, 0).est = d.est
        BY DEF Base
    <2> QED BY <1>2, <1>5, <1>6, <2>1, BaseIs, ReadIsBase
<1>8. StatusInv /\ record.est \in Record!WholeTimes
    <2> HIDE DEF d
    <2> QED BY <1>5, <1>6, <1>7, EvaluatedIsDerived DEF StatusInv, Record!StatusTypeOK
<1>9. Record!IsText(document)
    BY DEF Record!RecordInit, Record!IsRecord
<1> QED BY <1>4, <1>5, <1>8, <1>9 DEF RecordInv, Record!Loaded

(* A setter either marks the task or leaves what is in a file alone.       *)
LEMMA SetStatusInv ==
    ASSUME Record!IsRecord, RecordInv, Record!SetStatus
    PROVE  RecordInv'
<1>1. StatusInv'
    BY StatusNextInv DEF RecordInv, Record!SetStatus
<1>2. record'.est \in Record!WholeTimes
    <2>1. record \in Record!Task /\ record.est \in Record!WholeTimes /\ Amounts \subseteq Record!WholeTimes
        BY DEF RecordInv, StatusInv, Record!StatusTypeOK, Record!IsRecord
    <2>2. CASE Record!SyncClock
        <3>1. PICK c \in Ticks : record' = Record!Evaluated([record EXCEPT !.synced = c])
            BY <2>2 DEF Record!SyncClock, Record!Evaluates
        <3>2. [record EXCEPT !.synced = c] \in Record!Task /\ [record EXCEPT !.synced = c].est = record.est
            BY <2>1 DEF Record!Task
        <3> QED BY <2>1, <3>1, <3>2, EvaluatedIsDerived
    <2>3. CASE Record!SetOrigStatus
        <3>1. PICK s \in {"todo", "done"} : record' = Record!Evaluated([record EXCEPT !.orig = s])
            BY <2>3 DEF Record!SetOrigStatus, Record!Evaluates
        <3>2. [record EXCEPT !.orig = s] \in Record!Task /\ [record EXCEPT !.orig = s].est = record.est
            BY <2>1 DEF Record!Task, Record!Statuses
        <3> QED BY <2>1, <3>1, <3>2, EvaluatedIsDerived
    <2>4. CASE Record!SetStartTime
        <3>1. PICK s \in StatedTimes : record' = Record!Evaluated([record EXCEPT !.start = s])
            BY <2>4 DEF Record!SetStartTime, Record!Evaluates
        <3>2. [record EXCEPT !.start = s] \in Record!Task /\ [record EXCEPT !.start = s].est = record.est
            BY <2>1 DEF Record!Task
        <3> QED BY <2>1, <3>1, <3>2, EvaluatedIsDerived
    <2>5. CASE Record!Defer
        <3>1. PICK p \in StatedTimes : record' = Record!Evaluated([Record!Evaluated([record EXCEPT !.pend = p]) EXCEPT !.orig = "pending"])
            BY <2>5 DEF Record!Defer, Record!Evaluates
        <3> DEFINE u == [record EXCEPT !.pend = p]
                   v == [Record!Evaluated(u) EXCEPT !.orig = "pending"]
        <3>2. u \in Record!Task /\ u.est = record.est
            BY <2>1 DEF Record!Task
        <3>3. Record!Evaluated(u) \in Record!Task /\ Record!Evaluated(u).est = record.est
            <4> HIDE DEF u
            <4> QED BY <3>2, EvaluatedIsDerived
        <3>4. v \in Record!Task /\ v.est = record.est
            <4> HIDE DEF u
            <4> QED BY <3>3 DEF Record!Task, Record!Statuses
        <3> QED BY <2>1, <3>1, <3>4, EvaluatedIsDerived
    <2>6. CASE Record!SetDeadlineTime \/ Record!UnsetDeadlineTime
        <3>1. record'.est = record.est
            BY <2>1, <2>6 DEF Record!SetDeadlineTime, Record!UnsetDeadlineTime, Record!LeavesStatus, Record!Hastened, Record!Task
        <3> QED BY <2>1, <3>1
    <2>7. CASE Record!SetEstimate
        BY <2>1, <2>7 DEF Record!SetEstimate, Record!LeavesStatus, Record!Task
    <2>8. CASE Record!SetActual
        BY <2>1, <2>8 DEF Record!SetActual, Record!LeavesStatus, Record!Task
    <2>9. CASE Record!MakeAppointment
        <3>1. PICK s \in StatedTimes :
                  record' = Record!Evaluated([Record!Hastened([record EXCEPT !.ddl = NoTime], s + record.est) EXCEPT !.start = s])
            BY <2>9 DEF Record!MakeAppointment, Record!Evaluates
        <3> DEFINE u == [record EXCEPT !.ddl = NoTime]
                   h == Record!Hastened(u, s + record.est)
                   v == [h EXCEPT !.start = s]
        <3>2. u \in Record!Task /\ u.est = record.est /\ s + record.est \in Int
            BY <2>1 DEF Record!Task
        <3>3. h \in Record!Task /\ h.est = record.est
            <4> HIDE DEF u
            <4>1. h \in Record!Task
                BY <3>2, AdvancedTask
            <4>2. h.est = u.est
                BY <3>2 DEF Record!Hastened, Record!Task
            <4> QED BY <3>2, <4>1, <4>2
        <3>4. v \in Record!Task /\ v.est = record.est
            <4> HIDE DEF h
            <4> QED BY <3>3 DEF Record!Task
        <3> QED BY <2>1, <3>1, <3>4, EvaluatedIsDerived
    <2> QED BY <2>2, <2>3, <2>4, <2>5, <2>6, <2>7, <2>8, <2>9 DEF Record!SetStatus, Record!StatusNext
<1>3. more' = more /\ document' = document /\ loading' = loading
      /\ (~ dirty' => ~ dirty /\ Record!Persistent(record') = Record!Persistent(record))
    BY DEF Record!SetStatus, Record!Touch, RecordInv, More
<1>4. ASSUME Record!Loaded', ~ dirty' PROVE InFile'
    <2>1. InFile /\ Record!Persistent(record') = Record!Persistent(record)
        BY <1>3, <1>4 DEF RecordInv, Record!Loaded
    <2>2. Record!Written(record', more) = Record!Written(record, more)
        BY <2>1, WrittenSame
    <2> QED BY <1>3, <2>1, <2>2 DEF InFile
<1>5. Record!IsText(document)' /\ (more \in More)' /\ OwnMore(more)'
    BY <1>3 DEF RecordInv
<1> QED BY <1>1, <1>2, <1>4, <1>5 DEF RecordInv

LEMMA SetMoreInv ==
    ASSUME Record!IsRecord, RecordInv, NEW m \in More, OwnMore(m), Record!SetMore(m)
    PROVE  RecordInv'
<1>1. /\ more' = m /\ document' = document /\ loading' = loading /\ UNCHANGED Record!statusVars
      /\ (~ dirty' => ~ dirty /\ more' = more)
    BY DEF Record!SetMore, Record!Touch
<1>2. record' = record /\ fresh' = fresh
    BY <1>1 DEF Record!statusVars
<1>3. StatusInv'
    BY <1>2 DEF RecordInv, StatusInv, Record!StatusTypeOK, Derived, Record!Clamped, Record!DerivedStatus, Record!DeadlineNear, Record!WaitIsOver
<1>4. ASSUME Record!Loaded', ~ dirty' PROVE InFile'
    BY <1>1, <1>2, <1>4 DEF RecordInv, Record!Loaded, InFile
<1> QED BY <1>1, <1>2, <1>3, <1>4 DEF RecordInv

(* What is loaded is what the file says.                                   *)
LEMMA LoadInv ==
    ASSUME Record!IsRecord, RecordInv, NEW clock \in Ticks, Record!Load(clock)
    PROVE  RecordInv'
<1>1. document' = document
    BY DEF Record!Load
<1>2. CASE ~ Record!IsTaken(document)
    <2>1. loading' = "refused" /\ UNCHANGED <<record, fresh, more>>
        BY <1>2 DEF Record!Load, Record!statusVars
    <2>2. StatusInv'
        BY <2>1 DEF RecordInv, StatusInv, Record!StatusTypeOK, Derived, Record!Clamped, Record!DerivedStatus, Record!DeadlineNear, Record!WaitIsOver
    <2> QED BY <1>1, <2>1, <2>2 DEF RecordInv, Record!Loaded
<1>3. CASE Record!IsTaken(document)
    <2> DEFINE g == Record!Got(document, clock)
               t == Record!ReadTask(g, clock)
    <2>1. clock \in Int /\ g \in Gotten /\ more.root \in BOOLEAN
        BY <1>3, GotIs, RecordAssumption DEF RecordInv, More
    <2>2. t = Record!Evaluated(Base(g, clock)) /\ Base(g, clock) \in Record!Task /\ Base(g, clock).est = g.est
        <3>1. Base(g, clock) \in Record!Task
            BY <2>1 DEF Base, Record!IsRecord, Gotten, Record!Task, Record!WholeTimes, Record!Statuses
        <3> QED BY <3>1, ReadIsBase DEF Base
    <2>3. t \in Record!Task /\ Derived(t) /\ t.est = g.est
        BY <2>2, EvaluatedIsDerived
    <2>4. record' = t /\ fresh' = TRUE /\ more' = Record!ReadMore(g, more.root)
        BY <1>3, <2>3, EvaluatedOnce DEF Record!Load, Record!Evaluates
    <2>5. StatusInv'
        <3>1. Record!Evaluates(t)
            BY <1>3 DEF Record!Load
        <3> QED BY <2>3, <3>1, EvaluatesInv
    <2>6. record'.est \in Record!WholeTimes
        BY <2>1, <2>3, <2>4 DEF Gotten
    <2>7. more' \in More /\ OwnMore(more)'
        BY <2>1, <2>4, ReadIs
    <2>8. more'.root = more.root
        BY <2>4 DEF Record!ReadMore
    <2>9. InFile'
        <3>1. Record!Persistent(record') = Record!Persistent(t) /\ more' = Record!ReadMore(g, more'.root)
            BY <2>4, <2>8
        <3> QED BY <1>1, <1>3, <2>1, <3>1 DEF InFile
    <2>10. Record!IsText(document')
        BY <1>1 DEF RecordInv
    <2> QED BY <2>5, <2>6, <2>7, <2>9, <2>10 DEF RecordInv
<1> QED BY <1>2, <1>3

LEMMA RecordNextInv == Record!IsRecord /\ RecordInv /\ [Record!RecordNext]_(Record!recordVars) => RecordInv'
<1> SUFFICES ASSUME Record!IsRecord, RecordInv, [Record!RecordNext]_(Record!recordVars) PROVE RecordInv'
    OBVIOUS
<1>0. more \in More /\ OwnMore(more)
    BY DEF RecordInv
<1>1. CASE \E clock \in Ticks : Record!Load(clock)
    BY <1>1, LoadInv
<1>2. CASE Record!SetStatus
    BY <1>2, SetStatusInv
<1>3. CASE Record!WaitForOthers
    <2>1. [more EXCEPT !.side = TRUE] \in More /\ OwnMore([more EXCEPT !.side = TRUE])
        BY <1>0 DEF More, OwnMore
    <2> QED BY <1>3, <2>1, SetMoreInv DEF Record!WaitForOthers
<1>4. CASE Record!SetPriority
    <2>1. [more EXCEPT !.prio = 1] \in More /\ OwnMore([more EXCEPT !.prio = 1])
        BY <1>0, <1>4 DEF More, OwnMore, Record!SetPriority
    <2> QED BY <1>4, <2>1, SetMoreInv DEF Record!SetPriority
<1>5. CASE Record!SetCategory
    <2>1. PICK c \in {"none", "earning"} : Record!SetMore([more EXCEPT !.category = c]) /\ more.root
        BY <1>5 DEF Record!SetCategory
    <2>2. [more EXCEPT !.category = c] \in More /\ OwnMore([more EXCEPT !.category = c])
        BY <1>0, <2>1 DEF More, OwnMore
    <2> QED BY <2>1, <2>2, SetMoreInv
<1>6. CASE Record!Finish
    <2>1. record \in Record!Task /\ record.est \in Record!WholeTimes
        BY DEF RecordInv, StatusInv, Record!StatusTypeOK
    <2> DEFINE u == [record EXCEPT !.orig = "done"]
    <2>2. u \in Record!Task /\ u.est = record.est
        BY <2>1 DEF Record!Task, Record!Statuses
    <2>3. Record!Evaluates(u) /\ record' = Record!Evaluated(u)
        BY <1>6 DEF Record!Finish, Record!Evaluates
    <2>4. StatusInv' /\ record'.est \in Record!WholeTimes
        <3> HIDE DEF u
        <3> QED BY <2>1, <2>2, <2>3, EvaluatesInv, EvaluatedIsDerived
    <2>5. /\ more' = [more EXCEPT !.end = record.synced] /\ document' = document /\ loading' = loading
          /\ (~ dirty' => ~ dirty /\ Record!Persistent(record') = Record!Persistent(record) /\ more' = more)
        BY <1>6 DEF Record!Finish, Record!Touch
    <2>6. more' \in More /\ OwnMore(more)'
        BY <1>0, <2>1, <2>5 DEF More, OwnMore, Record!Task
    <2>7. ASSUME Record!Loaded', ~ dirty' PROVE InFile'
        <3>1. InFile /\ Record!Persistent(record') = Record!Persistent(record) /\ more' = more
            BY <2>5, <2>7 DEF RecordInv, Record!Loaded
        <3>2. Record!Written(record', more) = Record!Written(record, more)
            BY <3>1, WrittenSame
        <3> QED BY <2>5, <3>1, <3>2 DEF InFile
    <2> QED BY <2>4, <2>5, <2>6, <2>7 DEF RecordInv
<1>7. CASE Record!Save
    <2>1. record' = record /\ fresh' = fresh /\ more' = more /\ Record!Loaded
          /\ document' = IF dirty THEN Record!Written(record, more) ELSE document
        BY <1>7 DEF Record!Save, Record!statusVars
    <2>2. StatusInv'
        BY <2>1 DEF RecordInv, StatusInv, Record!StatusTypeOK, Derived, Record!Clamped, Record!DerivedStatus, Record!DeadlineNear, Record!WaitIsOver
    <2>3. Record!IsText(document') /\ InFile'
        <3>1. CASE dirty
            <4>1. record \in Record!Task /\ record.est \in Record!WholeTimes
                BY DEF RecordInv, StatusInv, Record!StatusTypeOK
            <4>2. Record!IsText(Record!Written(record, more))
                BY <1>0, <4>1, WrittenIs
            <4> QED BY <2>1, <3>1, <4>2 DEF InFile
        <3>2. CASE ~ dirty
            <4>1. InFile /\ Record!IsText(document)
                BY <2>1, <3>2 DEF RecordInv
            <4>2. document' = document
                BY <2>1, <3>2
            <4> QED BY <2>1, <4>1, <4>2 DEF InFile
        <3> QED BY <3>1, <3>2
    <2> QED BY <2>1, <2>2, <2>3 DEF RecordInv
<1>8. CASE UNCHANGED Record!recordVars
    <2>1. UNCHANGED <<record, fresh, more, document, dirty, loading>>
        BY <1>8 DEF Record!recordVars, Record!statusVars
    <2>2. StatusInv'
        BY <2>1 DEF RecordInv, StatusInv, Record!StatusTypeOK, Derived, Record!Clamped, Record!DerivedStatus, Record!DeadlineNear, Record!WaitIsOver
    <2> QED BY <2>1, <2>2 DEF RecordInv, Record!Loaded, InFile
<1> QED BY <1>1, <1>2, <1>3, <1>4, <1>5, <1>6, <1>7, <1>8 DEF Record!RecordNext


LEMMA RoundedIs ==
    ASSUME NEW t \in Record!Task
    PROVE  /\ Record!Rounded(t).start = Record!Whole(t.start) /\ Record!Rounded(t).pend = Record!Whole(t.pend)
           /\ Record!Rounded(t).ddl = Record!Whole(t.ddl)
BY DEF Record!Rounded, Record!Task

LEMMA EndWhole ==
    ASSUME NEW m \in More, Record!Whole(m.end) = m.end
    PROVE  [m EXCEPT !.end = Record!Whole(@)] = m
BY DEF More

(* Another process sees what this one has: either what it wrote or what it *)
(* read itself.                                                            *)
LEMMA SeenInv == Record!IsRecord /\ RecordInv => Record!SavedIsSeen
<1> SUFFICES ASSUME Record!IsRecord, RecordInv, Record!Loaded, ~ dirty, fresh, record.orig # "done", more.interval = 0,
                    "start" \in DOMAIN document
             PROVE  LET seen == Record!SeenBy(document, record.synced)
                    IN  /\ seen.more = [more EXCEPT !.end = Record!Whole(@)]
                        /\ Record!Rounded(record) = record => seen.task = record
                        /\ seen.task.start = Record!Whole(record.start) /\ seen.task.ddl = Record!Whole(record.ddl)
    BY DEF Record!SavedIsSeen
<1> DEFINE clock == record.synced
           g == Record!Got(document, clock)
           t == Record!ReadTask(g, clock)
           m == Record!ReadMore(g, more.root)
<1>1. Record!SeenBy(document, record.synced).task = t /\ Record!SeenBy(document, record.synced).more = m
    BY DEF Record!SeenBy
<1>2. /\ record \in Record!Task /\ Derived(record) /\ more \in More /\ OwnMore(more) /\ Record!IsText(document) /\ InFile
      /\ clock \in Int /\ more.root \in BOOLEAN
    BY DEF RecordInv, StatusInv, Record!StatusTypeOK, Record!Task, More
<1>3. CASE document = Record!Written(record, more)
    <2>1. g = Record!Told(record, more)
        BY <1>2, <1>3, GotWritten
    <2>2. /\ g.status = record.orig /\ g.start = Record!Whole(record.start) /\ g.pend = Record!Whole(record.pend)
          /\ g.ddl = Record!Whole(record.ddl) /\ g.est = record.est /\ g.act = record.act /\ g.interval = 0
          /\ g.side = more.side /\ g.atomic = more.atomic /\ g.prio = more.prio
          /\ g.category = more.category /\ g.end = Record!Whole(more.end) /\ g.anchor = more.anchor
          /\ g.advance = more.advance
        <3> HIDE DEF g
        <3> QED BY <2>1 DEF Record!Told
    <2>3. m = [more EXCEPT !.end = Record!Whole(@)]
        <3> HIDE DEF g
        <3> QED BY <1>2, <2>2 DEF Record!ReadMore, OwnMore, More
    <2> DEFINE b == Base(g, clock)
    <2>4. /\ b.orig = record.orig /\ b.start = Record!Whole(record.start) /\ b.pend = Record!Whole(record.pend)
          /\ b.ddl = Record!Whole(record.ddl) /\ b.est = record.est /\ b.act = record.act /\ b.synced = clock
        <3> HIDE DEF g, clock
        <3> QED BY <2>2 DEF Base
    <2>5. b \in Record!Task
        <3>1. Record!Whole(record.start) \in Int /\ Record!Whole(record.pend) \in Int /\ Record!Whole(record.ddl) \in Int \cup {NoTime}
            BY <1>2, WholeIsWhole DEF Record!Task, Record!Whole, Record!WholeTimes
        <3>2. b = [orig |-> b.orig, status |-> "todo", start |-> b.start, pend |-> b.pend,
                   ddl |-> b.ddl, est |-> b.est, act |-> b.act, synced |-> b.synced]
            BY DEF Base
        <3> HIDE DEF b
        <3> QED BY <1>2, <2>4, <3>1, <3>2 DEF Record!Task, Record!Statuses
    <2>6. t = Record!Evaluated(b)
        BY ReadIsBase
    <2>7. t.start = Record!Whole(record.start) /\ t.ddl = Record!Whole(record.ddl)
        <3> HIDE DEF b
        <3> QED BY <2>4, <2>5, <2>6, EvaluatedIsDerived
    <2>8. ASSUME Record!Rounded(record) = record PROVE t = record
        <3>1. Record!Whole(record.start) = record.start /\ Record!Whole(record.pend) = record.pend /\ Record!Whole(record.ddl) = record.ddl
            BY <1>2, <2>8, RoundedIs
        <3> HIDE DEF b
        <3>2. Record!Clamped(b) = Record!Clamped(record)
            BY <2>4, <3>1 DEF Record!Clamped
        <3>3. Record!Persistent(t) = Record!Persistent(record) /\ t.synced = record.synced
            BY <1>2, <2>4, <2>5, <2>6, <3>1, <3>2, EvaluatedIsDerived, EvaluatedPend DEF Record!Persistent, Derived
        <3>4. t \in Record!Task /\ Derived(t)
            BY <2>5, <2>6, EvaluatedIsDerived
        <3> HIDE DEF t
        <3> QED BY <1>2, <3>3, <3>4, SameStatus
    <2> HIDE DEF t, m
    <2> QED BY <1>1, <2>3, <2>7, <2>8
<1>4. ASSUME Record!IsTaken(document), NEW n \in Int, Record!Persistent(record) = Record!Persistent(Record!ReadTask(Record!Got(document, n), n)),
             more = Record!ReadMore(Record!Got(document, n), more.root)
      PROVE  m = more /\ Record!Whole(more.end) = more.end /\ t = record
             /\ Record!Whole(record.start) = record.start /\ Record!Whole(record.ddl) = record.ddl
    <2>1. g \in Gotten /\ g.start \in Record!WholeTimes /\ Record!Got(document, n) = g
          /\ Record!Persistent(t) = Record!Persistent(Record!ReadTask(Record!Got(document, n), n))
        BY <1>2, <1>4, GotIs, ReadAnyTime
    <2>2. m = more
        BY <1>4, <2>1
    <2>3. Record!Whole(more.end) = more.end
        <3>1. m.end = g.end
            BY DEF Record!ReadMore
        <3>2. g.end \in Record!WholeTimes \cup {NoTime}
            BY <2>1 DEF Gotten
        <3> QED BY <2>2, <3>1, <3>2, WholeIsWhole DEF Record!Whole, Record!WholeTimes
    <2> DEFINE b == Base(g, clock)
    <2>4. b \in Record!Task /\ b.start \in Record!WholeTimes /\ b.ddl \in Record!WholeTimes \cup {NoTime} /\ t = Record!Evaluated(b)
        BY <1>2, <2>1, BaseIs, ReadIsBase
    <2>5. b.synced = clock
        BY DEF Base
    <2>6. t \in Record!Task /\ Derived(t) /\ t.synced = clock /\ t.start = b.start /\ t.ddl = b.ddl
        <3> HIDE DEF b, t
        <3> QED BY <2>4, <2>5, EvaluatedIsDerived
    <2>7. t = record
        BY <1>2, <1>4, <2>1, <2>6, SameStatus
    <2>8. Record!Whole(record.start) = record.start /\ Record!Whole(record.ddl) = record.ddl
        <3>1. record.start \in Record!WholeTimes /\ record.ddl \in Record!WholeTimes \cup {NoTime}
            BY <2>4, <2>6, <2>7
        <3> QED BY <3>1, WholeIsWhole DEF Record!Whole, Record!WholeTimes
    <2> QED BY <2>2, <2>3, <2>7, <2>8
<1>5. CASE document # Record!Written(record, more)
    <2>1. PICK n \in Int : Record!IsTaken(document) /\ Record!Persistent(record) = Record!Persistent(Record!ReadTask(Record!Got(document, n), n))
                           /\ more = Record!ReadMore(Record!Got(document, n), more.root)
        BY <1>2, <1>5 DEF InFile
    <2>2. m = more /\ Record!Whole(more.end) = more.end /\ t = record
             /\ Record!Whole(record.start) = record.start /\ Record!Whole(record.ddl) = record.ddl
        BY <1>4, <2>1
    <2>3. [more EXCEPT !.end = Record!Whole(@)] = more
        BY <1>2, <2>2, EndWhole
    <2> HIDE DEF t, m
    <2> QED BY <1>1, <2>2, <2>3
<1> QED BY <1>3, <1>5

LEMMA SettlesInv == Record!IsRecord /\ RecordInv => Record!ReadingSettles
<1> SUFFICES ASSUME Record!IsRecord, RecordInv, Record!IsTaken(document), "start" \in DOMAIN document
             PROVE  LET once == Record!SeenBy(document, record.synced)
                        again == Record!Written(once.task, once.more)
                    IN  Record!IsTaken(again) /\ Record!SeenBy(again, record.synced) = once
    BY DEF Record!ReadingSettles
<1>1. record.synced \in Int /\ more.root \in BOOLEAN /\ Record!IsText(document)
    BY DEF RecordInv, StatusInv, Record!StatusTypeOK, Record!Task, More
<1> QED BY <1>1, Settles DEF Record!SeenBy

-----------------------------------------------------------------------------
(***************************************************************************)
(* All of it: the trees that commands change, their files and the focus.   *)
(***************************************************************************)
ProjectsInv ==
    /\ part = "tree" => TypeOK
    /\ part = "file" => FileIInv
    /\ part = "record" => RecordInv
    /\ part = "focus" => SelectionInv

LEMMA ProjectsInvariance == ProjectsSpec => []ProjectsInv
<1> USE FocusAssumption
<1>1. ProjectsInit => ProjectsInv
    BY InitTypes, FileInitInv, RecordInitInv, SelectionInvHolds DEF ProjectsInit, ProjectsInv
<1>2. ProjectsInv /\ [ProjectsNext]_projectVars => ProjectsInv'
    <2> SUFFICES ASSUME ProjectsInv, [ProjectsNext]_projectVars PROVE ProjectsInv'
        OBVIOUS
    <2>1. CASE part = "tree" /\ Next /\ part' = part
        BY <2>1, CreateKeepsTypes, ChangeKeepsTypes DEF Next, ProjectsInv
    <2>2. CASE part = "file" /\ FileNext /\ part' = part
        BY <2>2, FileStep DEF ProjectsInv
    <2>3. CASE part = "record" /\ Record!RecordNext /\ part' = part
        BY <2>3, RecordNextInv DEF ProjectsInv
    <2>4. CASE part = "focus" /\ Focus!Next /\ part' = part
        BY <2>4, SelectionInvHolds DEF ProjectsInv
    <2>5. CASE UNCHANGED projectVars
        <3>1. part' = part /\ UNCHANGED fileVars /\ UNCHANGED Focus!selectionVars /\ UNCHANGED Record!recordVars
            BY <2>5 DEF projectVars, focusVars, recordVars, Focus!selectionVars, Record!recordVars, Record!statusVars
        <3>2. TypeOK => TypeOK'
            BY <3>1 DEF fileVars, TypeOK, EstimatesCount, Tasks
        <3> QED BY <3>1, <3>2, FileAtRest, RecordNextInv, SelectionInvHolds DEF ProjectsInv
    <2> QED BY <2>1, <2>2, <2>3, <2>4, <2>5 DEF ProjectsNext
<1> QED BY <1>1, <1>2, PTL DEF ProjectsSpec

(* No command takes away from the walk to the leaves an open task that the *)
(* walk reached, and it reaches what is put below one that it reached; the *)
(* focus that a session computes is one InteractiveShell leaves open,      *)
(* since the walk finds the leaves it means and each mode chooses one of   *)
(* them, with what is put forward to be put off at hand and the list of    *)
(* leaves ending in the focus; and what is put off beyond the threshold is *)
(* not put forward again while the rest is, one after the other, until     *)
(* none is left: for any trees, any forest, any times and any number of    *)
(* days.                                                                   *)
THEOREM AllStaysInSight == ProjectsSpec => StaysInSightOfAll
<1> USE FocusAssumption
<1>1. ProjectsInv /\ [ProjectsNext]_projectVars => [part # "file" => KeepsInSight /\ AddsInSight]_projectVars
    <2> SUFFICES ASSUME ProjectsInv, ProjectsNext, part # "file" PROVE KeepsInSight /\ AddsInSight
        OBVIOUS
    <2>1. CASE part = "tree" /\ Next
        BY <2>1, CreateKeepsInSight, ChangeKeepsInSight, CreateAddsInSight, ChangeAddsInSight
           DEF Next, ProjectsInv
    <2>2. CASE task' = task
        BY <2>2 DEF KeepsInSight, AddsInSight, InSight, Reach, Tasks, Open, Done, Children
    <2> QED BY <2>1, <2>2 DEF ProjectsNext, fileVars
<1>2. ProjectsInv => (part = "focus" => Focus!SelectionIsSound)
    BY SelectionSoundThen DEF ProjectsInv
<1>3. ProjectsInv => (part = "focus" => Focus!SiftGoesOn)
    BY DeferSifts DEF ProjectsInv
<1> QED BY <1>1, <1>2, <1>3, ProjectsInvariance, PTL DEF ProjectsSpec, StaysInSightOfAll

(* What is saved is read back: a project without a mark has the tasks of   *)
(* its file, the work on them, and every open task that is no routine as   *)
(* it is; what a process has saved of a task another one reads, attribute  *)
(* by attribute and with the status derived from them; and what a process  *)
(* makes of any file it takes is what the next one makes of it: for any    *)
(* file, edited by hand or not, any times, and any commands in between.    *)
THEOREM WhatIsSavedIsRead == ProjectsSpec => []SavedIsRead
<1>1. ProjectsInv => SavedIsRead
    BY SeenInv, SettlesInv DEF ProjectsInv, SavedIsRead, FileIInv, Record!RecordIsKept
<1> QED BY <1>1, ProjectsInvariance, PTL

=============================================================================
