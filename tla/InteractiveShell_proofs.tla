----------------------- MODULE InteractiveShell_proofs -----------------------
(***************************************************************************)
(* Proofs about InteractiveShell, for any tasks, any forest and any time.  *)
(***************************************************************************)
EXTENDS InteractiveShell, TLAPS

-----------------------------------------------------------------------------
(***************************************************************************)
(* The focus at the prompt                                                 *)
(***************************************************************************)
\* What FocusSound says of a copy v and a selection s.
Sound(v, s) ==
    /\ s.focus # NoTask => v[s.focus] # "absent"
    /\ s.focus # NoTask /\ v[s.focus] = "done" => s.mode = "explicit"
    /\ s.mode = "explicit" => s.focus # NoTask
    /\ s.mode = "highest" /\ s.focus = NoTask => Leaves(v, {"todo"}) = {}

\* A selection with its two fields, whatever is in focus.
IsSelection(s) == s = [focus |-> s.focus, mode |-> s.mode] /\ s.mode \in Modes

\* No candidate is absent or finished, and the highest-priority mode has none
\* only if there is nothing to do.
LEMMA CandidatesSound ==
    ASSUME NEW v, NEW mode \in {"highest", "lowest"}, NEW t \in Candidates(v, mode)
    PROVE  Sound(v, [focus |-> t, mode |-> mode])
<1>1. \A u \in Leaves(v, Open) : u \in Tasks /\ v[u] \in Open
  BY DEF Leaves
<1>2. \A u \in Leaves(v, {"todo"}) : u \in Tasks /\ v[u] = "todo"
  BY DEF Leaves
<1>3. CASE mode = "lowest"
  <2>1. t \in Leaves(v, Open) \cup {NoTask}
    BY <1>3 DEF Candidates
  <2>2. QED
    BY <1>1, <1>3, <2>1 DEF Sound, Open
<1>4. CASE mode = "highest"
  <2>1. t \in IF Leaves(v, {"todo"}) = {} THEN {NoTask} ELSE Leaves(v, {"todo"})
    BY <1>4 DEF Candidates
  <2>2. QED
    BY <1>2, <1>4, <2>1, TreeAssumption DEF Sound
<1>5. QED
  BY <1>3, <1>4

\* Whatever the selection was before, reconciling it makes it sound.
LEMMA ReconciledSound ==
    ASSUME NEW v, NEW s, IsSelection(s), NEW r \in Reconciled(v, s)
    PROVE  Sound(v, r) /\ IsSelection(r)
<1>1. CASE ~Reselects(v, s)
  <2>1. r = s
    BY <1>1 DEF Reconciled
  <2>2. QED
    BY <1>1, <2>1 DEF Reselects, Sound, IsSelection
<1>2. CASE Reselects(v, s)
  <2> DEFINE mode == IF s.mode = "explicit" THEN "highest" ELSE s.mode
  <2>1. mode \in {"highest", "lowest"}
    BY DEF IsSelection, Modes
  <2>2. PICK t \in Candidates(v, mode) : r = [focus |-> t, mode |-> mode]
    BY <1>2 DEF Reconciled
  <2> HIDE DEF mode
  <2>3. QED
    BY <2>1, <2>2, CandidatesSound DEF IsSelection, Modes
<1>3. QED
  BY <1>1, <1>2

\* No command leaves an unknown selection mode: most do not touch the mode.
LEMMA FocusingMode ==
    ASSUME NEW v, NEW s, IsSelection(s), NEW t
    PROVE  IsSelection(Focusing(v, s, t).sel)
BY DEF IsSelection, Focusing, Outcome

LEMMA OutcomesMode ==
    ASSUME NEW v, NEW s, IsSelection(s), NEW o \in Outcomes(v, s)
    PROVE  IsSelection(o.sel)
<1>1. CASE o \in Shows(v, s)
  BY <1>1 DEF Shows, Outcome
<1>2. CASE o \in FocusesTask(v, s) \cup ChangesMode(v, s)
  BY <1>2 DEF FocusesTask, ChangesMode, Outcome, IsSelection, Modes
<1>3. CASE o \in Unfocuses(v, s) \cup AddsWork(v, s)
  BY <1>3, FocusingMode DEF Unfocuses, AddsWork
<1>4. CASE o \in Picks(v, s)
  BY <1>4 DEF Picks, Focusing, Outcome, IsSelection
<1>5. CASE o \in Moves(v, s)
  BY <1>5 DEF Moves, Focusing, Outcome, IsSelection
<1>6. CASE o \in Finishes(v, s)
  BY <1>6 DEF Finishes, Focusing, Outcome, IsSelection
<1>7. CASE o \in Defers(v, s)
  BY <1>7 DEF Defers, Focusing, Outcome, IsSelection
<1>8. CASE o \in StartsProject(v, s)
  BY <1>8 DEF StartsProject, Focusing, Outcome, IsSelection
<1>9. CASE o \in BreaksDown(v, s)
  BY <1>9 DEF BreaksDown, Focusing, Outcome, IsSelection
<1>10. CASE o \in Reschedules(v, s)
  BY <1>10 DEF Reschedules, Focusing, Outcome, IsSelection
<1>11. CASE o \in Lists(v, s)
  BY <1>11, FocusingMode DEF Lists
<1>12. QED
  BY <1>1, <1>2, <1>3, <1>4, <1>5, <1>6, <1>7, <1>8, <1>9, <1>10, <1>11 DEF Outcomes

\* The focus the shell comes up with, and what a line makes of it.
FocusInv == IsSelection(sel) /\ (Running => Sound(view, sel))

LEMMA FocusInit == Init => FocusInv
BY DEF Init, FocusInv, IsSelection, Modes, Running

LEMMA FocusStep == FocusInv /\ [Next]_vars => FocusInv'
<1> SUFFICES ASSUME FocusInv, [Next]_vars PROVE FocusInv'
  OBVIOUS
<1>1. ASSUME Start PROVE FocusInv'
  <2>1. PICK t \in Candidates(disk, "highest") : sel' = [focus |-> t, mode |-> "highest"]
    BY <1>1 DEF Start
  <2>2. Sound(disk, sel')
    BY <2>1, CandidatesSound
  <2>3. view' = disk
    BY <1>1 DEF Start
  <2>4. QED
    BY <2>1, <2>2, <2>3 DEF FocusInv, IsSelection, Modes, Sound, Leaves, Children, Present,
         Absent, UndoneChildren
<1>2. ASSUME Submit PROVE FocusInv'
  <2>1. PICK s \in Reconciled(disk, sel) : \E o \in Outcomes(disk, s) :
           \E r \in Reconciled(o.tasks, o.sel) : view' = o.tasks /\ sel' = r
    BY <1>2 DEF Submit
  <2>2. PICK o \in Outcomes(disk, s) :
           \E r \in Reconciled(o.tasks, o.sel) : view' = o.tasks /\ sel' = r
    BY <2>1
  <2>3. IsSelection(o.sel)
    BY <2>1, <2>2, ReconciledSound, OutcomesMode DEF FocusInv
  <2>4. view' = o.tasks /\ Sound(o.tasks, sel') /\ IsSelection(sel')
    BY <2>2, <2>3, ReconciledSound
  <2>5. QED
    BY <2>4 DEF FocusInv, IsSelection, Sound, Leaves, Children, Present, Absent, UndoneChildren
<1>3. ASSUME Refresh \/ ExitFails PROVE FocusInv'
  <2>1. view' = disk /\ sel' \in Reconciled(disk, sel)
    BY <1>3 DEF Refresh, ExitFails
  <2>2. Sound(disk, sel') /\ IsSelection(sel')
    BY <2>1, ReconciledSound DEF FocusInv
  <2>3. QED
    BY <2>1, <2>2 DEF FocusInv, IsSelection, Sound, Leaves, Children, Present, Absent,
         UndoneChildren
<1>4. ASSUME SubmitFails \/ SubmitRejected \/ Exit \/ Abort PROVE FocusInv'
  <2>1. sel' = sel /\ ~Running'
    BY <1>4 DEF SubmitFails, SubmitRejected, Exit, Abort, focusVars, Running
  <2>2. QED
    BY <2>1 DEF FocusInv, IsSelection
<1>5. ASSUME Retry \/ Others \/ Tick \/ UNCHANGED vars PROVE FocusInv'
  <2>1. sel' = sel /\ view' = view /\ session' = session
    BY <1>5 DEF Retry, Others, Tick, vars, focusVars
  <2>2. QED
    BY <2>1 DEF FocusInv, IsSelection, Running, Sound, Leaves, Children, Present, Absent,
         UndoneChildren
<1>6. QED
  BY <1>1, <1>2, <1>3, <1>4, <1>5 DEF Next, User

LEMMA FocusInvariant == Spec => []FocusInv
BY FocusInit, FocusStep, PTL DEF Spec

\* At every prompt the focus is there, is finished only on explicit wish, and
\* is missing in the highest-priority mode only if nothing is to do
\* (reconcile_focus_after_reload).
THEOREM FocusSoundness == Spec => []FocusSound
<1>1. FocusInv => FocusSound
  BY DEF FocusInv, FocusSound, Sound
<1>2. QED
  BY <1>1, FocusInvariant, PTL

-----------------------------------------------------------------------------
(***************************************************************************)
(* The focus on the screen                                                 *)
(***************************************************************************)
\* A focus other than the shown one is explained by what a reload found.
ShownInv ==
    /\ ~strayed
    /\ Running => sel.focus = shown \/ shown = NoTask \/ excused

\* Reconciling moves the focus off the shown task only with an explanation.
LEMMA ReconciledExplained ==
    ASSUME ShownInv, Running, NEW s \in Reconciled(disk, sel), s.focus # shown
    PROVE  Explains(disk)
<1>1. CASE Reselects(disk, sel)
  BY <1>1 DEF ShownInv, Reselects, Explains
<1>2. CASE ~Reselects(disk, sel)
  BY <1>2 DEF ShownInv, Reconciled, Explains
<1>3. QED
  BY <1>1, <1>2

\* Commands act on the task on the screen unless it was gone or finished when
\* the tasks were loaded (handle_interactive_submit_at).
THEOREM OnShown == Spec => []ActsOnShown
<1>1. Init => ShownInv
  BY DEF Init, ShownInv, Running
<1>2. ShownInv /\ [Next]_vars => ShownInv'
  <2> SUFFICES ASSUME ShownInv, [Next]_vars PROVE ShownInv'
    OBVIOUS
  <2>1. ASSUME Start PROVE ShownInv'
    BY <2>1 DEF Start, ShownInv
  <2>2. ASSUME Submit PROVE ShownInv'
    <3>1. PICK s \in Reconciled(disk, sel) : \E o \in Outcomes(disk, s) :
             \E r \in Reconciled(o.tasks, o.sel) :
                /\ sel' = r
                /\ shown' = r.focus
                /\ strayed' = (strayed \/ (s.focus # shown /\ ~Explains(disk)))
      BY <2>2 DEF Submit, Render
    <3>2. sel'.focus = shown'
      BY <3>1
    <3>3. strayed' = (strayed \/ (s.focus # shown /\ ~Explains(disk)))
      BY <3>1
    <3>4. s.focus # shown => Explains(disk)
      BY <2>2, <3>1, ReconciledExplained DEF Submit
    <3>5. ~strayed'
      BY <3>3, <3>4 DEF ShownInv
    <3>6. QED
      BY <3>2, <3>5 DEF ShownInv
  <2>3. ASSUME Refresh PROVE ShownInv'
    BY <2>3 DEF Refresh, Render, ShownInv
  <2>4. ASSUME ExitFails PROVE ShownInv'
    <3>1. /\ sel' \in Reconciled(disk, sel)
          /\ excused' = Explains(disk)
          /\ shown' = shown /\ strayed' = strayed
      BY <2>4 DEF ExitFails
    <3>2. sel'.focus # shown => Explains(disk)
      BY <2>4, <3>1, ReconciledExplained DEF ExitFails
    <3>3. QED
      BY <3>1, <3>2 DEF ShownInv
  <2>5. ASSUME SubmitFails \/ SubmitRejected \/ Exit \/ Abort PROVE ShownInv'
    BY <2>5 DEF SubmitFails, SubmitRejected, Exit, Abort, history, Running, ShownInv
  <2>6. ASSUME Retry \/ Others \/ Tick \/ UNCHANGED vars PROVE ShownInv'
    BY <2>6 DEF Retry, Others, Tick, vars, focusVars, history, Running, ShownInv
  <2>7. QED
    BY <2>1, <2>2, <2>3, <2>4, <2>5, <2>6 DEF Next, User
<1>3. ShownInv => ActsOnShown
  BY DEF ShownInv, ActsOnShown
<1>4. QED
  BY <1>1, <1>2, <1>3, PTL DEF Spec

-----------------------------------------------------------------------------
(***************************************************************************)
(* The clock of the focus                                                  *)
(***************************************************************************)
ClockType == started \in Nat /\ since \in Nat /\ now \in Nat

\* While every screen had a focus, the last drawn focus is the present one or
\* forgotten, and the clock is not older than the focus.
ClockInv ==
    /\ ClockType
    /\ early => lost
    /\ Running /\ ~lost =>
          /\ last \in {sel.focus, NoTask}
          /\ since <= started
          /\ started <= now

\* A reconciliation keeps the clock right.
LEMMA ClockReconciled ==
    ASSUME ClockInv, Running, ~lost, NEW s
    PROVE  /\ LastAfter(s) \in {s.focus, NoTask}
           /\ SinceAfter(s) <= StartedAfter(s)
           /\ StartedAfter(s) <= now
BY DEF ClockInv, ClockType, LastAfter, SinceAfter, StartedAfter

LEMMA ClockAfterType ==
    ASSUME ClockInv, NEW s
    PROVE  SinceAfter(s) \in Nat /\ StartedAfter(s) \in Nat
BY DEF ClockInv, ClockType, SinceAfter, StartedAfter

\* Drawing a focus other than the last one starts the clock.
LEMMA ClockRendered ==
    ASSUME ClockInv, NEW focus, NEW lastBefore, NEW startedBefore \in Nat,
           Render(focus, lastBefore, startedBefore)
    PROVE  /\ started' \in Nat
           /\ lost => lost'
           /\ ~lost' => /\ ~lost /\ focus # NoTask /\ last' = focus
                        /\ started' = IF focus = lastBefore THEN startedBefore ELSE now
BY DEF ClockInv, ClockType, Render

\* Finishing, or adding work, never charges time from before the focus came
\* to its task, in a session that always had a focus on the screen
\* (render_focused_task, reconcile_interactive_state_after_reload).
THEOREM NeverFromBefore == Spec => []NoWorkFromBefore
<1>1. Init => ClockInv
  BY DEF Init, ClockInv, ClockType, Running
<1>2. ClockInv /\ [Next]_vars => ClockInv'
  <2> SUFFICES ASSUME ClockInv, [Next]_vars PROVE ClockInv'
    OBVIOUS
  <2>1. ASSUME Start PROVE ClockInv'
    BY <2>1 DEF Start, ClockInv, ClockType
  <2>2. ASSUME Submit PROVE ClockInv'
    <3>1. PICK s \in Reconciled(disk, sel) : \E o \in Outcomes(disk, s) :
             \E r \in Reconciled(o.tasks, o.sel) :
                /\ sel' = r
                /\ Render(r.focus, IF r.focus # o.sel.focus THEN NoTask ELSE LastAfter(s),
                          StartedAfter(s))
                /\ since' = IF o.sel.focus # s.focus \/ r.focus # o.sel.focus
                            THEN now ELSE SinceAfter(s)
                /\ early' = (early \/ (s.focus # NoTask /\ StartedAfter(s) < SinceAfter(s)))
      BY <2>2 DEF Submit
    <3>2. PICK given, lastBefore :
             /\ lastBefore = IF sel'.focus # given THEN NoTask ELSE LastAfter(s)
             /\ Render(sel'.focus, lastBefore, StartedAfter(s))
             /\ since' = IF given # s.focus \/ sel'.focus # given
                         THEN now ELSE SinceAfter(s)
      BY <3>1
    <3>3. early' = (early \/ (s.focus # NoTask /\ StartedAfter(s) < SinceAfter(s)))
      BY <3>1
    <3>4. now' = now /\ Running
      BY <2>2 DEF Submit
    <3>5. /\ SinceAfter(s) \in Nat /\ StartedAfter(s) \in Nat
          /\ now \in Nat
      BY ClockAfterType DEF ClockInv, ClockType
    <3>6. /\ started' \in Nat
          /\ lost => lost'
          /\ ~lost' => /\ ~lost /\ sel'.focus # NoTask /\ last' = sel'.focus
                       /\ started' = IF sel'.focus = lastBefore THEN StartedAfter(s) ELSE now
      BY <3>2, <3>5, ClockRendered
    <3>7. ~lost => /\ LastAfter(s) \in {s.focus, NoTask}
                   /\ SinceAfter(s) <= StartedAfter(s)
                   /\ StartedAfter(s) <= now
      BY <3>4, ClockReconciled
    <3>8. ClockType'
      BY <3>2, <3>4, <3>5, <3>6 DEF ClockType
    <3>9. early' => lost'
      <4>1. lost \/ ~(StartedAfter(s) < SinceAfter(s))
        BY <3>5, <3>7
      <4>2. early => lost
        BY DEF ClockInv
      <4>3. QED
        BY <3>3, <3>6, <4>1, <4>2
    <3>10. ASSUME ~lost'
           PROVE  last' = sel'.focus /\ since' <= started' /\ started' <= now'
      BY <3>2, <3>4, <3>5, <3>6, <3>7, <3>10
    <3>11. QED
      BY <3>8, <3>9, <3>10 DEF ClockInv
  <2>3. ASSUME Refresh PROVE ClockInv'
    <3>1. /\ Render(sel'.focus, LastAfter(sel'), StartedAfter(sel'))
          /\ since' = SinceAfter(sel')
          /\ now' = now /\ early' = early /\ Running
      BY <2>3 DEF Refresh
    <3>2. SinceAfter(sel') \in Nat /\ StartedAfter(sel') \in Nat /\ now \in Nat
      BY ClockAfterType DEF ClockInv, ClockType
    <3>3. /\ started' \in Nat
          /\ lost => lost'
          /\ ~lost' => /\ ~lost /\ last' = sel'.focus
                       /\ started' = IF sel'.focus = LastAfter(sel')
                                     THEN StartedAfter(sel') ELSE now
      BY <3>1, <3>2, ClockRendered
    <3>4. ~lost => SinceAfter(sel') <= StartedAfter(sel') /\ StartedAfter(sel') <= now
      BY <3>1, ClockReconciled
    <3>5. ~lost' => since' <= started' /\ started' <= now'
      BY <3>1, <3>2, <3>3, <3>4 DEF SinceAfter, StartedAfter
    <3>6. QED
      BY <3>1, <3>2, <3>3, <3>5 DEF ClockInv, ClockType
  <2>4. ASSUME ExitFails PROVE ClockInv'
    <3>1. /\ since' = SinceAfter(sel') /\ started' = StartedAfter(sel')
          /\ last' = LastAfter(sel')
          /\ now' = now /\ early' = early /\ lost' = lost /\ Running
      BY <2>4 DEF ExitFails
    <3>2. SinceAfter(sel') \in Nat /\ StartedAfter(sel') \in Nat
      BY ClockAfterType
    <3>3. ~lost => /\ LastAfter(sel') \in {sel'.focus, NoTask}
                   /\ SinceAfter(sel') <= StartedAfter(sel')
                   /\ StartedAfter(sel') <= now
      BY <3>1, ClockReconciled
    <3>4. QED
      BY <3>1, <3>2, <3>3 DEF ClockInv, ClockType
  <2>5. ASSUME SubmitFails \/ SubmitRejected \/ Exit \/ Abort PROVE ClockInv'
    BY <2>5 DEF SubmitFails, SubmitRejected, Exit, Abort, focusVars, history, Running,
         ClockInv, ClockType
  <2>6. ASSUME Retry \/ Others \/ UNCHANGED vars PROVE ClockInv'
    BY <2>6 DEF Retry, Others, vars, focusVars, history, Running, ClockInv, ClockType
  <2>7. ASSUME Tick PROVE ClockInv'
    BY <2>7 DEF Tick, focusVars, history, Running, ClockInv, ClockType
  <2>8. QED
    BY <2>1, <2>2, <2>3, <2>4, <2>5, <2>6, <2>7 DEF Next, User
<1>3. ClockInv => NoWorkFromBefore
  BY DEF ClockInv, NoWorkFromBefore
<1>4. QED
  BY <1>1, <1>2, <1>3, PTL DEF Spec

-----------------------------------------------------------------------------
(***************************************************************************)
(* The types                                                               *)
(***************************************************************************)
\* The ancestors of a task are its parent and the ancestors of that: what is
\* in every set that has the parent and with a task its parent fits the
\* recursion.
LEMMA AncestorsOf ==
    \A t \in Tasks : Ancestors[t] = IF Parent[t] = NoTask THEN {} ELSE {Parent[t]} \cup Ancestors[Parent[t]]
<1> DEFINE Closed(C) == \A u \in C : Parent[u] \in C \cup {NoTask}
           Above(t) == {a \in Tasks : \A C \in SUBSET Tasks :
                           Closed(C) /\ (Parent[t] = NoTask \/ Parent[t] \in C) => a \in C}
           F(f) == [t \in Tasks |-> IF Parent[t] = NoTask THEN {} ELSE {Parent[t]} \cup f[Parent[t]]]
           above == [t \in Tasks |-> Above(t)]
<1>1. ASSUME NEW t \in Tasks
      PROVE  Above(t) = IF Parent[t] = NoTask THEN {} ELSE {Parent[t]} \cup Above(Parent[t])
  <2>1. CASE Parent[t] = NoTask
    <3>1. Closed({}) /\ {} \in SUBSET Tasks
      OBVIOUS
    <3> HIDE DEF Closed
    <3> QED BY <2>1, <3>1
  <2>2. CASE Parent[t] # NoTask
    <3> DEFINE p == Parent[t]
    <3>1. p \in Tasks
      BY <2>2, TreeAssumption
    <3>2. p \in Above(t) /\ Above(p) \subseteq Above(t)
      BY <2>2, <3>1
    <3>3. ASSUME NEW a \in Above(t), a # p PROVE a \in Above(p)
      <4>1. ASSUME NEW C \in SUBSET Tasks, Closed(C), Parent[p] = NoTask \/ Parent[p] \in C
            PROVE  a \in C
        <5>1. C \cup {p} \in SUBSET Tasks /\ Closed(C \cup {p}) /\ Parent[t] \in C \cup {p}
          BY <3>1, <4>1
        <5>2. a \in C \cup {p}
          <6> HIDE DEF Closed, p
          <6> QED BY <3>3, <5>1
        <5> QED BY <3>3, <5>2
      <4> QED BY <3>3, <4>1
    <3> QED BY <2>2, <3>2, <3>3
  <2> QED BY <2>1, <2>2
<1> HIDE DEF Above
<1>2. above = F(above)
  BY <1>1, TreeAssumption
<1>3. Ancestors = CHOOSE f : f = F(f)
  BY DEF Ancestors
<1>4. Ancestors = F(Ancestors)
  <2> HIDE DEF F, above
  <2> QED BY <1>2, <1>3
<1> QED BY <1>4

LEMMA AncestorsAreTasks == \A t \in Tasks : Ancestors[t] \subseteq Tasks
<1> DEFINE S == {t \in Tasks : ~(Ancestors[t] \subseteq Tasks)}
<1>1. ASSUME NEW t \in S, Parent[t] \notin S PROVE FALSE
  <2>1. t \in Tasks /\ ~(Ancestors[t] \subseteq Tasks)
    OBVIOUS
  <2>2. Parent[t] # NoTask /\ Parent[t] \in Tasks /\ Ancestors[t] = {Parent[t]} \cup Ancestors[Parent[t]]
    BY <2>1, AncestorsOf, TreeAssumption
  <2>3. Ancestors[Parent[t]] \subseteq Tasks
    BY <1>1, <2>2
  <2> QED BY <2>1, <2>2, <2>3
<1>2. S = {}
  BY <1>1, ForestAssumption
<1> QED BY <1>2

\* A forest stays one when a present task changes its status, or one comes to
\* be there whose parent is.
LEMMA ForestStays ==
    ASSUME NEW v \in Forests, NEW w \in [Tasks -> Statuses], Present(v) \subseteq Present(w),
           \A t \in Present(w) \ Present(v) : Parent[t] \in Present(v) \cup {NoTask}
    PROVE  w \in Forests
<1>1. DOMAIN v = Tasks /\ Present(v) \subseteq Tasks /\ Present(w) \subseteq Tasks
  BY DEF Forests, Present
<1>2. \A t \in Present(v) : Ancestors[t] \subseteq Present(v)
  BY DEF Forests
<1>3. ASSUME NEW t \in Present(w) PROVE Ancestors[t] \subseteq Present(w)
  <2>1. CASE t \in Present(v)
    BY <1>2, <2>1
  <2>2. CASE t \notin Present(v)
    <3>1. \/ Ancestors[t] = {Parent[t]} \cup Ancestors[Parent[t]] /\ Parent[t] \in Present(v)
          \/ Ancestors[t] = {}
      BY <1>1, <2>2, AncestorsOf
    <3> QED BY <1>2, <3>1
  <2> QED BY <2>1, <2>2
<1> QED BY <1>3 DEF Forests

\* Setting the status of one task to one that is there.
LEMMA StatusSet ==
    ASSUME NEW v \in Forests, NEW t \in Tasks, NEW st \in Statuses \ {"absent"},
           v[t] # "absent" \/ Parent[t] = NoTask \/ Parent[t] \in Present(v)
    PROVE  /\ [v EXCEPT ![t] = st] \in Forests
           /\ Present([v EXCEPT ![t] = st]) = Present(v) \cup {t}
<1> DEFINE w == [v EXCEPT ![t] = st]
<1>1. v \in [Tasks -> Statuses] /\ w \in [Tasks -> Statuses]
  BY DEF Forests
<1>2. Present(w) = Present(v) \cup {t}
  BY <1>1 DEF Present, Absent
<1>3. \A u \in Present(w) \ Present(v) : Parent[u] \in Present(v) \cup {NoTask}
  BY <1>1, <1>2 DEF Present, Absent
<1> HIDE DEF w
<1>4. w \in Forests
  BY <1>1, <1>2, <1>3, ForestStays
<1> QED BY <1>2, <1>4 DEF w

LEMMA CandidatesAreTasks ==
    ASSUME NEW v, NEW mode PROVE Candidates(v, mode) \subseteq Tasks \cup {NoTask}
BY DEF Candidates, Leaves

LEMMA ReconciledType ==
    ASSUME NEW v, NEW s \in Selection, NEW r \in Reconciled(v, s)
    PROVE  r \in Selection /\ Sound(v, r)
<1>1. IsSelection(s)
  BY DEF Selection, IsSelection
<1>2. Sound(v, r)
  BY <1>1, ReconciledSound
<1>3. CASE ~Reselects(v, s)
  BY <1>2, <1>3 DEF Reconciled
<1>4. CASE Reselects(v, s)
  <2> DEFINE mode == IF s.mode = "explicit" THEN "highest" ELSE s.mode
  <2>1. mode \in Modes
    BY DEF Selection, Modes
  <2>2. PICK t \in Candidates(v, mode) : r = [focus |-> t, mode |-> mode]
    BY <1>4 DEF Reconciled
  <2>3. t \in Tasks \cup {NoTask}
    BY <2>2, CandidatesAreTasks
  <2> HIDE DEF mode
  <2> QED BY <1>2, <2>1, <2>2, <2>3 DEF Selection
<1> QED BY <1>3, <1>4

\* Every command leaves a forest and a selection: what it makes present has its
\* parent there.
LEMMA OutcomesType ==
    ASSUME NEW v \in Forests, NEW s \in Selection, Sound(v, s), NEW o \in Outcomes(v, s)
    PROVE  o.tasks \in Forests /\ o.sel \in Selection
<1> DEFINE Typed(q) == q.tasks \in Forests /\ q.sel \in Selection
<1>1. v \in [Tasks -> Statuses] /\ \A t \in Present(v) : Ancestors[t] \subseteq Present(v)
  BY DEF Forests
<1>2. \A t \in Tasks : (v[t] # "absent" <=> t \in Present(v)) /\ (t \in Absent(v) <=> v[t] = "absent")
  BY <1>1 DEF Present, Absent
<1>3. s.focus \in Tasks \cup {NoTask} /\ (s.focus # NoTask => s.focus \in Present(v))
  BY <1>2 DEF Selection, Sound
<1>4. \A w \in Forests, t \in Tasks \cup {NoTask} : Typed(Focusing(w, s, t))
  BY DEF Focusing, Outcome, Selection
<1>5. \A t \in Tasks, st \in Statuses \ {"absent"} :
         v[t] # "absent" \/ Parent[t] = NoTask \/ Parent[t] \in Present(v) => [v EXCEPT ![t] = st] \in Forests
  BY StatusSet
<1>6. Open \subseteq Statuses \ {"absent"} /\ "done" \in Statuses \ {"absent"}
  BY DEF Open, Statuses
<1>7. Absent(v) \subseteq Tasks
  BY <1>1 DEF Absent
<1> SUFFICES Typed(o)
  OBVIOUS
<1>11. CASE o \in Shows(v, s)
  BY <1>11 DEF Shows, Outcome
<1>12. CASE o \in FocusesTask(v, s) \cup ChangesMode(v, s)
  BY <1>12 DEF FocusesTask, ChangesMode, Outcome, Selection, Modes
<1>13. CASE o \in Unfocuses(v, s) \cup AddsWork(v, s)
  BY <1>13, <1>4 DEF Unfocuses, AddsWork
<1>14. CASE o \in Picks(v, s)
  <2>1. PICK t \in Tasks, st \in Open :
           o = Focusing(IF v[t] = "absent" THEN v ELSE [v EXCEPT ![t] = st], s, t)
    BY <1>14 DEF Picks
  <2>2. (IF v[t] = "absent" THEN v ELSE [v EXCEPT ![t] = st]) \in Forests
    BY <1>5, <1>6
  <2> HIDE DEF Typed
  <2> QED BY <1>4, <2>1, <2>2
<1>15. CASE o \in Moves(v, s)
  <2>1. s.focus \in Tasks
    BY <1>3, <1>15 DEF Moves
  <2>2. PICK t : /\ \/ t \in {Parent[s.focus]} \ {NoTask}
                    \/ t \in {a \in Ancestors[s.focus] : Parent[a] = NoTask}
                    \/ t \in {u \in Tasks : OnlyWayDown(v, s.focus, u)}
                 /\ o = Focusing(v, s, t)
    BY <1>15 DEF Moves
  <2>3. t \in Tasks
    BY <2>1, <2>2, AncestorsAreTasks, TreeAssumption
  <2> HIDE DEF Typed
  <2> QED BY <1>4, <2>2, <2>3
<1>16. CASE o \in Finishes(v, s)
  <2> DEFINE f == s.focus
             w == [v EXCEPT ![f] = "done"]
  <2>1. f \in Present(v) /\ f \in Tasks /\ v[f] # "absent"
    BY <1>2, <1>3, <1>16 DEF Finishes
  <2>2. w \in Forests /\ Present(w) = Present(v)
    <3>1. /\ [v EXCEPT ![f] = "done"] \in Forests
          /\ Present([v EXCEPT ![f] = "done"]) = Present(v) \cup {f}
      <4> HIDE DEF f
      <4> QED BY <1>6, <2>1, StatusSet
    <3> HIDE DEF f
    <3> QED BY <2>1, <3>1
  <2>3. Parent[f] = NoTask \/ Parent[f] \in Present(v)
    BY <1>1, <2>1, AncestorsOf
  <2>4. CASE o = Focusing(w, s, IF Parent[f] = NoTask THEN NoTask ELSE NextFocus(v, f))
    <3>1. (IF Parent[f] = NoTask THEN NoTask ELSE NextFocus(v, f)) \in Tasks \cup {NoTask}
      BY <2>1, TreeAssumption DEF NextFocus
    <3> HIDE DEF Typed, w, f
    <3> QED BY <1>4, <2>2, <2>4, <3>1
  <2>5. ASSUME NEW u \in Absent(v), Parent[u] = Parent[f], NEW st \in Open,
               o = Focusing([w EXCEPT ![u] = st], s, NoTask)
        PROVE  Typed(o)
    <3>1. u \in Tasks /\ st \in Statuses \ {"absent"} /\ (Parent[u] = NoTask \/ Parent[u] \in Present(w))
      BY <1>6, <1>7, <2>2, <2>3, <2>5
    <3> HIDE DEF Typed, w, f
    <3>2. [w EXCEPT ![u] = st] \in Forests
      BY <2>2, <3>1, StatusSet
    <3> QED BY <1>4, <2>5, <3>2
  <2>6. \/ o = Focusing(w, s, IF Parent[f] = NoTask THEN NoTask ELSE NextFocus(v, f))
        \/ \E u \in Absent(v), st \in Open :
              Parent[u] = Parent[f] /\ o = Focusing([w EXCEPT ![u] = st], s, NoTask)
    <3> DEFINE U == {u \in Absent(v) : Parent[u] = Parent[f] /\ Parent[f] # NoTask}
               X == {Focusing([w EXCEPT ![u] = st], s, NoTask) : u \in U, st \in Open}
    <3>1. \/ o = Focusing(w, s, IF Parent[f] = NoTask THEN NoTask ELSE NextFocus(v, f))
          \/ o \in X
      BY <1>16 DEF Finishes
    <3>2. ASSUME o \in X
          PROVE  \E u \in Absent(v), st \in Open :
                    Parent[u] = Parent[f] /\ o = Focusing([w EXCEPT ![u] = st], s, NoTask)
      <4> HIDE DEF w, f, U
      <4>1. PICK u \in U, st \in Open : o = Focusing([w EXCEPT ![u] = st], s, NoTask)
        BY <3>2
      <4>2. u \in Absent(v) /\ Parent[u] = Parent[f]
        BY <4>1 DEF U
      <4> QED BY <4>1, <4>2
    <3> HIDE DEF w, f, X
    <3> QED BY <3>1, <3>2
  <2> HIDE DEF Typed, w, f
  <2> QED BY <2>4, <2>5, <2>6
<1>17. CASE o \in Defers(v, s)
  <2>1. CASE s.focus = NoTask
    BY <1>17, <2>1 DEF Defers, Outcome
  <2>2. CASE s.focus # NoTask
    <3>1. PICK st \in Open : o = Focusing([v EXCEPT ![s.focus] = st], s, NoTask)
      BY <1>17, <2>2 DEF Defers
    <3>2. [v EXCEPT ![s.focus] = st] \in Forests
      BY <1>2, <1>3, <1>5, <1>6, <2>2
    <3> HIDE DEF Typed
    <3> QED BY <1>4, <3>1, <3>2
  <2> QED BY <2>1, <2>2
<1>18. CASE o \in StartsProject(v, s)
  <2>1. PICK t \in Absent(v), st \in Open : Parent[t] = NoTask /\ o = Focusing([v EXCEPT ![t] = st], s, t)
    BY <1>18 DEF StartsProject
  <2>2. t \in Tasks /\ [v EXCEPT ![t] = st] \in Forests
    BY <1>5, <1>6, <1>7, <2>1
  <2> HIDE DEF Typed
  <2> QED BY <1>4, <2>1, <2>2
<1>19. CASE o \in BreaksDown(v, s)
  <2>1. PICK t \in Absent(v), st \in Open :
           s.focus # NoTask /\ Parent[t] = s.focus /\ o = Focusing([v EXCEPT ![t] = st], s, t)
    BY <1>19 DEF BreaksDown
  <2>2. t \in Tasks /\ [v EXCEPT ![t] = st] \in Forests
    BY <1>3, <1>5, <1>6, <1>7, <2>1
  <2> HIDE DEF Typed
  <2> QED BY <1>4, <2>1, <2>2
<1>20. CASE o \in Reschedules(v, s)
  <2>1. PICK w \in [Tasks -> Statuses], t \in {s.focus, NoTask} :
           /\ \A u \in Tasks : w[u] = v[u] \/ {w[u], v[u]} \subseteq Open
           /\ o = Focusing(w, s, t)
    BY <1>20 DEF Reschedules
  <2>2. \A u \in Tasks : w[u] = "absent" <=> v[u] = "absent"
    BY <2>1 DEF Open
  <2>3. Present(w) = Present(v)
    BY <1>1, <2>2 DEF Present, Absent
  <2>4. w \in Forests
    BY <2>3, ForestStays
  <2> HIDE DEF Typed
  <2> QED BY <1>3, <1>4, <2>1, <2>4
<1>21. CASE o \in Lists(v, s)
  <2>1. PICK t \in Tasks : o = Focusing(v, s, t)
    BY <1>21 DEF Lists
  <2> HIDE DEF Typed
  <2> QED BY <1>4, <2>1
<1> HIDE DEF Typed
<1> QED
  BY <1>11, <1>12, <1>13, <1>14, <1>15, <1>16, <1>17, <1>18, <1>19, <1>20, <1>21 DEF Outcomes

\* Rendering a focus keeps the types of what is on the screen.
LEMMA RenderType ==
    ASSUME TypeOK, NEW focus \in Tasks \cup {NoTask}, NEW lastBefore \in Tasks \cup {NoTask},
           NEW startedBefore \in 0..MaxTime, Render(focus, lastBefore, startedBefore)
    PROVE  /\ shown' \in Tasks \cup {NoTask} /\ last' \in Tasks \cup {NoTask}
           /\ started' \in 0..MaxTime /\ {lost', excused'} \subseteq BOOLEAN
BY DEF TypeOK, Render

LEMMA ClockAfterBounds ==
    ASSUME TypeOK, NEW s
    PROVE  /\ LastAfter(s) \in Tasks \cup {NoTask}
           /\ StartedAfter(s) \in 0..MaxTime /\ SinceAfter(s) \in 0..MaxTime
BY DEF TypeOK, LastAfter, StartedAfter, SinceAfter

\* What TypeOK says of the tasks, and of everything else.
TasksOK == disk \in Forests /\ view \in Forests
RestOK ==
    /\ session \in {"prompt", "left", "failed", "rejected"}
    /\ sel \in Selection
    /\ last \in Tasks \cup {NoTask}
    /\ started \in 0..MaxTime /\ now \in 0..MaxTime /\ since \in 0..MaxTime
    /\ {lost, excused, strayed, early} \subseteq BOOLEAN
    /\ shown \in Tasks \cup {NoTask}

\* For any tasks and forest, whatever the session and the others do, both
\* copies of the tasks stay closed under parents, so that the way up from the
\* focus never leaves the tasks that are there.
THEOREM ShellTypeCorrect == Spec => []TypeOK
<1> USE TimeAssumption
<1>0. TypeOK <=> TasksOK /\ RestOK
  BY DEF TypeOK, TasksOK, RestOK
<1>1. Init => TypeOK
  <2> SUFFICES ASSUME Init PROVE TypeOK
    OBVIOUS
  <2>1. TasksOK
    BY DEF Init, TasksOK
  <2>2. 0 \in 0..MaxTime
    BY TimeAssumption
  <2>3. RestOK
    BY <2>2 DEF Init, RestOK, Selection, Modes
  <2> QED BY <1>0, <2>1, <2>3
<1>2. TypeOK /\ [Next]_vars => TypeOK'
  <2> SUFFICES ASSUME TypeOK, [Next]_vars PROVE TypeOK'
    OBVIOUS
  <2>0. TypeOK' <=> TasksOK' /\ RestOK'
    BY DEF TypeOK, TasksOK, RestOK, Forests, Present, Absent, Selection
  <2>1. ASSUME Start PROVE TypeOK'
    <3>1. PICK t \in Candidates(disk, "highest") :
             sel' = [focus |-> t, mode |-> "highest"] /\ last' = t /\ shown' = t /\ lost' = (t = NoTask)
      BY <2>1 DEF Start
    <3>2. t \in Tasks \cup {NoTask}
      BY <3>1, CandidatesAreTasks
    <3>3. TasksOK'
      BY <1>0, <2>1 DEF Start, TasksOK, Forests, Present, Absent
    <3>4. RestOK'
      BY <1>0, <2>1, <3>1, <3>2 DEF Start, RestOK, Selection, Modes
    <3> QED BY <2>0, <3>3, <3>4
  <2>2. ASSUME Submit PROVE TypeOK'
    <3>1. PICK s \in Reconciled(disk, sel) : \E o \in Outcomes(disk, s) :
             \E r \in Reconciled(o.tasks, o.sel) :
                /\ disk' = o.tasks
                /\ view' = o.tasks
                /\ sel' = r
                /\ Render(r.focus, IF r.focus # o.sel.focus THEN NoTask ELSE LastAfter(s),
                          StartedAfter(s))
                /\ since' = IF o.sel.focus # s.focus \/ r.focus # o.sel.focus
                            THEN now ELSE SinceAfter(s)
                /\ strayed' = (strayed \/ (s.focus # shown /\ ~Explains(disk)))
                /\ early' = (early \/ (s.focus # NoTask /\ StartedAfter(s) < SinceAfter(s)))
      BY <2>2 DEF Submit
    <3>2. PICK o \in Outcomes(disk, s), lastBefore \in Tasks \cup {NoTask} :
             /\ disk' = o.tasks
             /\ view' = o.tasks
             /\ sel' \in Reconciled(o.tasks, o.sel)
             /\ Render(sel'.focus, lastBefore, StartedAfter(s))
             /\ since' \in {now, SinceAfter(s)}
      BY <3>1, ClockAfterBounds
    <3>3. s \in Selection /\ Sound(disk, s) /\ disk \in Forests
      BY <3>1, ReconciledType DEF TypeOK
    <3>4. o.tasks \in Forests /\ o.sel \in Selection
      BY <3>2, <3>3, OutcomesType
    <3>5. sel' \in Selection
      BY <3>2, <3>4, ReconciledType
    <3>6. sel'.focus \in Tasks \cup {NoTask}
      BY <3>5 DEF Selection
    <3>7. StartedAfter(s) \in 0..MaxTime /\ SinceAfter(s) \in 0..MaxTime
      BY ClockAfterBounds
    <3>8. /\ shown' \in Tasks \cup {NoTask} /\ last' \in Tasks \cup {NoTask}
          /\ started' \in 0..MaxTime /\ {lost', excused'} \subseteq BOOLEAN
      BY <3>2, <3>6, <3>7, RenderType
    <3>9. TasksOK'
      BY <3>2, <3>4 DEF TasksOK, Forests, Present, Absent
    <3>10. strayed' \in BOOLEAN /\ early' \in BOOLEAN
      BY <3>1
    <3>11. RestOK'
      BY <1>0, <2>2, <3>2, <3>5, <3>7, <3>8, <3>10 DEF Submit, RestOK, Selection
    <3> QED BY <2>0, <3>9, <3>11
  <2>3. ASSUME Refresh \/ ExitFails PROVE TypeOK'
    <3>1. PICK s \in Reconciled(disk, sel) :
             /\ sel' = s /\ since' = SinceAfter(s)
             /\ \/ Render(s.focus, LastAfter(s), StartedAfter(s))
                \/ /\ last' = LastAfter(s) /\ started' = StartedAfter(s)
                   /\ lost' = lost /\ shown' = shown /\ excused' = Explains(disk)
      BY <2>3 DEF Refresh, ExitFails
    <3>2. s \in Selection
      BY <3>1, ReconciledType DEF TypeOK
    <3>3. s.focus \in Tasks \cup {NoTask}
      BY <3>2 DEF Selection
    <3>4. /\ LastAfter(s) \in Tasks \cup {NoTask}
          /\ StartedAfter(s) \in 0..MaxTime /\ SinceAfter(s) \in 0..MaxTime
      BY ClockAfterBounds
    <3>5. excused' = Explains(disk) => excused' \in BOOLEAN
      BY DEF Explains, TypeOK
    <3>6. /\ shown' \in Tasks \cup {NoTask} /\ last' \in Tasks \cup {NoTask}
          /\ started' \in 0..MaxTime /\ {lost', excused'} \subseteq BOOLEAN
      <4>1. CASE Render(s.focus, LastAfter(s), StartedAfter(s))
        BY <3>3, <3>4, <4>1, RenderType
      <4>2. CASE ~Render(s.focus, LastAfter(s), StartedAfter(s))
        BY <3>1, <3>4, <3>5, <4>2 DEF TypeOK
      <4> QED BY <4>1, <4>2
    <3>7. TasksOK'
      BY <1>0, <2>3 DEF Refresh, ExitFails, TasksOK, Forests, Present, Absent
    <3>8. RestOK'
      BY <1>0, <2>3, <3>1, <3>2, <3>4, <3>6 DEF Refresh, ExitFails, RestOK, Selection
    <3> QED BY <2>0, <3>7, <3>8
  <2>4. ASSUME SubmitFails \/ SubmitRejected \/ Exit \/ Abort PROVE TypeOK'
    <3>1. TasksOK'
      BY <1>0, <2>4 DEF SubmitFails, SubmitRejected, Exit, Abort, TasksOK, Forests, Present, Absent
    <3>2. RestOK'
      BY <1>0, <2>4 DEF SubmitFails, SubmitRejected, Exit, Abort, RestOK, Selection, focusVars, history
    <3> QED BY <2>0, <3>1, <3>2
  <2>5. ASSUME Retry \/ Others \/ Tick \/ UNCHANGED vars PROVE TypeOK'
    <3>1. TasksOK'
      BY <1>0, <2>5 DEF Retry, Others, Tick, vars, TasksOK, Forests, Present, Absent
    <3>2. RestOK'
      BY <1>0, <2>5 DEF Retry, Others, Tick, vars, RestOK, Selection, focusVars, history
    <3> QED BY <2>0, <3>1, <3>2
  <2> QED
    BY <2>1, <2>2, <2>3, <2>4, <2>5 DEF Next, User
<1> QED BY <1>1, <1>2, PTL DEF Spec
=============================================================================
