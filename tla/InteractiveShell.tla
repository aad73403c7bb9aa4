-------------------------- MODULE InteractiveShell --------------------------
(***************************************************************************)
(* The interactive session of schronu: the focus, how it is chosen, kept   *)
(* and lost, what is on the screen, and since when the focus is timed.     *)
(*                                                                         *)
(*   adapter/controller/schronu/runtime.rs      the session's handlers     *)
(*   adapter/controller/schronu/interactive.rs  the input loop             *)
(*   adapter/controller/schronu/handler.rs      what a command does        *)
(*                                                                         *)
(* The shell shares its tasks with other processes.  Submitting a line,    *)
(* leaving with Ctrl-D and the refresh after 60 s without a key are each   *)
(* one storage operation: under the lock the tasks are reloaded, the focus *)
(* is reconciled with them, the command runs, and the result is saved.     *)
(* TaskStorage shows that these operations are serialised and see what     *)
(* others saved, so here each is one step and "disk" is what it finds.     *)
(*                                                                         *)
(* A task is represented by its status: the derived one, which also the    *)
(* passing of time can move between todo and pending.  The tree is fixed;  *)
(* creating a task makes one present that was absent.                      *)
(***************************************************************************)
EXTENDS Naturals, FiniteSets

CONSTANTS
    Tasks,
    NoTask,
    Parent,   \* [Tasks -> Tasks \cup {NoTask}]: a forest
    MaxTime   \* bound: minutes on the clock

ASSUME TreeAssumption == NoTask \notin Tasks /\ Parent \in [Tasks -> Tasks \cup {NoTask}]
\* Going up ends at a root: in every set of tasks there is one whose parent is not in it.
ASSUME ForestAssumption ==
    \A S \in SUBSET Tasks : S # {} => \E t \in S : Parent[t] \notin S
ASSUME TimeAssumption == MaxTime \in Nat

VARIABLES
    disk,     \* the tasks, as the next storage operation will find them
    view,     \* the shell's own copy, as its last storage operation left it
    session,  \* whether the shell is running, and if not, why
    sel,      \* focused_task_id_opt and focus_selection_mode
    last,     \* last_focused_task_id_opt
    started,  \* focus_started_datetime
    now,      \* the time
    since,    \* history: when the focus came to be where it is
    lost,     \* history: a screen came up in this session with no focus on it
    shown,    \* history: the focus the user was last shown
    excused,  \* history: a reload since found the shown task absent or done
    strayed,  \* history: a command was given another focus than was shown
    early     \* history: a command found its focus timed from before "since"

focusVars == <<sel, last, started>>
history == <<since, lost, shown, excused, strayed, early>>
vars == <<disk, view, session, focusVars, now, history>>

(***************************************************************************)
(* Tasks                                                                   *)
(***************************************************************************)
Statuses == {"absent", "todo", "pending", "done"}
Open == {"todo", "pending"}

Absent(v) == {t \in DOMAIN v : v[t] = "absent"}
Present(v) == DOMAIN v \ Absent(v)
Children(v, t) == {u \in Present(v) : Parent[u] = t}
UndoneChildren(v, t) == {u \in Children(v, t) : v[u] # "done"}

\* Proper ancestors.
Ancestors[t \in Tasks] ==
    IF Parent[t] = NoTask THEN {} ELSE {Parent[t]} \cup Ancestors[Parent[t]]

\* The tasks there can be: nobody is present without a parent.
Forests ==
    {v \in [Tasks -> Statuses] : \A t \in Present(v) : Ancestors[t] \subseteq Present(v)}

\* extract_leaf_tasks_from_project: with one of the statuses, nothing left to
\* do below, and not under a finished task, except a finished root.
Leaves(v, statuses) ==
    {t \in Tasks \cap DOMAIN v :
        /\ v[t] \in statuses
        /\ UndoneChildren(v, t) = {}
        /\ \A a \in Ancestors[t] : v[a] = "done" => Parent[a] = NoTask}

(***************************************************************************)
(* Selection of the focus                                                  *)
(***************************************************************************)
Modes == {"highest", "lowest", "explicit"}
Selection == [focus : Tasks \cup {NoTask}, mode : Modes]

\* Priorities, deadlines and the threshold of "lowest" are left open: any
\* candidate may be the one, and "lowest" may find them all too far ahead.
Candidates(v, mode) ==
    IF mode = "lowest"
    THEN Leaves(v, Open) \cup {NoTask}
    ELSE IF Leaves(v, {"todo"}) = {} THEN {NoTask} ELSE Leaves(v, {"todo"})

\* should_reselect.  A finished task stays in focus only on explicit wish.
Reselects_Always(v, s) == s.mode # "explicit"
Reselects_KeepingDone(v, s) == s.focus = NoTask \/ v[s.focus] = "absent"
Reselects(v, s) ==
    \/ s.focus = NoTask
    \/ v[s.focus] = "absent"
    \/ v[s.focus] = "done" /\ s.mode # "explicit"

Reconciled(v, s) ==
    IF ~Reselects(v, s)
    THEN {s}
    ELSE LET mode == IF s.mode = "explicit" THEN "highest" ELSE s.mode
         IN {[focus |-> t, mode |-> mode] : t \in Candidates(v, mode)}

(***************************************************************************)
(* Commands.  Each maps the reloaded tasks and the selection to the        *)
(* outcomes it can have.                                                   *)
(***************************************************************************)
Outcome(v, s) == [tasks |-> v, sel |-> s]
Focusing(v, s, t) == Outcome(v, [s EXCEPT !.focus = t])

\* The other queries, the empty line, external links, attributes the focus does not
\* depend on, and every command refused with a message.
Shows(v, s) == {Outcome(v, s)}

FocusesTask(v, s) == {Outcome(v, [focus |-> t, mode |-> "explicit"]) : t \in Tasks}

\* Status todo, which a start time still to come turns into pending.
Picks(v, s) ==
    {Focusing(IF v[t] = "absent" THEN v ELSE [v EXCEPT ![t] = st], s, t) :
        t \in Tasks, st \in Open}

\* The parent, the root, or down as long as there is only one way to go.
OnlyWayDown(v, t, u) ==
    /\ t \in Ancestors[u]
    /\ \A a \in {u} \cup {b \in Ancestors[u] : t \in Ancestors[b]} :
          UndoneChildren(v, Parent[a]) = {a}
Moves(v, s) ==
    IF s.focus = NoTask THEN {}
    ELSE {Focusing(v, s, t) : t \in
            ({Parent[s.focus]} \ {NoTask})
            \cup {a \in Ancestors[s.focus] : Parent[a] = NoTask}
            \cup {u \in Tasks : OnlyWayDown(v, s.focus, u)}}

Unfocuses(v, s) == {Focusing(v, s, NoTask)}

\* A list of tasks leaves the focus on its last row, which may be one that only
\* fills a gap, with an id that no task has.
Lists(v, s) == {Focusing(v, s, t) : t \in {u \in Tasks : v[u] \in Open \cup {"absent"}}}

ChangesMode(v, s) ==
    {Outcome(v, [focus |-> NoTask, mode |-> m]) : m \in {"highest", "lowest"}}

\* The parent of the last of its children to be finished.
NextFocus(v, t) ==
    IF \A u \in Children(v, Parent[t]) \ {t} : v[u] = "done" THEN Parent[t] ELSE NoTask

\* A finished repetition leaves a new sibling and no focus.
Finishes(v, s) ==
    IF s.focus = NoTask \/ UndoneChildren(v, s.focus) # {} THEN {}
    ELSE LET f == s.focus
             w == [v EXCEPT ![f] = "done"]
         IN {Focusing(w, s, IF Parent[f] = NoTask THEN NoTask ELSE NextFocus(v, f))}
            \cup {Focusing([w EXCEPT ![u] = st], s, NoTask) :
                    u \in {u \in Absent(v) : Parent[u] = Parent[f] /\ Parent[f] # NoTask},
                    st \in Open}

\* A deadline close by makes the task todo again at once.
Defers(v, s) ==
    IF s.focus = NoTask THEN {Outcome(v, s)}
    ELSE {Focusing([v EXCEPT ![s.focus] = st], s, NoTask) : st \in Open}

AddsWork(v, s) == {Focusing(v, s, NoTask)}

StartsProject(v, s) ==
    {Focusing([v EXCEPT ![t] = st], s, t) :
        t \in {u \in Absent(v) : Parent[u] = NoTask}, st \in Open}

BreaksDown_Anywhere(v, s) ==
    {Focusing([v EXCEPT ![t] = st], s, t) :
        t \in {u \in Absent(v) : s.focus # NoTask /\ Parent[u] # NoTask}, st \in Open}
BreaksDown(v, s) ==
    {Focusing([v EXCEPT ![t] = st], s, t) :
        t \in {u \in Absent(v) : s.focus # NoTask /\ Parent[u] = s.focus}, st \in Open}

\* Deadlines, start times, clear, gather, extrude and deferring all routines
\* move open tasks between todo and pending; the last one may drop the focus.
Reschedules(v, s) ==
    {Focusing(w, s, t) :
        w \in {w \in [Tasks -> Statuses] :
                  \A t \in Tasks : w[t] = v[t] \/ {w[t], v[t]} \subseteq Open},
        t \in {s.focus, NoTask}}

Outcomes(v, s) ==
    UNION {Shows(v, s), FocusesTask(v, s), Picks(v, s), Moves(v, s), Unfocuses(v, s), Lists(v, s),
           ChangesMode(v, s), Finishes(v, s), Defers(v, s), AddsWork(v, s),
           StartsProject(v, s), BreaksDown(v, s), Reschedules(v, s)}

(***************************************************************************)
(* The screen                                                              *)
(***************************************************************************)
\* render_focused_task: no focus, no change.  The clock of the focus starts
\* when another focus than the last one is shown.
Render(focus, lastBefore, startedBefore) ==
    /\ shown' = focus
    /\ excused' = FALSE
    /\ lost' = (lost \/ focus = NoTask)
    /\ last' = IF focus = NoTask THEN lastBefore ELSE focus
    /\ started' = IF focus \in {NoTask, lastBefore} THEN startedBefore ELSE now

\* reconcile_interactive_state_after_reload
LastAfter(s) == IF s.focus # sel.focus THEN NoTask ELSE last
StartedAfter_LeftAlone(s) == started
StartedAfter(s) == IF s.focus # sel.focus THEN now ELSE started

SinceAfter(s) == IF s.focus # sel.focus THEN now ELSE since

\* Whether a reload that finds v explains a focus other than the shown one.
Explains(v) == excused \/ shown = NoTask \/ v[shown] \in {"absent", "done"}

(***************************************************************************)
(* The session                                                             *)
(***************************************************************************)
Running == session = "prompt"

Init ==
    /\ disk \in Forests
    /\ view = disk
    /\ session = "left"
    /\ sel = [focus |-> NoTask, mode |-> "highest"]
    /\ last = NoTask
    /\ started = 0
    /\ now = 0
    /\ since = 0
    /\ lost = FALSE
    /\ shown = NoTask
    /\ excused = FALSE
    /\ strayed = FALSE
    /\ early = FALSE

\* The shell is started, loads, selects a focus and shows it.
Start ==
    /\ ~Running
    /\ session' = "prompt"
    /\ view' = disk
    /\ \E t \in Candidates(disk, "highest") :
        /\ sel' = [focus |-> t, mode |-> "highest"]
        /\ last' = t
        /\ shown' = t
        /\ lost' = (t = NoTask)
    /\ started' = now
    /\ since' = now
    /\ excused' = FALSE
    /\ strayed' = FALSE
    /\ early' = FALSE
    /\ UNCHANGED <<disk, now>>

\* A line runs between two reconciliations, and its outcome is saved.
Submit ==
    /\ Running
    /\ \E s \in Reconciled(disk, sel) :
        \E o \in Outcomes(disk, s) :
            \E r \in Reconciled(o.tasks, o.sel) :
                /\ disk' = o.tasks
                /\ view' = o.tasks
                /\ sel' = r
                /\ Render(r.focus,
                          IF r.focus # o.sel.focus THEN NoTask ELSE LastAfter(s),
                          StartedAfter(s))
                /\ since' = IF o.sel.focus # s.focus \/ r.focus # o.sel.focus
                            THEN now ELSE SinceAfter(s)
                /\ strayed' = (strayed \/ (s.focus # shown /\ ~Explains(disk)))
                /\ early' = (early \/ (s.focus # NoTask /\ StartedAfter(s) < SinceAfter(s)))
    /\ UNCHANGED <<session, now>>

\* The outcome cannot be saved: some of it may have been written.
SubmitFails ==
    /\ Running
    /\ \E s \in Reconciled(disk, sel) :
        \E o \in Outcomes(disk, s) :
            \E W \in SUBSET {t \in Tasks : o.tasks[t] # disk[t]} :
                /\ disk' = [t \in Tasks |-> IF t \in W THEN o.tasks[t] ELSE disk[t]]
                /\ disk' \in Forests
    /\ session' = "failed"
    /\ UNCHANGED <<view, focusVars, now, history>>

\* A line that cannot be parsed is an error of the operation, nothing is
\* saved, and the error is passed on to the end of the program.
SubmitRejected ==
    /\ Running
    /\ session' = "rejected"
    /\ UNCHANGED <<disk, view, focusVars, now, history>>

\* 60 s without a key.
Refresh_RedrawsOnly ==
    /\ Running
    /\ Render(sel.focus, last, started)
    /\ UNCHANGED <<disk, view, session, sel, now, since, strayed, early>>
Refresh ==
    /\ Running
    /\ view' = disk
    /\ \E s \in Reconciled(disk, sel) :
        /\ sel' = s
        /\ since' = SinceAfter(s)
        /\ Render(s.focus, LastAfter(s), StartedAfter(s))
    /\ UNCHANGED <<disk, session, now, strayed, early>>

\* No lock, or no load: the line is kept and nothing else has happened.  The
\* same is true of a refresh and of Ctrl-D.
Retry ==
    /\ Running
    /\ UNCHANGED vars

\* Ctrl-D on an empty line, when there is nothing to save or saving works.
Exit ==
    /\ Running
    /\ session' = "left"
    /\ view' = disk
    /\ UNCHANGED <<disk, focusVars, now, history>>

\* Saving fails: the session goes on, reconciled but with the old screen.
ExitFails ==
    /\ Running
    /\ view' = disk
    /\ \E s \in Reconciled(disk, sel) :
        /\ sel' = s
        /\ since' = SinceAfter(s)
        /\ last' = LastAfter(s)
        /\ started' = StartedAfter(s)
    /\ excused' = Explains(disk)
    /\ UNCHANGED <<disk, session, now, lost, shown, strayed, early>>

\* Ctrl-C, the end of the input, or an error reading it.
Abort ==
    /\ Running
    /\ session' = "failed"
    /\ UNCHANGED <<disk, view, focusVars, now, history>>

-----------------------------------------------------------------------------
(***************************************************************************)
(* The rest of the world                                                   *)
(***************************************************************************)
\* Other processes create, finish, reopen and defer tasks, replace a project
\* directory, and time moves tasks between todo and pending.
Others ==
    /\ \E t \in Tasks, st \in Statuses :
        /\ disk' = [disk EXCEPT ![t] = st]
        /\ disk' \in Forests
    /\ UNCHANGED <<view, session, focusVars, now, history>>

Tick ==
    /\ now < MaxTime
    /\ now' = now + 1
    /\ UNCHANGED <<disk, view, session, focusVars, history>>

User == Start \/ Submit \/ SubmitFails \/ SubmitRejected \/ Exit \/ ExitFails \/ Abort

Next == User \/ Refresh \/ Retry \/ Others \/ Tick

Spec == Init /\ [][Next]_vars

\* The idle timer is armed again whatever came of the last attempt, and not
\* every attempt of a shell that is left alone finds the lock taken.
FairSpec == Spec /\ WF_vars(Refresh)
-----------------------------------------------------------------------------
(***************************************************************************)
(* Properties                                                              *)
(***************************************************************************)
TypeOK ==
    /\ disk \in Forests
    /\ view \in Forests
    /\ session \in {"prompt", "left", "failed", "rejected"}
    /\ sel \in Selection
    /\ last \in Tasks \cup {NoTask}
    /\ started \in 0..MaxTime
    /\ now \in 0..MaxTime
    /\ since \in 0..MaxTime
    /\ {lost, excused, strayed, early} \subseteq BOOLEAN
    /\ shown \in Tasks \cup {NoTask}

\* Whatever the commands and the other processes did, at the prompt the focus
\* is a task of the shell's copy, finished only on explicit wish, and without
\* a focus the highest-priority mode has nothing left to offer
\* (reconcile_focus_after_reload after every load and every command).
FocusSound ==
    Running =>
        /\ sel.focus # NoTask => view[sel.focus] # "absent"
        /\ sel.focus # NoTask /\ view[sel.focus] = "done" => sel.mode = "explicit"
        /\ sel.mode = "explicit" => sel.focus # NoTask
        /\ sel.mode = "highest" /\ sel.focus = NoTask => Leaves(view, {"todo"}) = {}

\* A command acts on the focus the user was shown, unless a reload since then
\* found that task gone or done, or there was none: other processes and the
\* refresh never pull the focus away from an open task.
ActsOnShown == ~strayed

\* A command that charges the time since the clock of the focus was started
\* (finish, add work) never charges time from before the focus last came to
\* the task, as long as there always was a focus on the screen.
NoWorkFromBefore == early => lost

\* As the README has it, finishing adds the time from the start of the focus.
\* Broken when the focus is given up with no other to take and then set again.
WorkCountsFromFocus == ~early

\* README: in interactive mode a wrong input is reported and the session goes
\* back to waiting for input.
InvalidInputReturnsToPrompt == session # "rejected"

\* A shell that is left alone, with others that have finished their changes,
\* comes to know them and to show the focus it would act on.
SeesTheOthers ==
    <>[][Refresh \/ Retry \/ Tick]_vars =>
        <>[](Running => view = disk /\ shown = sel.focus)
=============================================================================
