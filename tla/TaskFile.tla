------------------------------- MODULE TaskFile -------------------------------
(***************************************************************************)
(* A project, its commands (TaskTree) and its file: task_to_yaml in        *)
(* entity/task.rs, adapter/gateway/yaml.rs, and the marks that decide in   *)
(* task_repository.rs whether a project is saved.                          *)
(***************************************************************************)
EXTENDS TaskTree

CONSTANT Works   \* the work the user states for a task

VARIABLES
    work,     \* the work done on each task
    file,     \* what the project file holds: tree and work
    marked    \* the tree has changed since it was read or saved

fileVars == <<task, work, file, marked>>

\* TaskHandle::update and its like: a setter marks the project when a value
\* changes, a change of the hierarchy always does.
Touch_Root == marked' = (marked \/ task'[Root] # task[Root] \/ work'[Root] # work[Root])
Touch == marked' = (marked \/ task' # task \/ work' # work)

Command ==
    /\ Next
    /\ UNCHANGED <<work, file>>
    /\ Touch

\* set_focused_task_actual_work_minutes: any number of minutes.
SetActual(t, w) ==
    /\ work' = [work EXCEPT ![t] = w]
    /\ UNCHANGED <<task, file>>
    /\ Touch

\* A project without a mark is not written.
Save ==
    /\ file' = IF marked THEN [tree |-> task, work |-> work] ELSE file
    /\ marked' = FALSE
    /\ UNCHANGED <<task, work>>

\* The strict reader refuses negative seconds.
Loadable(f) ==
    \A t \in DOMAIN f.tree : f.tree[t].est >= 0 /\ f.work[t] >= 0

\* The status is read first, so that the deadline of a finished task is not
\* taken; a routine is pending whatever its status was.
Loaded(tr) ==
    [t \in DOMAIN tr |->
        [tr[t] EXCEPT !.ddl = IF tr[t].status = "done" THEN NoTime ELSE @,
                      !.status = IF tr[t].repeats THEN "pending" ELSE @]]

\* A process that starts, or finds that another has saved.
Load ==
    /\ Loadable(file)
    /\ task' = Loaded(file.tree)
    /\ work' = file.work
    /\ marked' = FALSE
    /\ UNCHANGED file

FileInit ==
    /\ \E tr \in Trees : file = [tree |-> tr, work |-> [t \in Ids |-> 0]]
    /\ task = Loaded(file.tree)
    /\ work = file.work
    /\ marked = FALSE

FileNext ==
    \/ Command
    \/ \E t \in Tasks, w \in Works : SetActual(t, w)
    \/ Save \/ Load

FileSpec == FileInit /\ [][FileNext]_fileVars
-----------------------------------------------------------------------------
(***************************************************************************)
(* Properties                                                              *)
(***************************************************************************)
\* What was saved is read back: a project without a mark has the tasks of its
\* file, and an open task that is no routine comes back as it is.
OpenWorkKept ==
    ~marked =>
        /\ DOMAIN Loaded(file.tree) = Tasks
        /\ \A t \in Tasks :
              /\ file.work[t] = work[t]
              /\ Open(t) /\ ~task[t].repeats => Loaded(file.tree)[t] = task[t]

\* The same of every task, finished or not, as "a successful update command is
\* saved to the task file" promises.
EverythingKept == ~marked => Loaded(file.tree) = task

\* A project that was saved can be read again, so that the commands that
\* succeed never leave a storage that no process can load.
StaysLoadable == ~marked => Loadable(file)
=============================================================================
