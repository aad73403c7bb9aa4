# Schronu in TLA+

Schronu keeps a person's tasks as trees, one `project.yaml` per project, in a
directory that several processes share: `schronu-mcp` servers, interactive
`schronu` sessions and one-shot `schronu <command>` processes. It plans the
tasks around each other and shows the plan. This directory holds TLA+ models of
its parts, TLC configurations that check them on small instances, and proofs
that the TLA+ proof system checks. `PROJECT.json` lists the components, the
runs, the source lines of every definition, the hazards and the findings.

Source paths are relative to `src/src/`; `README:n` is a line of the
repository's README.

## 1. The system

| Component | Source | State | Operations |
|---|---|---|---|
| Storage lock | `adapter/gateway/storage_lock.rs` | the OS lock on `.lock` | acquire, acquire with retries (10 ms, 1 s), drop |
| Repository | `adapter/gateway/task_repository.rs` | projects with dirty marks, last seen revision, last clock | load, reload if changed, save, start a project, sync clock, select a task |
| Transaction | `application/repository_transaction.rs` | none | lock, reload, operate, save, unlock |
| MCP server | `adapter/mcp.rs`, `adapter/mcp/*` | lifecycle, `repository_state_uncertain` | initialize, list tools, call one of the tools |
| Session | `adapter/controller/schronu/runtime.rs` | focus, selection mode, last drawn focus and its start | submit, refresh, exit, end of input, interrupt |
| Input loop | `.../interactive.rs` | line, cursor, refresh deadline | keys, idle timeout |
| Commands | `.../command.rs`, `.../handler.rs`, `.../runtime.rs` | none | about forty commands |
| Task tree | `entity/task.rs` | nodes with attributes, parents, dirty marks | attributes with their constraints, status, create, reparent, leaves |
| Use cases | `application/task_use_case.rs` | none | create, break down, defer, complete, update, list |
| Planning | `application/{schedule,pack,flatten}_use_case.rs` | none | place tasks, move start times |
| Free time | `application/daily_capacity.rs`, `adapter/gateway/free_time_manager.rs` | busy slots | load, free minutes between two times |
| Codec, configuration | `adapter/gateway/yaml.rs`, `adapter/gateway/schronu_config.rs` | none | conversions |

**How they interact.** A user's line, a `tools/call`, the idle refresh, leaving
and start-up are each one *storage operation*: take the lock; load everything
again unless `.revision` is the one last seen; run; write `.revision` and then
every changed project, file by file; drop the lock. Nothing else is shared
between processes. Within a process everything runs on one thread; the thread
that reads the keyboard only sends keys to it. Inside an operation the commands
and tools call the use cases, these the task tree; the list, the calendar,
packing and flattening compute a schedule from the whole forest, the schedule
asks the tree when each task is available, and packing and flattening ask the
free time of a day and then change start times.

**What is hard about it, and what makes each part correct.**

- *Shared storage.* Crashes, kills and write errors between the lock, the
  revision and each file; copies in memory trusted across operations. Correct:
  operations are serialised, a trusted copy is the content of the files, what was
  reported as saved is never lost, nobody waits for ever.
- *The session.* The focus is kept across operations while others finish, reopen
  and remove tasks. Correct: the focus is a task there is; a command acts on the
  task the user saw; working time is charged from the moment the focus came; a
  session left alone comes to show what others did.
- *The server.* Refused and failed calls leave things in memory. Correct: each
  call takes its whole effect on the stored tasks or none.
- *The tree.* Deadlines and open work under changing parents, estimates that are
  split. Correct: one tree, nothing open is lost from sight or from the file.
- *Time.* Derived statuses at the second a deadline or a pending time is reached,
  routines, the business day that begins at 06:00. Correct: work is offered in
  time, routines go on and forward, all commands mean the same by a word.
- *Planning.* Loops that place work around work placed before. Correct: they end,
  no two pieces overlap, nothing is before what it depends on, all work is
  planned, moving work makes nothing else late.

The hazards are listed one by one, at their lines, in `PROJECT.json`.

## 2. Modules

Abstract specifications are in italics.

| Module | What it is |
|---|---|
| *`ProjectStore`* | what the storage directory promises, without locks, caches or processes |
| `TaskStorage` | the shared directory and all processes that use it; implements `ProjectStore` |
| `InteractiveShell` | the session on top of serialised storage operations |
| `FocusSelection` | which task a session focuses on by itself: the walk to the leaves, the two orders, shifting from task to task; its choices are those `InteractiveShell` leaves open |
| `LineEditor` | keys, the line, the cursor, the screen, and the events of the input loop |
| `CommandLine` | every command, what it demands of its words, what its handler may refuse, in a session and outside |
| `ProgramRun` | a run of the program from its arguments to its exit code: what can fail, where it is told, what is saved |
| `DateExpressions` | the words of the commands about time |
| *`TaskService`* | what an MCP client may rely on, without memory, files, revisions and locks |
| `McpServer` | a server session: envelope, lifecycle, calls, failed saves, other processes; implements `TaskService` |
| `TaskTools` | what each tool's use case does to the tasks |
| `McpInput` | published schemas and decoders of all tools |
| `TaskQueries` | `get_schedule` and `list_tasks` of a period |
| `TaskTree` | one project: create, insert, split, deadlines, appointments, finishing, deferring, the walk |
| `TaskFile` | `TaskTree` with its marks, its file and reading it back |
| `TaskRecord` | one task in its file, attribute by attribute |
| `TaskStatus` | the derived status over stored status, pending time, start, deadline, work and clock |
| `Repetition`, `BusinessTime` | routines: finishing, the next one, deferring one or all overdue ones; the business day |
| `Availability` | when each task of a project can begin: the three passes along a chain |
| *`WorkPlan`* | a plan as such: tasks one after the other, each after its children, all of its work, in pieces that are long enough |
| `Schedule` | the loops that plan all tasks, turn by turn; implements `WorkPlan` |
| `Timetable` | the same plan as a function of the tasks, for times in whole units |
| `DayPlan` | flattening and packing |
| `FreeTime` | busy slots, free minutes, the capacity of a day |
| `TaskList` | the list of tasks, the calendar and the band |
| `Configuration` | reading the configuration |
| `FocusedLink` | the link that is opened for a task |
| `Projects` | `TaskFile`, `TaskRecord` and `FocusSelection` in one specification |
| `TaskTimes` | `TaskStatus`, `Repetition`, `FreeTime` and `DateExpressions` in one specification |
| `Planning` | `Availability`, `DayPlan`, `TaskQueries` and `TaskList` in one specification |
| `Interfaces` | `McpServer`, the decoder of `McpInput`, `CommandLine`, `LineEditor`, `ProgramRun`, `Configuration` and `FocusedLink` in one specification |
| `FiniteSums` | facts about finite sets, least elements, sums, and functions by recursion |
| `*_proofs` | theorems about the module of that name; `TaskTree_proofs` is about `Projects`, `Task_proofs` about `TaskTimes`, `McpServer_proofs` about `Interfaces`, `Schedule_proofs` about `DayPlan` too, `Planning_proofs` about `Planning` |
| `MC_*` | instances for TLC |

Modules that interact are composed: `TaskFile` extends `TaskTree`, `TaskRecord`
extends `TaskStatus`, `DayPlan` extends `Availability` and `Timetable`,
`TaskQueries` and `TaskList` extend `Timetable`, `McpServer` extends `TaskTools`
and `McpInput`, `FocusSelection` and `DateExpressions` instantiate `TaskStatus`.
`InteractiveShell` and `McpServer` take one storage operation as one step;
`TaskStorage` is what allows that: `OneAtATime` says that no other operation runs
meanwhile and `OperatesOnLatest` that it starts from what all others saved.

### Reading the models next to the code

**`TaskStorage`.** `lock` is the flock held through a `StorageLock`; `revision`
is `.revision`, whose UUIDs are numbered in the order they reach the disk;
`file[path]` is a `project.yaml`: whose project it holds and which operations'
effects; `mem[p]` is `TaskRepository` with the poisoning flag of a server;
`pc[p]` and `txn[p]` are where in `run_repository_transaction` a process is.
The content of a project is the *set of operations* applied to it, which is all
these properties tell apart. Each action of `Step(p)` is a stretch of code
between two points where the process can die or be overtaken. One write of a
file is atomic, since the code writes a temporary file, syncs and renames it.

**`InteractiveShell`.** `disk` and `view` are what the next operation will load
and what the last one loaded; `sel` is focus and mode; `last` and `started` are
the last drawn focus and the start of its clock. A task is its derived status.
`Submit` is reconcile, command, reconcile, save, draw, as in
`handle_interactive_submit_at`. `Others` is every other process.

**`McpServer`.** `mem`, `current` and `file` are the tasks in memory, whether the
revision is the one remembered, and the tasks in the files. A call is one step:
its tool runs on what `reload_if_changed` gives, and a failed save may or may not
have replaced the file, also when the tasks of the model are the same before and
after. An update naming no field is no call: the decoder
refuses it (`input.rs`, `UpdateTaskInput`).

**`TaskTree`.** `task` is a function from ids to records with a parent; every
command that changes the tree is an action with the checks of its handler. The
file of `TaskFile` is what the last save wrote, and a mark is what decides
whether there is another.

**`Schedule`.** `waiting`, `end`, `slots` are the tasks not planned yet, when the
planned ones are finished, and the segments of work; `cur`, `at`, `left` the task
being planned, where its next segment may begin and its work without a segment.
One action is one turn of a loop of `schedule_tasks_by_priority`.

In every module the comment above a definition names what it abstracts.

## 3. Runs

Parts that never meet share a run: a variable `part` says what a behaviour is
about, the rest of the variables are at rest, and a property of one part is
stated for it. `Projects`, `TaskTimes`, `Planning` and `Interfaces` do so for any
constants, so that what the runs `tree`, `days`, `plan` and `mcp` check is what the
theorems state.

| Run | Instance | Checks |
|---|---|---|
| `storage_safety` | a server, a session, 2 projects, 2 operations, 2 revisions | `OneAtATime`, `CacheCoherence`, `Durable`, `OperatesOnLatest`, and that `TaskStorage` implements `ProjectStore` |
| `storage_live` | a server, a session, a one-shot command, 1 project, 2 operations | `IndInv`, the inductive invariant of the proofs; `EveryRequestEnds` |
| `shell` | a project with a subtask and another project; a pair of projects with a clock | `FocusSound`, `ActsOnShown`, `NoWorkFromBefore`, `SeesTheOthers_Pair` |
| `tree` | parts: the shape of trees of four tasks; estimates, and deadlines, on three; the file of two; the record of one task; the focus over two trees | `TypeOK`, `SplitKeepsTotal`, `DeadlineCovers` on trees; `SavedIsRead` of files and records; `StaysInSightOfAll`: no open work drops out of sight, what is put below work in sight is in sight, and the selection finds it |
| `days` | parts: a routine over a fortnight; a task through every setter; days of four slots in weeks of two days; the words about time, before a leap day and at the end of a year | `StatusSound`, `TimeKeepsDue`, `WaitingEnds`; `GoesOn`, `DefersForward`, `NextIsLater`, `EstimateFollowsWork`, `SweepEnds`; `CapacityIsFree`; `DatesAgree` |
| `plan` | parts: chains and trees of three tasks; the schedule of four; flattening and packing four over short days; queries and lists over a few days | `TimesFit`; `SoundPlan`, `IsTimetable`, `AllPlanned`, `IsWorkPlan`; `FlatteningKeepsTime`, `FlatteningGoesOn`; `PacksTheDay`; `AnswersTheDay`; `ListIsTrue` |
| `mcp` | parts: the server on a routine and two tasks; the decoder on every combination of right and wrong fields; every command with up to two words; the editor; runs of the program; configurations; links | `MemoryIsFile` and that `McpServer` implements `TaskService`; `CallsAreUnderstood`; `InterfaceSound` |
| `storage_shared_path` | a server, 2 projects on one path | violated: `Durable` (finding 1) |
| `shell_wrong_input` | 2 projects | violated: `InvalidInputReturnsToPrompt` (finding 2) |
| `shell_lost_focus` | 2 projects, 2 moments | violated: `WorkCountsFromFocus` (finding 3) |
| `routine_night` | a routine due at 01:00 | violated: `SweepEnds` (finding 4) |
| `file_loadable` | the file of a project, and work that is less than nothing | violated: `StaysLoadable` (finding 5) |

**Bounds.** `MaxOps` bounds operations that change something, `MaxRevision` the
revisions at which an operation may still begin. Two projects are the fewest that
make a save stop half-way; two operations and revisions let a second process save
between two of the first, and a third load what a crashed save left. Three tasks
give the session a parent, a child to finish first, and a task elsewhere for the
focus to go to. Four tasks give a tree a chain that is inserted between two, with
a sibling. In `TaskRecord`, `MaxChanges` is two: one change and one that undoes or
meets it; times are in half seconds, so that fractions are lost. A routine is
followed for two occurrences, with times before and after 06:00. In `Schedule`
four tasks are two that overlap, one in pieces around them and a parent; a piece
of one unit is too short, and doubling all times gives the case in which no cut
is. Days have four to eight slots with a night. Flattening and packing begin late in
a night, with one busy hour of the day left and three whole days after it, so that
the capacity of the running day is the one after midnight, which counts that hour.
Begun by day, they would find the first day shorter by the hours gone; the theorems
are about any moment. What the proofs of section 4 say has no such bounds.

**Deadlock** is checked in the runs of `TaskStorage` and `InteractiveShell`. The
others may stop: all tasks are planned, a bound is reached, a program has ended.

**Fairness.** `TaskStorage` assumes `WF_vars(Progress(p))` for each process: the
code of a process that was asked something runs on, without the help of a fault
that would end its request. Nobody has to ask anything, and no fairness is asked
of getting the lock: a contended process refuses, at once or after a second.
`InteractiveShell` assumes `WF_vars(Refresh)`: the idle timer is armed again after
every attempt (`interactive.rs:233`, `:248`). `SeesTheOthers` is stated for a
session nobody types into and others that have stopped changing tasks, because
every key postpones the refresh. The turns of `Schedule`, and those of `Sweep` in
`Repetition`, are the loops of one call, and go on. `SyncClock` in `TaskStatus` is
what every operation begins with.

**What is left out, part by part.** `TaskTools` has one deadline; several of them
are in `TaskTree`. In `LineEditor` lines are narrower than the terminal, and the
cursor stops before a character of no width, as Ctrl-E and the arrows do. In
`TaskList` sums are exact, the free time of a day is at most the whole day and all of
it but for today, every piece of the plan begins on a day whose time is known, the id
drawn for a gap is that of no task, and the look of a row is left out. In `FocusSelection` a submitted line is a refresh
and a command, and the tree is fixed. `ProgramRun` can always write to stderr, and
other processes are a lock that is taken. `FocusedLink` takes what `Url::parse`
takes to be the beginnings from a length on. `TaskRecord` leaves out names and
ids, and `SavedIsSeen` files without a start (each process makes it the time it
reads them) and finished tasks and routines, whose attributes the reader changes
(`ReadingSettles` is about them too).


## 4. Proofs

The theorems hold for every value of the constants that the named assumptions of
the modules allow. `PROJECT.json` lists each one with the property it states.

| Module | Theorems |
|---|---|
| `TaskStorage_proofs` | `TypeCorrect`, `MutualExclusion`, `Invariance`, `Coherence`, `Durability`, `Freshness`, `Refinement` |
| `InteractiveShell_proofs` | `FocusSoundness`, `OnShown`, `NeverFromBefore`, `ShellTypeCorrect` |
| `TaskTree_proofs` | of the trees: `TypeCorrect`, `DeadlinesCover`, `SplitsKeepTotal`, `WorkStaysInSight`, `FileTypeCorrect`, `OpenWorkIsKept`; of the record of a task: `RecordInvariance`, `RecordKept`; of `Projects`: `WhatIsSavedIsRead`, `AllStaysInSight` |
| `Task_proofs` | of the status: `StatusInvariance`, `StatusTypeCorrect`, `DeadlineKept`, `NotAvailable`, `StatusIsSound`, `DueKept`; of routines: `RoutineInvariance`, `RoutineTypeCorrect`, `RoutineGoesOn`, `DefersMoveForward`, `NextComesLater`, `EstimateFollows`; of `TaskTimes`: `CapacityCounts`, `WordsAgree` |
| `Schedule_proofs` | `Invariance`, `TypeCorrect`, `PlanIsSound`, `Refinement`, `PlansTheTable`; of `DayPlan` alone `TimesFitProject`, `FlattenIsSound`, `PackingIsSound` |
| `Planning_proofs` | of `TaskQueries` alone `AnswersTheQuery`; of `Planning`: `PlansFitTimes`, `FlatteningIsInTime`, `FlatteningPutsOff`, `PackingIsDone`, `DaysAreAnswered`, `ListTellsTheTruth` |
| `McpServer_proofs` | of the server: `AnswersFromTheFiles`, `ImplementsService`; of the decoder: `DecoderAgrees`; of `Interfaces`: `CallsUnderstood`, `InterfacesSound` |
| `FiniteSums` | lemmas: least elements, also in an order of records; images and sums of finite sets; functions by recursion and induction along a rank; sums along a sequence, and a set listed in a strict order |

**The storage.** That a trusted copy equals the files is not inductive: it says
nothing of a process in the middle of a save, whose copy is ahead of the files.
`IndInv` (checked by `storage_live`) adds what is true there:

- `LockInv`: whoever is between taking and dropping the lock holds it.
- `TxnInv`: nothing is recorded of a transaction outside one, and a poisoned
  server stays idle.
- `RevisionInv`: nobody remembers a revision that is not on disk yet, and while
  projects are being written nobody remembers the one on disk, not even the
  writer. This is what writing `.revision` *before* the projects buys: whatever
  the writer leaves behind by dying, every process will load again.
- `RunningInv`: an operation under way belongs to one process, which has its
  projects marked.
- `SavingInv`: while saving, the copy has what the files have, and the operation
  in those projects still to be written.
- `CacheCoherence` and `Durable` themselves.

`OperatesOnLatest` follows, since a process that operates has a valid cache. For
the refinement of `ProjectStore`, `store` maps each root to what a load would
find; `Apply` is `Begin`, `WriteProject` is `Commit` or a stutter, the end of a
save is `Acknowledge`, a failure or death is `GiveUp`, all else stutters.
`DistinctPaths`, no two projects with one path, is a hypothesis of these theorems
and no assumption of the module, because the code does not ensure it (finding 1).

**The session.** Each theorem has an invariant of its own. `FocusInv`:
reconciling makes *any* selection with a known mode sound, so what remains is
that no command leaves an unknown mode. `ShownInv`: at a prompt the focus is the
shown one, or the reload that moved it explains why; the last case is needed for
a failed attempt to leave, after which the screen is not drawn. `ClockInv`: while
every screen had a focus, the last drawn focus is the present one or forgotten, so
that drawing another one starts the clock. It is its first half that fails once a
screen without a focus came up (finding 3). `ShellTypeCorrect` needs that the tasks are
closed under parents. The recursion for the ancestors has a solution, the tasks that are
in every set closed under parents, so that one step of it can be used (`AncestorsOf`); and
a command only makes a task present whose parent is (`OutcomesType`). That going up ends
is now an assumption (`ForestAssumption`): without it the ancestors are not determined.

**The server.** `ServerInv` adds to `MemoryIsFile` that the tasks in the file are
well typed and that what is uncertain is one of two states. A refused call is the
step that needs an argument: `update_task` runs three use cases one after the
other on tasks in memory, and nothing undoes the first when the second refuses.
The estimate comes first, and only the estimate can be refused for a task that is
there (`RefusedChangesNothing`). For `ImplementsService`, each tool is shown to
have the effect the service names (`CallTakesEffect`), to run only when that is
sensible (`DoneIsSensible`), and to refuse only when it is not
(`RefusedIsNotSensible`).

`DecoderAgrees` is about the arguments of a call, for any JSON value (`IsArguments`:
values by their types, an unknown member of an object being `extra`). The members
are read in the order of their names and the first that cannot be read decides the
answer; that this is one of the errors and that there is none only when every
member was read is all that the order contributes (`FirstErrorIsOne`,
`MembersAreRead`). The rest is shown value by value (`ValuesAgree`). A period given
as a list is the one value that is read and not admitted (`RunIsAdmitted` below),
and even that one means something. `CallsUnderstood` is this of every call sent.

**Lines, keys, runs.** `InterfacesSound` takes an invariant of each part.

- A line (`LineInv`): only that what was refused has changed nothing has to be kept;
  the rest holds of every line there is. The usage of each command is compared with
  what its parser demands in both directions (`UsageIsNotRefused`, `ReadHasItsWords`),
  no two handlers take the same command (`HandlersDiffer`), and every outcome of every
  handler that says something has left the tasks as they were, an escape excepted
  (`OutcomesAreHarmless`).
- The editor (`EditorInv`): the column is that of the cursor in the line. `Columns`, a sum
  by folding over positions, is the sum of widths up to each position (`ColumnsAreShown`,
  by induction on the position), so that what an arrow or the end key adds to the
  column is what lies between the two cursors (`ColumnsBetween`).
- A run of the program (`RunInv`) says for each step what can be unsaved and untold there:
  before the first task nothing; between an operation and its save the changes of one
  operation; at the end only with the error that is the reason; files are torn only
  with the error of saving.
- The configuration (`ConfigInv`): what is read is what the document has. That an
  extrusion has a day to go to is that seven different names would be all days
  (`SomeDayIsLeft`).
- The link (`LinkInv`): the bounds close on the end of the link, which is between them, and
  after as many halvings as there are characters nothing else is (`BisectionFinds`, by
  induction on the distance of the bounds).

**The tree.** That the way up from every task ends at the project is stated over
the recursive way up, and used as: every set of tasks that is closed under parents
and has the task has the project (`InEveryClosedSet`). Put that way a command
preserves it by one instance of the old fact, without induction over the tree. Deadlines
need the tree alone: the walk of `DeadlineCovers` stops where the code's does.
`SplitKeepsTotal` is a sum over all tasks of which one term changes and one is new
(`FiniteSums`). What is put below a task in sight is in sight because its way up
leads over that task, which the walk still reaches (`PutInSight`). In `TaskFile` the invariant is that an unmarked project has the
tasks of its file.

**The focus.** `AllStaysInSight` adds to the trees what `FocusSelection` chooses.
Its walk is a recursion along the depth of a task, and what it finds is shown by
induction along the rank (`RankInduction` of `FiniteSums`) to be the leaves of
`InteractiveShell`. Each mode takes the least or greatest of them in an order of keys,
and there is one as the keys are totally ordered; that the list of leaves ends in
the focus and that putting off one task after the other goes on to the next
(`SiftGoesOn`) compares those keys before and after.

**One task, its file and its routine.** `StatusInv` adds to the types that while
nothing changed since the status was derived, deriving it again changes nothing;
`StatusSound` reads it off. `RecordInv` adds where an unmarked task comes from: its
file is what the writer makes of it, or the task is what the reader made of its
file (`InFile`). What the writer makes depends only on the attributes whose change
marks a task. Reading that again changes nothing, for any clock: the times in it
are whole already, and deriving a status is idempotent, the waiting time that is
cut to the deadline included (`RecordKept`). The hypothesis `IsRecord` says that an
edited file holds in each field a value of its kind, or one the reader refuses,
and that the constants are whole seconds; `Projects` assumes it. The theorems about `Repetition` are arithmetic of
times and business days, with `DefersForward` and `NextIsLater` stated for routines due by day,
as finding 4 says why.

**The words about time.** `WordsAgree` starts from the calendar: every second has
one date and one time of day, the days of a year are those of its months, and a
date is found again from its day by cycles of 1461 days. So two commands
that compute a day by different ways come to the same one. The commands are functions of a
leaf; each leaves a well-typed one (`LeafInv`), and what it makes of the time the
leaf waits for is shown command by command. The hypothesis `AreWords` says what
the parser lets through as a word; `TaskTimes` assumes it.

**The plan.** The invariant says of the task being planned where it goes on: not before
what it depends on is finished nor before the end of its own pieces (`OnTheWay`);
and that its pieces and what is left make up its work, with all pieces and what is
left longer than the shortest (`Pieces`). The turns of one task are stutters of
`WorkPlan`, the last is its `Plan`.

`PlansTheTable` compares what all turns came to with a function of the tasks, for
times in whole units. Its invariant `InTable` says that the tasks planned so far
are the first ones of the table, with the pieces and ends it gives them: the next
task is determined, because the order of the keys is antisymmetric and the ids
break ties. Of the task being planned it says that it has every free hour from
where it began to where it goes on, that no two of its pieces adjoin, and that
no cut was too short, so that the pieces of the loop are the runs of free hours of
the table.

**Times, days and what is moved.** `Availability`, `FreeTime` and `DayPlan` are
functions of their data, and what their properties say is proved from what the
recursion gives. The library's induction takes an operator as a parameter; so
`FiniteSums` proves once that a function defined along a rank has the value its
definition says (`Recursion`), and that a set which has each element whose
elements of lower rank it has is everything (`RankInduction`). Each use of these
is a set.

`TimesFitProject` rests on what the three passes make of any chain (`PassesFit`). The
second goes down from the root with the latest time by which all above can still
be in time, and the third, going up again, never comes later than that. Where a
task begins before its own time, the work from it up to some task of the chain, done
without a gap, ends exactly at the deadline of that task; so nothing is moved
further than a deadline demands.

`CapacityCounts`: the days part the times between the beginning and the end, so
that what is counted day by day is what is free in all.

`FlattenIsSound`: that no task became late is transitive (`LatenessIsTransitive`),
and so need only be shown of one move. The invariant `AreFlattened` says that what
is being flattened is a plan of the tasks as they are now: each task has as many
hours as it has work, and its days are those of its hours. A plan exists because
among tasks not planned yet one of least rank is ready, and which is next is
determined because keys are totally ordered and end with the id.
The hypothesis `AreDays` says that tasks, times and days are such: finitely many
tasks, children that come earlier in a rank, days one after the other, and free
hours that are numbers.

`PackingIsSound`: between what packing saves and the plan made from it lies the
question whether what was found in the trial still holds, and the invariant
`PackInv` says of that moment that the trial stands (`JustPacked`); besides, every
waiting time is one that deriving the status leaves (`InTime`), and the tasks
queued are leaves that have work left. A task tried later begins later
(`LaterBeginsLater`), so that a place before its old one shows that the hour tried
lies before its own time. What is saved then makes it available between that
hour and the one where it began (`SavedIsBetween`: no deadline of the tasks above
it reaches in between), and it changes the times of nothing but the task and
those above it (`OnlyTimesChange`). The tasks planned before it keep their hours
from the trial to the new plan (`SameUntilTurn`, by induction on the turn, and
`TrialHolds`), unless one of them is of the same deadline and priority and only by
its availability comes first: the exception `PackedStays` makes. The
day counted in the trial is then the day of the plan, but for the work of others
that follows (`TargetIsKept`).

`AnswersTheQuery`: the segments of a plan are runs of its hours and cover them
(`SegmentIsRun`, `SegmentsCover`), so that the entries shown for a business day cover
exactly its hours of work; and a time has one date (`DatesAreDays`).

`ListTellsTheTruth`: the list is shown once and the world stays, so the invariant
(`ListInv`) is that what is shown is what is made of the world; what is to be shown is
what the list and the calendar have in common. Both are made of the pieces in reach
of the question, each once, in the order of their times (`ConsideredInTurn`, from the
lemmas of `FiniteSums` about a set listed in a strict order). The rows are described
without their order (`AreRows`): pieces, the ones among them that are marked, and gaps
between neighbours; marking and sorting leave that description true (`ReorderedRows`). The
calendar has the dates of the pieces and of each its sums (`IsCalendar`), and a sum over
the pieces is the sum over the dates. What is carried from day to day is a recurrence,
and `ShortageIsBacklog` is its solution: the greatest of the runs of days that end there, by
induction on the day. `GiveUpsSuffice` is about a prefix in the order of giving up:
the least that adds up to what is lacking. For `BandIsADay` the parts of a day are rounded
one after the other so that the sums of the first ones stay in order.

`PlanningInv` is the invariant of each part while it is the one the behaviour is about; the
theorems over `Planning` follow from it, under the assumptions of that module.

**What proving corrected in the models.** `Chain` of `Availability` sorted a set,
where the code walks up from the leaf and has the sequence at once; the mark for no
parent could have been a task; and `DayPlan` did not say what the attributes of
tasks are. `McpServer` allowed an update that names no field, for which the memory
of a refused call and the service disagreed; the decoder refuses it. Its lifecycle after a lost session did not determine the state
of the service. `McpInput` gave no answer for a period with the name of another field in it;
the decoder takes it for an unknown member. The ids of `TaskTree` have to be finite for sums to mean anything.

`DayPlan` said that a task packed is on its day, and that packing keeps to the
target when nothing comes to the day along with it. Looking for the argument showed
why neither is so (`PackedIsThere`, `KeepsTargetLoad` below), and the run, whose
instance had no work reaching from one day into the next, has tasks now
with which it happens; `PackedStays` and `PacksToTarget` say what does hold.
An earlier `PackedStays` wanted the other task planned before the packed one, which a
task in one piece need not be: it can be passed over and still have taken the place in
the trial. Its initial states had tasks put off beyond what their deadline allows, which
deriving the status cuts (`InTime`).
`DateExpressions` said that what is put off stays put off for any word but a date;
a number or an amount of time that is not positive is accepted as well
(`runtime.rs:4317`, `4370`) and ends the waiting at once, so `PutsOff` excludes it, and the
run types one. `CommandLine` had cases that overlap, of which the code takes the first and
TLA+ any.
`TaskList` let a gap have the id of a task, where the code draws a new one, and let the
free time of a day to come be less than that of the whole day, where it is the same number:
the band of such a day would have left time out.

**Only model-checked.** Liveness and the fairness it rests on (`EveryRequestEnds`,
`SeesTheOthers_Pair`, `WaitingEnds`, `SweepEnds`, `AllPlanned`): weak fairness is about
when an action is enabled, of which tlapm knows nothing. Every other property of a
passing run has a theorem. `Schedule_proofs` holds what is about `Schedule` and what is about
`DayPlan`, which the run puts together as well; neither uses an assumption of the other.

## 5. Findings

Each has a run that reaches it.

1. **Two projects can share a file** (`task_repository.rs:745`). The directory
   of a new project is the day and its name; two projects created on one day
   under one name overwrite each other, though README:391 says that commands
   that succeeded are saved. `storage_shared_path`.
2. **A mistyped line can end the session** (`runtime.rs:12605`). Parse errors are
   passed out of the storage operation and end the program; README:393 says the
   prompt comes back. `shell_wrong_input`.
3. **Working time can be charged from an earlier focus** (`runtime.rs:12261`).
   After the focus was given up with nothing else to take it, setting it to the
   same task again leaves its clock at the earlier start. `shell_lost_focus`.
4. **A routine due at night is put off for ever** (`runtime.rs:4614`). A daily
   routine due between 00:00 and 06:00 is put off to the deadline it has; the loop
   over overdue routines does not end, and holds the lock. `routine_night`.
5. **A storage can become unreadable** (`runtime.rs:4819`). The command for
   actual work saves a negative number, and the reader refuses all tasks.
   `file_loadable`.

Some more statements of the repository do not hold. Their operators are in the
modules, and naming one in a `.cfg` reproduces a trace:

| Operator | Where | What happens |
|---|---|---|
| `EverythingKept` | `yaml.rs:514` | the deadline of a finished task is not read back |
| `ChildrenDueFirst` | `task.rs:1737` | a child put under a parent can be due after it |
| `DeadlineIsSet` | `task.rs:2041` | a deadline later than the one there is has no effect: the sooner one stays |
| `LeavesComplete` | `task.rs:619` | the leaves leave out open tasks under finished ones |
| `CapacityMindsBusySlots` | `daily_capacity.rs:63` | what is left of a day after midnight counts busy slots as free |
| `KeepsTargetLoad` | `pack_use_case.rs:115` | packing can exceed the load it aims at, when other work follows the packed task to its day |
| `PackedIsThere` | `pack_use_case.rs:218` | a task packed can be planned beyond the end of its day: it was tried as available from the beginning of the day, and what is saved is the time it then began, so that tasks of the same deadline and priority that are available by then can go before it |
| `WaitsNoLonger` | `pack_use_case.rs:150` | for the same reason packing can make a waiting time later, where README:311 says that it makes them earlier |
| `ViolationIsProtocolError` | `input.rs:892` | arguments outside the schema are answered as a tool's error |
| `RunIsAdmitted` | `input.rs:630` | the decoder takes what the schema does not |
| `BegunInPeriodIsShown` | `handler.rs:170` | `get_schedule` leaves out a task without work planned for the very beginning of the period |
| `NearDeadlineIsTodo` | `task.rs:1026` | a task close to its deadline stays pending at the very second of its start |
| `DeferExtendsDeadline` | `runtime.rs:4590` | deferring does not move the deadline along |
| `MovedIsThere` | `flatten_use_case.rs:228` | a task reported to go to a day can be planned before it |
| `SiftAlwaysGoesOn` | `runtime.rs`, selection | a task put off stays in focus when its deadline is too near to wait |
| `EveryReaderMayLeave` | `runtime.rs`, output | a closed pipe ends `検証` with a panic |
| `LongestLink` | `runtime.rs`, links | a short link followed by a long text opens an empty one |

Seen while modelling, and stated in the comments of the modules concerned: the
escaping command (`逃`) saves a doubled estimate before it refuses the new time
(`runtime.rs:8992`); `低` with too many days ends the session; a deferral whose
handler fails, or whose output cannot be written, ends the session unsaved; messages inside
an outcome are not errors of a one-shot run; `繰` does not use its start and
deadline words; `後 90` means seconds, and a date of the past or an amount that is not positive is taken; words with
a time of day count from the business day in some commands and from the calendar
date in others; in the list, the warnings of today and tomorrow are those of the
first two dates that have tasks, days without tasks do not drain the backlog, and a
number with `全` compares a piece and not a task.

## 6. Not modelled

- Power failure: a crash is the death of a process, and what it wrote stays.
- Editing `.revision` or `project.yaml` while processes run, which the README
  rules out; a hand-made file without an id gets another id in each process.
- The 10 ms and 1 s of the lock retries: contention "may refuse".
- Changes of the wall clock, and the ends of the calendar's range.
- Wording, layout, colours, and serialisation as text.
- The spreadsheet scripts, the tests, and continuous integration.

## 7. Plan

What is worth doing next: the relation between the list of `TaskList` and what
`TaskQueries` answers about the same days; and the attributes of a routine in
`TaskRecord` that the reader changes.
