------------------------------ MODULE ProgramRun ------------------------------
(***************************************************************************)
(* A run of the program from its configuration to its exit code: runtime.rs *)
(* and interactive.rs of controller/schronu, with renderer.rs for what      *)
(* becomes of the output.  The words after the program's name are a command *)
(* that is run once; without any there is a session.  What matters here is  *)
(* how everything that can go wrong ends: what is in the files then, what   *)
(* the user is told, and what the exit code says.  What commands do to      *)
(* tasks is left to the other modules, and of other processes nothing is    *)
(* seen but that the lock may be taken.  Standard error can be written.     *)
(***************************************************************************)
EXTENDS FiniteSets

VARIABLES
    program,   \* "command", "verify" (a command of its own kind) or "session"
    doing,     \* the step the program is at
    output,    \* standard output: "open", "closed" once its reader has left, or "broken"
    unsaved,   \* the tasks in memory have changes that the files do not have
    files,     \* "old", "new" once something was saved, "torn" by a save that failed
    met,       \* what has gone wrong since the program began or last asked
    told,      \* what the user has been told since then
    error,     \* RunError: what the program ends with
    exit       \* "none" while it runs, then "success", "failure" or "panic"

vars == <<program, doing, output, unsaved, files, met, told, error, exit>>

Once == program = "command"
Session == program = "session"
Memory == <<unsaved, files>>
Talk == <<met, told>>

\* What may go wrong: with the configuration, the storage directory, the line,
\* the busy time slots, the lock, reading the files, a task tree that cannot
\* be walked, an operation that is refused, the output, a browser that does not
\* start, saving the files; and how a session's input may end.
Problems == {"config", "directory", "line", "busy", "lock", "load", "tree", "refused",
             "output", "opener", "save", "disconnected", "unreadable", "interrupted"}

TypeOK ==
    /\ program \in {"command", "verify", "session"}
    /\ output \in {"open", "closed", "broken"}
    /\ unsaved \in BOOLEAN
    /\ files \in {"old", "new", "torn"}
    /\ met \subseteq Problems /\ told \subseteq Problems /\ error \subseteq Problems
    /\ exit \in {"none", "success", "failure", "panic"}

Init ==
    /\ program \in {"command", "verify", "session"}
    /\ doing = "start" /\ output = "open"
    /\ unsaved = FALSE /\ files = "old"
    /\ met = {} /\ told = {} /\ error = {} /\ exit = "none"

At(step) == exit = "none" /\ doing = step
Goes(step) == doing' = step /\ UNCHANGED <<program, output, error, exit>>
Stops(how) == exit' = how /\ UNCHANGED <<program, doing, output, error>>

\* The error goes up to application, past what is left of the session's loop.
Gives(problems) ==
    /\ error' = problems /\ doing' = "end"
    /\ met' = met \cup problems
    /\ UNCHANGED <<program, output, told, exit>>
GivesUp(problem) == Gives({problem}) /\ UNCHANGED Memory

\* What is written to a terminal is unwrapped: it goes on, or there is nothing
\* to write to.
Draws(step) ==
    /\ IF output = "open" THEN Goes(step) ELSE Stops("panic")
    /\ UNCHANGED Memory

-----------------------------------------------------------------------------
(* From the start to the first task.                                       *)

Refuses(problem) ==
    /\ met' = {problem} /\ told' = {problem}
    /\ Stops("failure")
    /\ UNCHANGED Memory

Configure ==
    /\ At("start")
    /\ \/ Refuses("config") \/ Refuses("directory")
       \/ Goes("configured") /\ UNCHANGED <<Memory, Talk>>

Parse ==
    /\ ~ Session /\ At("configured")
    /\ GivesUp("line") \/ (Goes("parsed") /\ UNCHANGED <<Memory, Talk>>)

LoadBusyTimeSlots ==
    /\ (Once /\ At("parsed")) \/ (Session /\ At("loaded"))
    /\ GivesUp("busy") \/ (Goes("ready") /\ UNCHANGED <<Memory, Talk>>)

\* reload_repository_for_cli, on its own or within the transaction.
Reload ==
    /\ CASE Session -> At("configured") [] Once -> At("ready") [] OTHER -> At("parsed")
    /\ \/ GivesUp("lock") \/ GivesUp("load")
       \/ Goes("loaded") /\ UNCHANGED <<Memory, Talk>>

\* println! panics when it cannot write.
Verify ==
    /\ program = "verify" /\ At("loaded")
    /\ Stops(IF output = "open" THEN "success" ELSE "panic")
    /\ UNCHANGED <<Memory, Talk>>

StartSession ==
    /\ Session /\ At("ready")
    /\ GivesUp("tree") \/ (Draws("prompt") /\ UNCHANGED Talk)

-----------------------------------------------------------------------------
(* An operation and its transaction.                                       *)

\* What an operation says is recorded while it runs and rendered when it has
\* ended.
Rendered == IF output = "open" THEN {} ELSE {"output"}

\* The writer of most commands goes on as if it had written, and its first
\* error is asked for at the end.  That nobody reads any more is none.
Captured == IF output = "closed" THEN {} ELSE Rendered

\* What an operation answers, and whether it has changed tasks by then: it may
\* be refused half-way, and a browser is opened where nothing was changed.
Answers ==
    [problems : {{"refused"}, {"tree"}}, changes : BOOLEAN]
    \cup {[problems |-> {"opener"}, changes |-> FALSE]}
    \cup [problems : {{}, Captured}, changes : BOOLEAN]

Operate ==
    /\ Once /\ At("loaded")
    /\ \E a \in Answers :
          /\ unsaved' = a.changes
          /\ UNCHANGED files
          /\ IF a.problems # {} THEN Gives(a.problems) ELSE Goes("operated") /\ UNCHANGED Talk

Saves ==
    /\ unsaved' = FALSE
    /\ files' = IF unsaved THEN "new" ELSE files

SaveFails == files' \in (IF unsaved THEN {files, "torn"} ELSE {files}) /\ UNCHANGED unsaved

\* Nothing is saved where nothing is pending.
Save ==
    /\ At("operated")
    /\ \/ /\ Saves
          /\ UNCHANGED Talk
          /\ IF Once THEN Stops("success") ELSE Goes("saved")
       \/ unsaved /\ SaveFails /\ Gives({"save"})

-----------------------------------------------------------------------------
(* A session's events: handle_interactive_repository_event and the answers *)
(* that run in interactive.rs gives them.                                  *)

Asked == Session /\ At("prompt")

\* Retry, or an exit that is not taken: the user is told and asked again.
Retries(problem) ==
    IF output = "open"
    THEN met' = {problem} /\ told' = {problem} /\ Goes("prompt")
    ELSE met' = {problem} /\ told' = {} /\ Stops("panic")

NotReloaded == (Retries("lock") \/ Retries("load")) /\ UNCHANGED Memory

\* The loop ends: with these problems, or none.
Ends(problems) ==
    /\ met' = problems /\ told' = {} /\ error' = problems /\ doing' = "end"
    /\ UNCHANGED <<program, output, exit>>

\* Under the lock the focus is reconciled and the line is echoed.
Submit ==
    /\ Asked
    /\ \/ NotReloaded
       \/ Ends({"tree"}) /\ UNCHANGED Memory
       \/ Draws("submitted") /\ met' = {} /\ told' = {}

\* A focus mode or a deferral: every error is given up to the session's end,
\* and what it says is written straight to the terminal.
ExecuteShort ==
    /\ At("submitted")
    /\ UNCHANGED files
    /\ \E problems \in {{}, {"refused"}, {"tree"}, Rendered}, changes \in BOOLEAN :
          /\ unsaved' = changes
          /\ IF problems # {} THEN Gives(problems) ELSE Goes("executed") /\ UNCHANGED Talk

\* Any other command: its error is shown, if it can be, and that is that.
ExecuteOther ==
    /\ At("submitted")
    /\ UNCHANGED files
    /\ \E a \in Answers :
          /\ unsaved' = a.changes
          /\ met' = a.problems
          /\ told' = IF output = "open" THEN a.problems ELSE {}
          /\ Goes("executed")

Execute == ExecuteShort \/ ExecuteOther \/ (At("submitted") /\ GivesUp("line"))

Reconcile ==
    /\ At("executed")
    /\ GivesUp("tree") \/ (Goes("operated") /\ UNCHANGED <<Memory, Talk>>)

\* The leaves and the focus are drawn, and the prompt.
Show == At("saved") /\ Draws("prompt") /\ UNCHANGED Talk

\* What the reconciliation answers is ignored, here and on the way out.
Refresh == Asked /\ (NotReloaded \/ (Draws("prompt") /\ met' = {} /\ told' = {}))

Leave ==
    /\ Asked
    /\ \/ NotReloaded
       \/ Saves /\ Ends({})
       \/ SaveFails /\ Retries("save")

\* The input has ended or cannot be read: saved if the files can be reloaded,
\* and whatever fails there is told with it.
LoseInput(how) ==
    /\ Asked
    /\ \/ (Ends({how, "lock"}) \/ Ends({how, "load"})) /\ UNCHANGED Memory
       \/ Saves /\ Ends({how})
       \/ SaveFails /\ Ends({how, "save"})

Interrupt == Asked /\ Ends({"interrupted"}) /\ UNCHANGED Memory

-----------------------------------------------------------------------------
(* The end: the session leaves the terminal as it was, and report_run_result *)
(* puts the error on standard error.                                        *)

\* All that RunError holds is in its text.
Said == error

Report ==
    /\ At("end")
    /\ IF Session /\ output # "open" THEN Stops("panic") /\ UNCHANGED told
       ELSE Stops(IF error = {} THEN "success" ELSE "failure") /\ told' = told \cup Said
    /\ UNCHANGED <<met, Memory>>

\* At any time the reader of a pipe may leave, a disk may be full, a terminal
\* may be closed.
LoseOutput ==
    /\ exit = "none" /\ output = "open"
    /\ output' \in {"closed", "broken"}
    /\ UNCHANGED <<program, doing, Memory, Talk, error, exit>>

Event == Submit \/ Refresh \/ Leave \/ LoseInput("disconnected") \/ LoseInput("unreadable") \/ Interrupt

Next ==
    \/ Configure \/ Parse \/ LoadBusyTimeSlots \/ Reload \/ Verify \/ StartSession
    \/ Operate \/ Save
    \/ Event \/ Execute \/ Reconcile \/ Show
    \/ Report \/ LoseOutput

Spec == Init /\ [][Next]_vars

-----------------------------------------------------------------------------
(***************************************************************************)
(* Properties                                                              *)
(***************************************************************************)

\* An exit code of success means that every change is in the files ("the update
\* commands that succeed are saved to the task files").
SuccessIsSaved == exit = "success" => ~ unsaved /\ files # "torn"

\* A command that fails has left the files alone, unless it was saving them.
FailureChangesNothing ==
    exit = "failure" /\ ~ Session /\ files # "old" => "save" \in told

\* Whoever waits at the prompt may be interrupted: there is nothing to save.
\* (The clock changes no task it has been synchronised with: TaskStatus.)
PromptHoldsNothing == Asked => ~ unsaved

\* A change is lost only with an error of the operation that made it, of saving
\* it or of showing it; a panic after it, or input that ends, loses nothing.
LostWithItsError ==
    exit # "none" /\ unsaved =>
        \E problem \in {"refused", "tree", "output", "save"} : error = {problem}

\* A program that fails has said all that went wrong since it last asked.
FailureIsTold == exit = "failure" => error \cup met \subseteq told /\ told # {}

\* A reader that leaves is no failure of a command ("BrokenPipe is a normal
\* exit"): it ends well if nothing else is the matter.
ReaderMayLeave == Once /\ output = "closed" => exit # "panic" /\ "output" \notin met

\* The same of every command that is run once; checking the files is one.
EveryReaderMayLeave == ~ Session /\ output = "closed" => exit # "panic"

EndsWell ==
    /\ SuccessIsSaved /\ FailureChangesNothing /\ PromptHoldsNothing
    /\ LostWithItsError /\ FailureIsTold /\ ReaderMayLeave
===============================================================================
