---------------------------- MODULE CommandLine ----------------------------
(***************************************************************************)
(* A line and what becomes of it: controller/schronu/command.rs, which     *)
(* reads it, the validation and the dispatch of runtime.rs, and the        *)
(* handlers of handler.rs as far as what they may touch and may refuse.    *)
(* What each does to the tasks is in TaskTree, Repetition, DayPlan and     *)
(* DateExpressions.                                                        *)
(*                                                                         *)
(* A line is its first word and the words after it.  The first is the name *)
(* of a command, whose other spellings it stands for, a key, "#", "0" for  *)
(* what begins with one, "other", or "" for the empty line.  Of a word     *)
(* after it only what a reader tells apart is kept: "number" is a small    *)
(* one, "big" one that is no number of seconds any more, "huge" the digits *)
(* of none that fits at all, and "bad date" looks like one.                *)
(***************************************************************************)
EXTENDS Integers, Sequences

CONSTANT Lines   \* the lines that can be typed: records of `first` and `args`

VARIABLES
    typed,    \* the line, whether in a session, and whether a task is in focus
    result    \* what came of it, or NotYet

vars == <<typed, result>>

Words == {"word", "time", "date", "bad date", "category", "id", "number", "negative", "big", "huge"}

IsInteger(w) == w \in {"number", "negative", "big"}
IsDigits(w) == w \in {"number", "big", "huge"}
IsMinutes(w) == w = "number"
NamesNothing(w) == IsInteger(w) \/ w = "huge"   \* is_integer_only_name

-----------------------------------------------------------------------------
(* The commands.                                                           *)

NewProjects == {"new", "hobby", "unplanned"}
Keys == {"t", "h", "D", "d", "w", "W", "y"}
FocusModes == {"highest", "lowest"}

\* Which handler takes which command.  The fall-back takes what is left over,
\* and must be left only these.
Takes == [
    project |-> NewProjects \cup {"sequential", "repeat", "appointment", "start"},
    breakdown |-> {"breakdown", "split", "wait"},
    attribute |-> {"deadline", "estimate", "arrange", "actual", "priority", "category", "work"},
    defer |-> Keys \cup {"defer", "defer routines", "escape", "extrude", "clear", "gather"},
    placement |-> {"finish", "pack", "flatten"},
    tree |-> {"show all", "focus", "tree", "ancestor", "root", "leaves", "tail", "today", "non-repetitive",
              "calendar", "band", "pick", "parent", "children", "deepest", "next up"},
    plain |-> FocusModes \cup {"noop", "open", "obsidian", "unfocus"},
    fallback |-> {"verify"}]

Commands == (UNION {Takes[h] : h \in DOMAIN Takes}) \ (Keys \cup {"noop"})
FirstWords == Commands \cup Keys \cup {"", "#", "0", "other"}

-----------------------------------------------------------------------------
(* The parser.                                                             *)

AtLeast(kind) ==
    CASE kind \in {"estimate", "focus", "arrange", "pick", "next up", "deadline", "category", "actual", "priority"}
                  \cup NewProjects -> 1
      [] kind = "split" -> 2
      [] kind = "sequential" -> 4
      [] kind = "repeat" -> 5
      [] OTHER -> 0

TooMany(kind, args) ==
    CASE kind = "highest" -> Len(args) > 0
      [] kind = "lowest" -> Len(args) > 1
      [] kind = "split" -> Len(args) > 2
      [] kind = "repeat" -> Len(args) > 5
      [] OTHER -> FALSE

\* The places where a number must be, of those that are filled.
Numbers_FirstOnly(kind, args) ==
    (CASE kind \in {"estimate", "arrange", "split", "actual", "priority", "work", "lowest"} -> {1}
       [] kind \in NewProjects \cup {"next up", "repeat"} -> {2}
       [] kind = "sequential" -> {2}
       [] kind = "defer" /\ Len(args) = 2 -> {1}
       [] OTHER -> {}) \cap DOMAIN args
Numbers(kind, args) ==
    (CASE kind \in {"estimate", "arrange", "split", "actual", "priority", "work", "lowest"} -> {1}
       [] kind \in NewProjects \cup {"next up", "repeat"} -> {2}
       [] kind = "sequential" -> 2..4
       [] kind = "defer" /\ Len(args) = 2 -> {1}
       [] OTHER -> {}) \cap DOMAIN args

Refused(kind, args) ==
    \/ Len(args) < AtLeast(kind) \/ TooMany(kind, args)
    \/ \E i \in Numbers(kind, args) : ~ IsInteger(args[i]) \/ (kind = "lowest" /\ ~ IsDigits(args[i]))
    \/ kind \in {"focus", "pick"} /\ args # << >> /\ args[1] # "id"

NoCommand == [kind |-> "refused", args |-> << >>]
Command(kind, args) == [kind |-> kind, args |-> args]

\* The keys are read in a session only, and only there the focus has a mode.
Parse(line, interactive) ==
    LET name == line.first
    IN  CASE name \in {"", "#"} -> Command("noop", << >>)
          [] interactive /\ name \in Keys /\ line.args = << >> -> Command(name, << >>)
          [] name \in FocusModes /\ ~ interactive -> Command("show all", << >>)
          [] name \in Commands /\ (name \in FocusModes => interactive) ->
                IF Refused(name, line.args) THEN NoCommand ELSE Command(name, line.args)
          [] name = "0" -> Command("noop", << >>)
          [] OTHER -> Command("show all", << >>)

-----------------------------------------------------------------------------
(* What is validated before a handler is asked.                            *)

Invalid(c) ==
    \/ c.kind = "estimate" /\ ~ IsMinutes(c.args[1])
    \/ c.kind = "category" /\ c.args[1] # "category"
    \/ c.kind = "deadline" /\ c.args[1] \notin {"date", "time"}

-----------------------------------------------------------------------------
(* The handlers.  A message is part of an outcome, an error takes its      *)
(* place.                                                                  *)

Quiet == [tasks |-> "same", focus |-> "kept", says |-> "nothing"]
Says(what) == [Quiet EXCEPT !.says = what]
Changes(focus) == [Quiet EXCEPT !.tasks = "changed", !.focus = focus]
Breaks == Says("the end")   \* a panic, or an error where the session takes none
GivesUp == [Quiet EXCEPT !.focus = "given up"]
Moves == [Quiet EXCEPT !.focus = "moved"]

PutOff(amount, focused) ==
    IF amount = "big" THEN {Says("message")}
    ELSE IF focused THEN {Changes("given up")}
    ELSE {GivesUp}

PutOffTo(args, focused) ==
    CASE Len(args) = 0 -> {Quiet}
      [] Len(args) = 1 ->
            CASE args[1] \in {"time", "date", "id"} -> {Quiet} \cup PutOff("number", focused)
              [] args[1] \in {"number", "big"} -> PutOff(args[1], focused)
              [] OTHER -> {Quiet}
      [] OTHER -> IF IsInteger(args[1]) THEN PutOff(args[1], focused) ELSE {Says("message")}

Project(c, focused) ==
    LET args == c.args
    IN  CASE c.kind \in NewProjects ->
                IF NamesNothing(args[1]) \/ (Len(args) > 1 /\ ~ IsMinutes(args[2])) THEN {Says("error")}
                ELSE {Changes("moved")}
          [] c.kind = "sequential" ->
                IF "negative" \in {args[3], args[4]} THEN {Quiet}
                ELSE {Quiet} \cup (IF NamesNothing(args[1]) \/ ~ IsMinutes(args[2]) THEN {Says("message")}
                                   ELSE IF focused THEN {Changes("moved")} ELSE {})
          [] c.kind = "repeat" ->
                IF ~ IsMinutes(args[2]) THEN {Says("message")}
                ELSE IF ~ focused THEN {Quiet}
                ELSE IF NamesNothing(args[1]) THEN {Says("message")}
                ELSE {Changes("moved")}
          [] c.kind \in {"appointment", "start"} ->
                IF focused /\ args # << >> /\ args[1] = "time" THEN {Quiet, Changes("kept")} ELSE {Quiet}

Breakdown(c, focused) ==
    CASE c.kind = "breakdown" ->
            IF c.args = << >> \/ (\E i \in DOMAIN c.args : IsInteger(c.args[i])) \/ ~ focused THEN {Quiet}
            ELSE IF \E i \in DOMAIN c.args : NamesNothing(c.args[i]) THEN {Says("message")}
            ELSE {Changes("moved")}
      [] c.kind = "split" ->
            IF NamesNothing(c.args[2]) THEN {Says("message")}
            ELSE IF ~ focused THEN {Quiet}
            ELSE IF c.args[1] = "big" THEN {Says("message")}
            ELSE {Changes("moved")}
      [] c.kind = "wait" -> IF focused THEN {Changes("kept")} ELSE {Quiet}

Attribute(c, focused) ==
    CASE c.kind \in {"actual", "work"} /\ c.args # << >> /\ c.args[1] = "big" ->
            IF c.kind = "work" /\ ~ focused THEN {Quiet} ELSE {Says("error")}
      [] OTHER ->
            IF ~ focused \/ (c.kind = "arrange" /\ c.args[1] # "number") THEN {Quiet}
            ELSE CASE c.kind = "work" -> {Changes("given up")}
                   [] c.kind \in {"deadline", "arrange"} -> {Quiet, Changes("kept")}
                   [] OTHER -> {Changes("kept")}

Defer(c, focused) ==
    CASE c.kind \in Keys \ {"W"} -> PutOff("number", focused)
      [] c.kind = "W" -> IF focused THEN {Quiet, Changes("given up")} ELSE {Quiet}
      [] c.kind = "defer routines" -> {Quiet, Changes("kept"), Changes("given up")}
      [] c.kind = "defer" -> PutOffTo(c.args, focused)
      [] c.kind = "escape" ->
            IF focused THEN {[e EXCEPT !.tasks = "changed"] : e \in PutOffTo(c.args, focused)} ELSE {Quiet}
      [] c.kind = "extrude" ->
            IF focused /\ c.args # << >> THEN {Quiet, Changes("kept"), Changes("given up")} ELSE {Quiet}
      [] c.kind \in {"clear", "gather"} ->
            IF c.args = <<"big">> THEN {Says("error")}
            ELSE IF c.args = <<"number">> \/ (Len(c.args) \in 1..2 /\ c.args[1] = "time") THEN {Quiet, Changes("kept")}
            ELSE {Quiet}

Placement(c, focused) ==
    IF c.kind = "finish"
    THEN IF focused /\ (c.args = << >> \/ c.args[1] \in {"time", "word"}) THEN {Quiet, Changes("moved")} ELSE {Quiet}
    ELSE {Quiet, Changes("kept")}

\* A list of tasks leaves the focus on its last row.  Digits ask for a task of
\* so many minutes, and are taken to fit as soon as there is a task.
Tree(c, focused) ==
    CASE c.kind \in {"show all", "tail"} ->
            IF c.args # << >> /\ c.args[1] = "bad date" THEN {Says("error")}
            ELSE IF c.args # << >> /\ c.args[1] = "huge" THEN {Quiet, Breaks}
            ELSE {Quiet, Moves}
      [] c.kind \in {"today", "non-repetitive"} -> {Quiet, Moves}
      [] c.kind = "focus" -> {Moves}
      [] c.kind = "pick" -> {Moves, Changes("moved")}
      [] c.kind \in {"root", "parent", "children", "deepest"} -> IF focused THEN {Quiet, Moves} ELSE {Quiet}
      [] c.kind = "next up" ->
            IF NamesNothing(c.args[1]) \/ (Len(c.args) > 1 /\ ~ IsMinutes(c.args[2])) THEN {Says("message")}
            ELSE IF focused THEN {Says("message"), Changes("moved")}
            ELSE {Quiet}
      [] OTHER -> {Quiet}

Plain(c, focused) ==
    CASE c.kind \in {"open", "obsidian"} -> IF focused THEN {Quiet, Says("error")} ELSE {Quiet}
      [] c.kind \in FocusModes \cup {"unfocus"} ->
            IF c = Command("lowest", <<"big">>) THEN {Breaks} ELSE {GivesUp}   \* no such threshold
      [] OTHER -> {Quiet}

-----------------------------------------------------------------------------
(* The dispatch.  In a session the keys and what changes the mode of the   *)
(* focus have ways of their own.                                           *)

Way(c, interactive) ==
    CASE interactive /\ c.kind \in FocusModes \cup {"unfocus"} -> "mode"
      [] interactive /\ (c.kind \in Keys \/ (c.kind = "defer" /\ Len(c.args) = 2)) -> "shortcut"
      [] ~ interactive /\ c.kind = "verify" -> "reload only"
      [] OTHER -> "handlers"

Outcomes(c, focused) ==
    CASE c.kind \in Takes.project -> Project(c, focused)
      [] c.kind \in Takes.breakdown -> Breakdown(c, focused)
      [] c.kind \in Takes.attribute -> Attribute(c, focused)
      [] c.kind \in Takes.defer -> Defer(c, focused)
      [] c.kind \in Takes.placement -> Placement(c, focused)
      [] c.kind \in Takes.tree -> Tree(c, focused)
      [] c.kind \in Takes.plain -> Plain(c, focused)
      [] OTHER -> {Quiet}

-----------------------------------------------------------------------------
(* A line in a session and a line given to the program, with what either   *)
(* leaves on the disk.                                                     *)

Ended(how, disk, e) == [ends |-> how, disk |-> disk, says |-> e.says]

\* An error is shown and what was changed is saved; what cannot be parsed, a
\* panic, and a focus that cannot be chosen end the session.
InSession(c, focused) ==
    CASE c = NoCommand -> {Ended("session over", "same", Says("error"))}
      [] Invalid(c) -> {Ended("prompt", "same", Says("error"))}
      [] OTHER -> {IF e = Breaks THEN Ended("session over", "same", e) ELSE Ended("prompt", e.tasks, e) :
                      e \in Outcomes(c, focused)}

\* An error ends the program, and nothing is saved.
GivenToTheProgram(c, focused) ==
    CASE c = NoCommand \/ Invalid(c) -> {Ended("failed", "same", Says("error"))}
      [] c.kind = "verify" -> {Ended("succeeded", "same", Quiet)}
      [] OTHER -> {IF e.says \in {"error", "the end"} THEN Ended("failed", "same", e) ELSE Ended("succeeded", e.tasks, e) :
                      e \in Outcomes(c, focused)}

NotYet == Ended("not yet", "same", Quiet)

Init ==
    /\ typed \in [line : Lines, interactive : BOOLEAN, focused : BOOLEAN]
    /\ result = NotYet

Answer(results) ==
    /\ result = NotYet
    /\ \E r \in results : result' = r
    /\ UNCHANGED typed

Submit == typed.interactive /\ Answer(InSession(Parse(typed.line, TRUE), typed.focused))
Run == ~ typed.interactive /\ Answer(GivenToTheProgram(Parse(typed.line, FALSE), typed.focused))

Next == Submit \/ Run
Spec == Init /\ [][Next]_vars

-----------------------------------------------------------------------------
(***************************************************************************)
(* Properties                                                              *)
(***************************************************************************)
Read == Parse(typed.line, typed.interactive)

\* How the usage texts of the parser say the commands are written: what every
\* word must be, and how many may be left out.
Any == Words
Integer == {"number", "negative", "big"}
Usage(kind) ==
    CASE kind \in {"estimate", "actual", "priority"} -> [words |-> <<Integer>>, optional |-> 0]
      [] kind \in {"focus", "pick"} -> [words |-> <<{"id"}>>, optional |-> 0]
      [] kind = "arrange" -> [words |-> <<Integer, Any>>, optional |-> 1]
      [] kind = "defer" -> [words |-> <<Integer, Any>>, optional |-> 0]
      [] kind \in NewProjects \cup {"next up"} -> [words |-> <<Any, Integer>>, optional |-> 1]
      [] kind = "sequential" -> [words |-> <<Any, Integer, Integer, Integer, Any>>, optional |-> 1]
      [] kind = "repeat" -> [words |-> <<Any, Integer, Any, Any, Any>>, optional |-> 0]
      [] kind = "split" -> [words |-> <<Integer, Any>>, optional |-> 0]
      [] kind \in {"deadline", "category"} -> [words |-> <<Any>>, optional |-> 0]
      [] kind = "work" -> [words |-> <<Integer>>, optional |-> 1]
      [] kind = "lowest" -> [words |-> <<Integer \ {"negative"}>>, optional |-> 1]
      [] OTHER -> [words |-> << >>, optional |-> 0]

FollowsUsage(kind, args) ==
    LET u == Usage(kind)
    IN  /\ Len(args) \in (Len(u.words) - u.optional)..Len(u.words)
        /\ \A i \in DOMAIN args : args[i] \in u.words[i]

\* What follows the usage of its command is read as that command.
UsageIsRead ==
    typed.line.first \in Commands /\ FollowsUsage(typed.line.first, typed.line.args) =>
        \/ Read = Command(typed.line.first, typed.line.args)
        \/ typed.line.first \in FocusModes /\ ~ typed.interactive

\* What is read has every word that the handler of the command goes on to use,
\* and what must be a number is one.
ReadIsUsable ==
    Read # NoCommand /\ Usage(Read.kind).words # << >> /\ Read.kind # "defer" =>
        LET u == Usage(Read.kind)
        IN  /\ Len(Read.args) >= Len(u.words) - u.optional
            /\ \A i \in DOMAIN Read.args \cap DOMAIN u.words : Read.args[i] \in u.words[i]

\* Exactly one handler takes what is read, and it is none of those that the code
\* takes to be out of reach ("handler-owned command reached runtime fallback",
\* "focus mode request must use the interactive outcome path").
OneHandlerTakes ==
    Read # NoCommand =>
        LET takers == {h \in DOMAIN Takes : Read.kind \in Takes[h]}
        IN  CASE Way(Read, typed.interactive) = "mode" -> takers = {"plain"}
              [] Way(Read, typed.interactive) = "shortcut" -> takers = {"defer"}
              [] Way(Read, typed.interactive) = "reload only" -> takers = {"fallback"}
              [] OTHER -> (\E h \in DOMAIN Takes : takers = {h}) /\ Read.kind \notin FocusModes

\* A line is the same command in a session and outside, but for the keys and the
\* modes of the focus.
MeansTheSame ==
    typed.line.first \notin Keys \cup FocusModes => Parse(typed.line, TRUE) = Parse(typed.line, FALSE)

\* What is refused with an error or a message has changed nothing.  Only an
\* escape has, which doubles the estimate before it reads how long.
RefusedChangesNothing ==
    result.says # "nothing" /\ Read.kind # "escape" => result.disk = "same"

LinesAreUnderstood ==
    /\ UsageIsRead /\ ReadIsUsable /\ OneHandlerTakes /\ MeansTheSame
    /\ RefusedChangesNothing
=============================================================================
