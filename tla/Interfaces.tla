------------------------------ MODULE Interfaces ------------------------------
(***************************************************************************)
(* The interfaces of the program: an MCP session (McpServer) and the       *)
(* decoder of its calls (McpInput), the lines of a user (CommandLine), the *)
(* keys they are typed with (LineEditor), the run of the program from its  *)
(* arguments to its exit code (ProgramRun), its configuration              *)
(* (Configuration) and the link it gives to a browser (FocusedLink).       *)
(* `part` says which of them a behaviour is about; the variables of the    *)
(* others are at rest.                                                     *)
(***************************************************************************)
EXTENDS McpServer

CONSTANTS
    SentCalls,                              \* of the decoder: calls with a tool and arguments
    Lines,                                  \* of CommandLine
    Chars, Width, MaxLine,                  \* of LineEditor
    Documents,                              \* of Configuration
    Shortest, MaxLink, MaxDepth             \* of FocusedLink

VARIABLES
    part,
    call, answer,                                            \* of the decoder
    typed, result,                                           \* of CommandLine
    line, cursor, column, over,                              \* of LineEditor
    program, doing, output, unsaved, files, met, told, error, exit,   \* of ProgramRun
    document, outcome, config, weekday, skipped, moving,     \* of Configuration
    names, search, opened                                    \* of FocusedLink

decoderVars == <<call, answer>>
lineVars == <<typed, result>>
editorVars == <<line, cursor, column, over>>
runVars == <<program, doing, output, unsaved, files, met, told, error, exit>>
configVars == <<document, outcome, config, weekday, skipped, moving>>
linkVars == <<names, search, opened>>
allVars == <<part, decoderVars, lineVars, editorVars, runVars, configVars, linkVars, vars>>

Line == INSTANCE CommandLine
Editor == INSTANCE LineEditor WITH MaxLength <- MaxLine
Run == INSTANCE ProgramRun
Config == INSTANCE Configuration
Link == INSTANCE FocusedLink WITH MaxLength <- MaxLink

-----------------------------------------------------------------------------
(* What is sent, typed and configured.                                     *)

\* A JSON value, its members having names the decoder has an order for.
Names == {NameOrder[i] : i \in DOMAIN NameOrder}

IsJson(v) ==
    \/ v = Null
    \/ v.json = "boolean" /\ \E b \in BOOLEAN : v = [json |-> "boolean", boolean |-> b]
    \/ v.json = "string" /\ v = Text(v.text)
    \/ v.json = "number" /\ v = Number(v.number)
    \/ v.json = "array" /\ v = List(v.items) /\ Len(v.items) \in Nat /\ DOMAIN v.items = 1..Len(v.items)
    \/ v.json = "object" /\ v = Object(v.members) /\ DOMAIN v.members \subseteq Names

Parts(v) ==
    IF v.json = "array" THEN {v.items[i] : i \in DOMAIN v.items}
    ELSE IF v.json = "object" THEN {v.members[f] : f \in DOMAIN v.members}
    ELSE {}

\* Arguments, with all that is looked at in them.
IsArguments(v) == IsJson(v) /\ \A x \in Parts(v) : IsJson(x) /\ \A y \in Parts(x) : IsJson(y)

\* A document; the names of days in a list are texts.
IsDocument(d) ==
    /\ d.kind # "mapping" => DOMAIN d.keys = {}
    /\ \A key \in DOMAIN d.keys : Config!Is("list", d.keys[key]) =>
         LET list == d.keys[key].list
         IN  /\ list \in Seq({list[k] : k \in DOMAIN list})
             /\ \A k \in DOMAIN list : Config!Is("text", list[k]) => list[k] = Config!Text(list[k].text)

ASSUME SentAssumption == \A c \in SentCalls : c.tool \in Tools /\ IsArguments(c.arguments)

ASSUME LinesAssumption == Lines \subseteq [first : Line!FirstWords, args : Seq(Line!Words)]

ASSUME EditorAssumption == Width \in [Chars -> Nat] /\ MaxLine \in Nat

ASSUME DocumentsAssumption == \A d \in Documents : IsDocument(d)

ASSUME LinkAssumption == Shortest \in Nat \ {0} /\ MaxLink \in Nat /\ MaxDepth \in Nat

-----------------------------------------------------------------------------
DecoderInit == call \in SentCalls /\ answer = "none"

\* The server decodes the arguments of a call.
DecodeCall ==
    /\ answer = "none"
    /\ answer' = Decode(call.tool, call.arguments)
    /\ UNCHANGED call

InterfaceInit ==
    \/ part = "server" /\ Init
    \/ part = "decoder" /\ DecoderInit
    \/ part = "line" /\ Line!Init
    \/ part = "editor" /\ Editor!Init
    \/ part = "run" /\ Run!Init
    \/ part = "configuration" /\ Config!Init
    \/ part = "link" /\ Link!Init

ServerStep ==
    /\ part = "server" /\ Next
    /\ UNCHANGED <<part, decoderVars, lineVars, editorVars, runVars, configVars, linkVars>>
DecoderStep ==
    /\ part = "decoder" /\ DecodeCall
    /\ UNCHANGED <<part, vars, lineVars, editorVars, runVars, configVars, linkVars>>
LineStep ==
    /\ part = "line" /\ Line!Next
    /\ UNCHANGED <<part, vars, decoderVars, editorVars, runVars, configVars, linkVars>>
EditorStep ==
    /\ part = "editor" /\ Editor!Next
    /\ UNCHANGED <<part, vars, decoderVars, lineVars, runVars, configVars, linkVars>>
RunStep ==
    /\ part = "run" /\ Run!Next
    /\ UNCHANGED <<part, vars, decoderVars, lineVars, editorVars, configVars, linkVars>>
ConfigStep ==
    /\ part = "configuration" /\ Config!Next
    /\ UNCHANGED <<part, vars, decoderVars, lineVars, editorVars, runVars, linkVars>>
LinkStep ==
    /\ part = "link" /\ Link!Next
    /\ UNCHANGED <<part, vars, decoderVars, lineVars, editorVars, runVars, configVars>>

InterfaceNext ==
    \/ ServerStep \/ DecoderStep \/ LineStep \/ EditorStep \/ RunStep \/ ConfigStep \/ LinkStep

InterfaceSpec == InterfaceInit /\ [][InterfaceNext]_allVars

-----------------------------------------------------------------------------
Answered == part = "decoder" /\ answer # "none"

(* A call that the published schema admits is never answered with the      *)
(* error of the protocol: the decoder demands no more than the schema says *)
(* (input.rs:900-1025 against the json_schema of every type).  Whatever    *)
(* the order in which the fields are read, a tool is run only with         *)
(* arguments that all mean something: the ids are ids, the times are       *)
(* times, the amounts fit, and an update has something to update.          *)
CallsAreUnderstood ==
    /\ Answered /\ SchemaAdmits(call.tool, call.arguments) => answer # "schema"
    /\ Answered /\ answer = "read" => MeansSomething(call.tool, call.arguments)

(* "input schema violations are answered with JSON-RPC -32602" (README.md, *)
(* MCP): a call the schema does not admit gets the error of the protocol.  *)
ViolationIsProtocolError ==
    Answered /\ ~ SchemaAdmits(call.tool, call.arguments) => answer = "schema"

(* The same sentence, for the calls that are run: none of them violates    *)
(* the schema.                                                             *)
RunIsAdmitted ==
    Answered /\ answer = "read" => SchemaAdmits(call.tool, call.arguments)

(* A line that follows the usage of its command is read as that command    *)
(* and one that is read can be used, one handler takes it, it means the    *)
(* same in a session and outside, and one that is refused, but for an      *)
(* escape, has changed nothing (CommandLine).  Until it is submitted every *)
(* key edits it at the cursor, which is where the screen shows it          *)
(* (LineEditor).                                                           *)
LinesAreUnderstood ==
    /\ [](part = "line" => Line!LinesAreUnderstood)
    /\ [][part = "editor" => Editor!EditsAtCursor /\ Editor!CursorIsShown']_allVars

(* However a run of the program ends, success means that every change is   *)
(* in the files, a change is lost only with an error of its operation, of  *)
(* saving or of showing it, and all that went wrong has been told          *)
(* (ProgramRun); the configuration it runs with leaves a business day time *)
(* and an extrusion days (Configuration); and what it gives to the browser *)
(* is the whole link of a name (FocusedLink).                              *)
RunsSoundly ==
    /\ part = "run" => Run!EndsWell
    /\ part = "configuration" => Config!ConfigurationSound
    /\ part = "link" => Link!WholeLinkOrNothing

InterfaceSound == LinesAreUnderstood /\ []RunsSoundly
=============================================================================
