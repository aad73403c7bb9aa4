----------------------------- MODULE McpServer -----------------------------
(***************************************************************************)
(* One MCP server session: adapter/mcp.rs, adapter/mcp/protocol.rs and     *)
(* adapter/mcp/handler.rs, on the repository it keeps in memory and the    *)
(* storage it shares with other processes.                                 *)
(*                                                                         *)
(* The storage lock makes a tool call one step (TaskStorage has the steps  *)
(* inside it); here another process takes the lock, changes the tasks and  *)
(* drops it between any two requests, or leaves files behind that cannot   *)
(* be loaded.  What the arguments of a call are read as is McpInput's      *)
(* Decode; a request carries its outcome.                                  *)
(***************************************************************************)
EXTENDS TaskTools, McpInput

CONSTANTS
    Start,          \* what the storage holds at first
    Requests,       \* the requests of the client
    Calls,          \* the tool calls of the client
    ElsewhereCalls  \* the changes other processes make

Methods == {"initialize", "notifications/initialized", "tools/list", "tools/call", "other", "missing"}

\* id: a string or a number, absent, or of another type.  params: a JSON value.
ASSUME RequestsAssumption ==
    \A r \in Requests :
        /\ r.jsonrpc \in BOOLEAN /\ r.method \in Methods
        /\ r.id \in {"given", "absent", "wrong"} /\ "json" \in DOMAIN r.params
ASSUME StartAssumption == DOMAIN Start \subseteq Ids /\ \A t \in DOMAIN Start : Start[t] \in TaskRecord
ASSUME CallsAssumption == Calls \subseteq ToolCalls /\ ElsewhereCalls \subseteq ToolCalls

VARIABLES
    lifecycle,  \* lifecycle_state
    uncertain,  \* repository_state_uncertain
    mem,        \* the repository's tasks
    current,    \* it has loaded, and the revision is the one it remembers
    file,       \* the tasks in the storage directory
    readable,   \* the files can be loaded
    held,       \* another process holds the lock
    reply       \* history: the last answer

storage == <<file, readable, held>>
vars == <<lifecycle, uncertain, mem, current, storage, reply>>

Says(kind) == reply' = [is |-> kind]

Init ==
    /\ lifecycle = "uninitialized" /\ uncertain = FALSE
    /\ mem = << >> /\ current = FALSE
    /\ file = Start /\ readable = TRUE /\ held = FALSE
    /\ reply = [is |-> "nothing"]

-----------------------------------------------------------------------------
(* Requests of the protocol.                                               *)

Asks(m) == m \in {"initialize", "tools/list", "tools/call"}

Envelope(r) ==
    /\ r.jsonrpc /\ r.method # "missing" /\ r.id # "wrong"
    /\ Asks(r.method) => r.id = "given"

Absent == [json |-> "absent"]
Given(o, f, type) == f \in DOMAIN o /\ o[f].json = type
Optional(o, f, type) == f \in DOMAIN o => o[f].json = type
Members(o, f) == IF f \in DOMAIN o THEN o[f].members ELSE << >>

ClientCapabilities(o) ==
    /\ \A f \in {"roots", "sampling", "elicitation", "experimental"} : Optional(o, f, "object")
    /\ Optional(Members(o, "roots"), "listChanged", "boolean")
    /\ \A name \in DOMAIN Members(o, "experimental") : o["experimental"].members[name].json = "object"

InitializeParams(v) ==
    /\ v.json = "object"
    /\ LET o == v.members
       IN  /\ Given(o, "protocolVersion", "string")
           /\ Given(o, "capabilities", "object") /\ ClientCapabilities(o["capabilities"].members)
           /\ Given(o, "clientInfo", "object")
           /\ \A f \in {"name", "version"} : Given(o["clientInfo"].members, f, "string")
           /\ Optional(o["clientInfo"].members, "title", "string")
           /\ Optional(o, "_meta", "object")
           /\ LET meta == Members(o, "_meta")
              IN  Optional(meta, "progressToken", "string") \/ Optional(meta, "progressToken", "number")

InitializedParams(v) ==
    v.json = "absent" \/ (v.json = "object" /\ Optional(v.members, "_meta", "object"))

Rejects(r) == ~ Envelope(r) /\ Says("protocol") /\ UNCHANGED <<lifecycle, uncertain, mem, current, storage>>

\* Notifications are never answered.
Notified(r) ==
    /\ Envelope(r) /\ r.id = "absent"
    /\ lifecycle' = IF r.method = "notifications/initialized" /\ lifecycle = "responded"
                       /\ InitializedParams(r.params)
                    THEN "initialized" ELSE lifecycle
    /\ Says("protocol")
    /\ UNCHANGED <<uncertain, mem, current, storage>>

Initialize(r) ==
    /\ Envelope(r) /\ r.method = "initialize"
    /\ lifecycle' = IF lifecycle = "uninitialized" /\ InitializeParams(r.params) THEN "responded" ELSE lifecycle
    /\ Says("protocol")
    /\ UNCHANGED <<uncertain, mem, current, storage>>

\* tools/list, an unknown method, and a call before the session is initialized.
Answers(r) ==
    /\ Envelope(r) /\ r.id = "given" /\ r.method # "initialize"
    /\ r.method = "tools/call" => lifecycle # "initialized"
    /\ Says("protocol")
    /\ UNCHANGED <<lifecycle, uncertain, mem, current, storage>>

-----------------------------------------------------------------------------
(* A tool call.                                                            *)

MayCall == lifecycle = "initialized" /\ ~ uncertain

CallUncertain ==
    /\ lifecycle = "initialized" /\ uncertain
    /\ Says("lost")
    /\ UNCHANGED <<lifecycle, uncertain, mem, current, storage>>

\* The lock is held by somebody else, or cannot be taken at all.
CallWithoutLock ==
    /\ MayCall
    /\ Says("unavailable")
    /\ UNCHANGED <<lifecycle, uncertain, mem, current, storage>>

CallWithoutLoad ==
    /\ MayCall /\ ~ held /\ ~ current /\ ~ readable
    /\ Says("unavailable")
    /\ UNCHANGED <<lifecycle, uncertain, mem, current, storage>>

\* reload_if_changed.  The mutant trusts what it once loaded.
Loads == ~ held /\ (current \/ readable)
Loaded_Once == IF mem # << >> THEN mem ELSE file
Loaded == IF current THEN mem ELSE file

\* The arguments could not be read: the storage was loaded for nothing.
CallRejected ==
    /\ MayCall /\ Loads
    /\ mem' = Loaded /\ current' = TRUE
    /\ Says("protocol")
    /\ UNCHANGED <<lifecycle, uncertain, storage>>

\* What the tool may leave in memory.
Outcomes(c) == {RunTool(Loaded, c, ids) : ids \in Draws(c, DOMAIN Loaded)}

\* A read, or a call that the tool refuses: nothing is saved, whatever the tool
\* left in memory.
Shows(c) ==
    /\ MayCall /\ Loads /\ ~ Mutates(c)
    /\ mem' = Loaded /\ current' = TRUE
    /\ reply' = [is |-> "shown", tasks |-> Loaded]
    /\ UNCHANGED <<lifecycle, uncertain, storage>>

Refuses(c) ==
    /\ MayCall /\ Loads
    /\ \E out \in Outcomes(c) :
         /\ out.error # "none"
         /\ mem' = out.tasks
    /\ current' = TRUE
    /\ Says("refused")
    /\ UNCHANGED <<lifecycle, uncertain, storage>>

\* save writes what differs from the files, the revision before it.
Succeeds(c) ==
    /\ MayCall /\ Loads /\ Mutates(c)
    /\ \E out \in Outcomes(c) :
         /\ out.error = "none"
         /\ mem' = out.tasks /\ file' = out.tasks
    /\ current' = TRUE
    /\ Says("done")
    /\ UNCHANGED <<lifecycle, uncertain, readable, held>>

\* The revision or the project could not be written, or not wholly: the new
\* file may be there.  What was changed need not be anything that the tasks
\* show here.  The mutant goes on with what it has in memory.
SaveFails_NotPoisoned(c) ==
    /\ MayCall /\ Loads /\ Mutates(c)
    /\ \E out \in Outcomes(c) :
         /\ out.error = "none"
         /\ mem' = out.tasks /\ file' \in {file, out.tasks}
    /\ current' = TRUE /\ uncertain' = FALSE
    /\ Says("broken")
    /\ UNCHANGED <<lifecycle, readable, held>>
SaveFails(c) ==
    /\ MayCall /\ Loads /\ Mutates(c)
    /\ \E out \in Outcomes(c) :
         /\ out.error = "none"
         /\ mem' = out.tasks /\ file' \in {file, out.tasks}
    /\ current' \in BOOLEAN /\ (current' => file' = file)
    /\ uncertain' = TRUE
    /\ Says("broken")
    /\ UNCHANGED <<lifecycle, readable, held>>

CallTool(c) == Shows(c) \/ Refuses(c) \/ Succeeds(c) \/ SaveFails(c)

-----------------------------------------------------------------------------
(* Everybody else.                                                         *)

Hold == held' = ~ held /\ UNCHANGED <<lifecycle, uncertain, mem, current, file, readable, reply>>

Elsewhere(c) ==
    /\ held /\ readable
    /\ \E ids \in Draws(c, DOMAIN file) :
         LET out == RunTool(file, c, ids)
         IN  out.error = "none" /\ out.tasks # file /\ file' = out.tasks
    /\ current' = FALSE
    /\ UNCHANGED <<lifecycle, uncertain, mem, readable, held, reply>>

\* Files that cannot be loaded (TaskFile), until somebody repairs them.
Spoil == held /\ readable' = FALSE /\ current' = FALSE
         /\ UNCHANGED <<lifecycle, uncertain, mem, file, held, reply>>

Repair == readable' = TRUE /\ ~ readable /\ UNCHANGED <<lifecycle, uncertain, mem, current, file, held, reply>>

Restart ==
    /\ lifecycle' = "uninitialized" /\ uncertain' = FALSE
    /\ mem' = << >> /\ current' = FALSE /\ Says("nothing")
    /\ UNCHANGED storage

Next ==
    \/ \E r \in Requests : Rejects(r) \/ Notified(r) \/ Initialize(r) \/ Answers(r)
    \/ CallUncertain \/ CallWithoutLock \/ CallWithoutLoad
    \/ CallRejected
    \/ \E c \in Calls : CallTool(c)
    \/ Hold \/ Spoil \/ Repair \/ Restart
    \/ \E c \in ElsewhereCalls : Elsewhere(c)

Spec == Init /\ [][Next]_vars

-----------------------------------------------------------------------------
(* The tasks the server answers from are the tasks in the files: what it    *)
(* keeps in memory while it believes to be current differs in nothing,      *)
(* whatever calls were refused half way (handler.rs:284) and whatever else  *)
(* failed, unless the session is known to be uncertain.                     *)
MemoryIsFile == current /\ ~ uncertain => mem = file

(* The server is the service: a call takes its whole effect on the tasks   *)
(* as they are or changes nothing, is refused only for a reason that lies  *)
(* in those tasks, and after a save that failed the session answers        *)
(* nothing else.                                                           *)
Session ==
    IF uncertain THEN "lost"
    ELSE CASE lifecycle = "uninitialized" -> "closed"
           [] lifecycle = "responded" -> "greeted"
           [] lifecycle = "initialized" -> "open"

Service == INSTANCE TaskService WITH tasks <- file, session <- Session
ImplementsTaskService == Service!Spec
=============================================================================
