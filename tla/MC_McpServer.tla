---------------------------- MODULE MC_McpServer ----------------------------
(***************************************************************************)
(* The interfaces of the program for TLC.  The server is checked with a    *)
(* routine with one occurrence, and room for two more tasks; the decoder   *)
(* with every tool called with every combination of a few values per       *)
(* field, right and wrong ones, and with values that are not an object;    *)
(* CommandLine with every command and up to two words after it, and more   *)
(* after those that take more; LineEditor with lines of up to five         *)
(* characters of every width; ProgramRun; Configuration with documents of  *)
(* up to two keys; and FocusedLink.                                        *)
(***************************************************************************)
EXTENDS Interfaces, TLC

-----------------------------------------------------------------------------
(* The server.                                                             *)

CONSTANTS a, b, c, d

MCIds == {a, b, c, d}
MCMinutes == {0, 1, 2}
MCStart == (a :> [Task(NoTask, FALSE, 1, FALSE) EXCEPT !.routine = TRUE]) @@ (b :> Task(a, FALSE, 1, FALSE))

Sent(m, id, params) == [jsonrpc |-> TRUE, method |-> m, id |-> id, params |-> params]
Client == Object([name |-> Text("word"), version |-> Text("word")])
Hello(client, caps) ==
    Object([protocolVersion |-> Text("word"), capabilities |-> Object(caps), clientInfo |-> client])

MCRequests ==
    {Sent(m, "given", Absent) : m \in {"initialize", "tools/list", "tools/call", "other", "missing"}}
    \cup {Sent("initialize", "given", Hello(Client, << >>)),
          Sent("initialize", "given", Hello(Object([name |-> Text("word")]), << >>)),
          Sent("initialize", "given", Hello(Client, [roots |-> Object([listChanged |-> Null])])),
          Sent("initialize", "given", Hello(Client, [experimental |-> Object([x |-> Object(<< >>)])])),
          Sent("tools/call", "absent", Absent), Sent("other", "absent", Absent)}
    \cup {Sent("notifications/initialized", id, p) :
            id \in {"given", "absent", "wrong"}, p \in {Absent, Null, Object([_meta |-> Null])}}

MCCalls ==
    {[tool |-> "read"],
     [tool |-> "create", blank |-> FALSE, estimate |-> 2, pending |-> FALSE],
     [tool |-> "create", blank |-> FALSE, estimate |-> Keep, pending |-> TRUE],
     [tool |-> "breakdown", task |-> b, names |-> 2, blank |-> FALSE, pending |-> TRUE],
     [tool |-> "defer", task |-> b],
     [tool |-> "complete", task |-> a, overflow |-> FALSE],
     [tool |-> "complete", task |-> b, overflow |-> FALSE],
     [tool |-> "complete", task |-> b, overflow |-> TRUE]}
    \cup {u \in [tool : {"update"}, task : {b}, estimate : {2, Keep}, deadline : {"keep", "set"},
                 category : {"keep", "earning"}] : u \in ToolCalls}

MCElsewhere ==
    {[tool |-> "update", task |-> b, estimate |-> 0, deadline |-> "clear", category |-> "keep"]}

-----------------------------------------------------------------------------
(* The decoder.                                                            *)

Strings == {Text("id"), Text("moment"), Text("empty")}
Periods ==
    {Object([field |-> f, from |-> t, until |-> Text("moment")]) :
        f \in {Text("deadline"), Text("word")}, t \in {Text("moment"), Text("word"), Null}}
    \cup {Object([field |-> Text("deadline"), from |-> Text("word")]),
          Object([extra |-> Null, field |-> Text("word"), from |-> Text("moment"), until |-> Text("word")]),
          List(<<Text("deadline"), Text("moment"), Text("moment")>>),
          List(<<Text("deadline"), Text("moment")>>),
          List(<<Text("deadline"), Text("moment"), Text("moment"), Null>>)}

FieldValues(kind) ==
    {Null, Number("count")} \cup
    CASE kind = "id" -> Strings
      [] kind \in {"moment", "moment_or_null"} -> {Text("moment"), Text("word")}
      [] kind = "day" -> {Text("day"), Text("moment")}
      [] kind = "amount" -> {Number("huge"), Number("half"), Text("word")}
      [] kind = "name" -> {Text("word"), Text("empty")}
      [] kind = "names" -> {List(s) : s \in {<< >>, <<Text("word"), Text("id")>>, <<Text("word"), Text("empty")>>}}
      [] kind = "category_or_null" -> {Text("earning"), Text("word")}
      [] kind = "statuses" -> {List(s) : s \in {<< >>, <<Text("todo"), Text("done")>>, <<Text("todo"), Null>>}}
      [] kind = "categories" -> {List(s) : s \in {<<Null, Text("earning")>>, <<Text("todo")>>}}
      [] kind = "period" -> Periods

\* The arguments that give exactly the fields of one set.
Filled(tool, given) ==
    {f \in [given -> UNION {FieldValues(Input[tool][g]) : g \in given}] :
        \A g \in given : f[g] \in FieldValues(Input[tool][g])}

MCSentCalls ==
    {[tool |-> t, arguments |-> w] : t \in Tools, w \in {Null, List(<< >>), Object([extra |-> Null])}}
    \cup UNION {UNION {{[tool |-> t, arguments |-> Object(f)] : f \in Filled(t, given)} :
                          given \in SUBSET DOMAIN Input[t]} : t \in Tools}

-----------------------------------------------------------------------------
(* The line and its keys, the configuration.                               *)

CL == INSTANCE CommandLine WITH Lines <- {}

UpToTwo == {<< >>} \cup {<<w>> : w \in CL!Words} \cup {<<w, x>> : w, x \in CL!Words}
Few == {"word", "number", "negative", "huge"}
Four == {<<w, x, y, z>> : w, x, y, z \in Few}
MCLines ==
    [first : CL!FirstWords, args : UpToTwo \cup {<<"time", "time", "word">>, <<"number", "word", "word">>}]
    \cup [first : {"sequential", "repeat", "new"},
          args : Four \cup {Append(s, "time") : s \in Four} \cup {s \o <<"time", "word">> : s \in Four}]

MCChars == {"narrow", "wide", "mark"}
MCWidth == [narrow |-> 1, wide |-> 2, mark |-> 0]

CF == INSTANCE Configuration WITH Documents <- {}

Values ==
    [vault |-> {CF!Text("Work"), CF!Text(""), CF!Number(1)},
     busy |-> {CF!Text("relative"), CF!Text("absolute"), CF!Text(""), CF!Null},
     offset |-> {CF!Number(n) : n \in {-1080, -1079, 0, 1439, 1440}} \cup {CF!Text("30"), CF!Null},
     blank |-> {CF!Text("Fri"), CF!Text("Monday"), CF!Null},
     skip |-> {CF!List([k \in 1..n |-> CF!Text(CF!DayNames[((k - 1) % 7) + 1])]) : n \in {0, 2, 6, 7, 8}}
              \cup {CF!List(<<CF!Text("Sat"), CF!Text("Sat")>>), CF!List(<<CF!Number(1)>>),
                    CF!Text("Sat"), CF!Null},
     due |-> {CF!Text("19:00"), CF!Text("19:00:30"), CF!Text("25:00"), CF!Null},
     other |-> {CF!Null}]

File(kind, keys) == [kind |-> kind, keys |-> keys]
MCDocuments ==
    {File(kind, << >>) : kind \in {"no file", "unreadable", "mapping"}}
    \cup UNION {{File("mapping", (f :> v) @@ (g :> w)) : v \in Values[f], w \in Values[g]} :
                 f, g \in DOMAIN Values}

-----------------------------------------------------------------------------
\* A part other than the one checked rests.
DecoderRests == call = "none" /\ answer = "none"
LineRests == typed = "none" /\ result = "none"
EditorRests == line = << >> /\ cursor = 0 /\ column = 0 /\ over = TRUE
RunRests ==
    /\ program = "none" /\ doing = "none" /\ output = "none" /\ exit = "none"
    /\ unsaved = FALSE /\ files = "old" /\ met = {} /\ told = {} /\ error = {}
ConfigRests ==
    /\ document = File("no file", << >>) /\ outcome = "none" /\ config = Config!Defaults
    /\ weekday = 0 /\ skipped = 0 /\ moving = FALSE
LinkRests == names = << >> /\ search = "none" /\ opened = 0

MCInit ==
    /\ Init
    /\ part \in {"server", "decoder", "line", "editor", "run", "configuration", "link"}
    /\ IF part = "decoder" THEN DecoderInit ELSE DecoderRests
    /\ IF part = "line" THEN Line!Init ELSE LineRests
    /\ IF part = "editor" THEN Editor!Init ELSE EditorRests
    /\ IF part = "run" THEN Run!Init ELSE RunRests
    /\ IF part = "configuration" THEN Config!Init ELSE ConfigRests
    /\ IF part = "link" THEN Link!Init ELSE LinkRests

MCSpec == MCInit /\ [][InterfaceNext]_allVars
=============================================================================
