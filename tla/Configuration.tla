---------------------------- MODULE Configuration ----------------------------
(***************************************************************************)
(* The file that SCHRONU_CONFIG_PATH names (gateway/schronu_config.rs) and *)
(* the two things that would go wrong for ever with a bad one: a business  *)
(* day without a minute in it, and the extrusion of a project over days    *)
(* all of which are skipped (execute_extrude_with_config).  A document is  *)
(* a function from its keys to values, and a value is what a reader tells  *)
(* apart: a text, an integer, a list, or none of these.                    *)
(***************************************************************************)
EXTENDS Integers, SequencesExt

CONSTANT Documents   \* what the file may hold

VARIABLES
    document,   \* the file: its kind and, of a mapping, the keys and values
    outcome,    \* of reading it
    config,     \* what was read from it
    weekday,    \* of the day the extrusion has come to, 0 for Monday
    skipped,    \* how many days it has skipped on its way
    moving      \* it is looking for a day

configVars == <<document, outcome, config, weekday, skipped, moving>>

Text(t) == [text |-> t]
Number(n) == [number |-> n]
List(values) == [list |-> values]
Null == [null |-> TRUE]
Is(kind, value) == DOMAIN value = {kind}

DayNames == <<"Mon", "Tue", "Wed", "Thu", "Fri", "Sat", "Sun">>
Keys == {"vault", "busy", "offset", "blank", "skip", "due"}

Defaults ==
    [vault |-> "Obsidian-Work", busy |-> "default", offset |-> 30, blank |-> "Mon",
     skip |-> {}, due |-> "23:59:59"]

\* What the reader of each key takes.  A key with nothing after it is there.
NamesDay(value) == Is("text", value) /\ value.text \in ToSet(DayNames)

SkipsDays_Any(value) == Is("list", value) /\ \A k \in DOMAIN value.list : NamesDay(value.list[k])
SkipsDays(value) ==
    /\ Is("list", value)
    /\ \A k \in DOMAIN value.list : NamesDay(value.list[k])
    /\ IsInjective(value.list)
    /\ Len(value.list) # 7

Takes(key, value) ==
    CASE key \in {"vault", "busy"} -> Is("text", value) /\ value.text # ""
      [] key = "offset" -> Is("number", value) /\ value.number \in (-1079)..1439
      [] key = "blank" -> NamesDay(value)
      [] key = "skip" -> SkipsDays(value)
      [] key = "due" -> Is("text", value) /\ value.text \in {"19:00", "19:00:30"}
      [] OTHER -> FALSE

\* A relative path begins where the file is.
Resolved(path) == IF path = "absolute" THEN path ELSE "beside the file"

Meaning(key, value) ==
    CASE key = "busy" -> Resolved(value.text)
      [] key = "offset" -> value.number
      [] key = "skip" -> {value.list[k].text : k \in DOMAIN value.list}
      [] OTHER -> value.text

\* A file is one mapping; without a file there are the defaults.
Read(d) ==
    [key \in Keys |-> IF key \in DOMAIN d.keys THEN Meaning(key, d.keys[key]) ELSE Defaults[key]]

IsTaken(d) ==
    \/ d.kind = "no file"
    \/ d.kind = "mapping" /\ \A key \in DOMAIN d.keys : Takes(key, d.keys[key])

Init ==
    /\ document \in Documents
    /\ outcome = "none" /\ config = Defaults
    /\ weekday \in 0..6 /\ skipped = 0 /\ moving = FALSE

Load ==
    /\ outcome = "none"
    /\ \/ IsTaken(document) /\ outcome' = "read" /\ config' = Read(document)
       \/ ~ IsTaken(document) /\ outcome' = "refused" /\ UNCHANGED config
    /\ UNCHANGED <<document, weekday, skipped, moving>>

Ready == outcome = "read"

IsSkipped(day) == DayNames[day + 1] \in config.skip

\* The next task of the project comes so many days after the one before it, or
\* on the first day after that which is not skipped.
Extrude(days) ==
    /\ Ready /\ ~ moving
    /\ weekday' = (weekday + days) % 7
    /\ moving' = TRUE /\ skipped' = 0
    /\ UNCHANGED <<document, outcome, config>>

SkipDay ==
    /\ moving /\ IsSkipped(weekday)
    /\ weekday' = (weekday + 1) % 7
    /\ skipped' = skipped + 1
    /\ UNCHANGED <<document, outcome, config, moving>>

Settle == moving /\ ~ IsSkipped(weekday) /\ moving' = FALSE /\ UNCHANGED <<document, outcome, config, weekday, skipped>>

Next == Load \/ (\E days \in 0..6 : Extrude(days)) \/ SkipDay \/ Settle
Spec == Init /\ [][Next]_configVars

-----------------------------------------------------------------------------
(***************************************************************************)
(* Properties                                                              *)
(***************************************************************************)

\* Every key is optional: what is not in the file is as without a file, and a
\* file of which everything is taken is taken.
KeysAreOptional ==
    /\ Ready => \A key \in Keys \ DOMAIN document.keys : config[key] = Defaults[key]
    /\ outcome = "refused" /\ document.kind = "mapping" =>
        \E key \in DOMAIN document.keys : ~ Takes(key, document.keys[key])

\* The business day begins at six in the morning, and ends after that whatever
\* distance from midnight was configured, before the day after it ends.
DayHasItsTime == Ready => 24 * 60 + config.offset \in (6 * 60 + 1)..(48 * 60 - 1)

\* Extruding ends: less than a week is skipped for every task.
ExtrusionEnds == skipped < 7

ConfigurationSound == KeysAreOptional /\ DayHasItsTime /\ ExtrusionEnds
=============================================================================
