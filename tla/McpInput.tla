------------------------------ MODULE McpInput ------------------------------
(***************************************************************************)
(* The arguments of a tool call: the schema the server publishes for every *)
(* tool, and the decoder that reads a call, which must agree with it.      *)
(*                                                                         *)
(* A JSON value is a record with its type.  A string or a number is        *)
(* represented by what a reader of it can tell apart: "id" stands for the  *)
(* strings that are a UUID, "moment" for those that are an RFC 3339 time,  *)
(* "count" for the integers from 0 to the largest i64, "huge" for larger   *)
(* ones, "half" for the numbers with a fraction.                           *)
(***************************************************************************)
EXTENDS Naturals, Sequences

Null == [json |-> "null"]
Text(t) == [json |-> "string", text |-> t]
Number(n) == [json |-> "number", number |-> n]
List(s) == [json |-> "array", items |-> s]
Object(f) == [json |-> "object", members |-> f]

Statuses == {"todo", "pending", "done"}
Categories == {"earning", "sustaining", "recovery", "investment", "consumption"}
PeriodFields == {"scheduled_start", "created_at", "deadline", "completed_at"}

-----------------------------------------------------------------------------
(* The fields of every tool, with the kind of value each takes.            *)

GetFocusInput == << >>
GetTaskInput == [task_id |-> "id"]
CreateTaskInput == [name |-> "name", estimated_work_minutes |-> "amount", pending_until |-> "moment"]
BreakdownTaskInput == [parent_id |-> "id", names |-> "names", pending_until |-> "moment"]
DeferTaskInput == [task_id |-> "id", pending_until |-> "moment"]
CompleteTaskInput == [task_id |-> "id", finished_at |-> "moment",
                      additional_actual_work_seconds |-> "amount"]
UpdateTaskInput == [task_id |-> "id", estimated_work_minutes |-> "amount",
                    deadline_time |-> "moment_or_null", category |-> "category_or_null"]
ListTasksInput == [period |-> "period", statuses |-> "statuses", categories |-> "categories"]
TaskPeriodInput == [field |-> "period_field", from |-> "moment", until |-> "moment"]
GetScheduleInput == [from |-> "day", until |-> "day"]

Input == [get_focus |-> GetFocusInput, get_task |-> GetTaskInput, create_task |-> CreateTaskInput,
          breakdown_task |-> BreakdownTaskInput, defer_task |-> DeferTaskInput,
          complete_task |-> CompleteTaskInput, update_task |-> UpdateTaskInput,
          list_tasks |-> ListTasksInput, get_schedule |-> GetScheduleInput]

Tools == DOMAIN Input

\* The fields without a default.
Required(tool) ==
    CASE tool \in {"get_focus", "list_tasks", "get_schedule"} -> {}
      [] tool \in {"get_task", "complete_task", "update_task"} -> {"task_id"}
      [] tool = "create_task" -> {"name"}
      [] tool = "breakdown_task" -> {"parent_id", "names"}
      [] tool = "defer_task" -> {"task_id", "pending_until"}

\* An update names at least one of these.
UpdateTaskFields == {"estimated_work_minutes", "deadline_time", "category"}

\* serde_json keeps the members of an object in the order of their names, an
\* unknown one ("extra") among them.
NameOrder == <<"additional_actual_work_seconds", "categories", "category", "deadline_time",
               "estimated_work_minutes", "extra", "field", "finished_at", "from", "name", "names",
               "parent_id", "pending_until", "period", "statuses", "task_id", "until">>

-----------------------------------------------------------------------------
(* What the published schema admits.  A "format" is an annotation that     *)
(* restricts nothing.                                                      *)

IsString(v) == v.json = "string"
IsAmount(v) == v.json = "number" /\ v.number \in {"count", "huge"}
IsName(v) == IsString(v) /\ v.text # "empty"
IsOneOf(choices, v) == IsString(v) /\ v.text \in choices
IsNames(v) == v.json = "array" /\ v.items # << >> /\ \A i \in DOMAIN v.items : IsName(v.items[i])
IsCategoryOrNull(v) == v = Null \/ IsOneOf(Categories, v)
IsStatuses(v) == v.json = "array" /\ \A i \in DOMAIN v.items : IsOneOf(Statuses, v.items[i])
IsCategories(v) == v.json = "array" /\ \A i \in DOMAIN v.items : IsCategoryOrNull(v.items[i])

IsPeriod(v) ==
    /\ v.json = "object"
    /\ DOMAIN v.members = DOMAIN TaskPeriodInput
    /\ IsOneOf(PeriodFields, v.members["field"])
    /\ IsString(v.members["from"])
    /\ IsString(v.members["until"])

Admits(kind, v) ==
    CASE kind \in {"id", "moment", "day"} -> IsString(v)
      [] kind = "moment_or_null" -> v.json = "null" \/ IsString(v)
      [] kind = "amount" -> IsAmount(v)
      [] kind = "name" -> IsName(v)
      [] kind = "names" -> IsNames(v)
      [] kind = "category_or_null" -> IsCategoryOrNull(v)
      [] kind = "statuses" -> IsStatuses(v)
      [] kind = "categories" -> IsCategories(v)
      [] kind = "period" -> IsPeriod(v)

SchemaAdmits(tool, v) ==
    /\ v.json = "object"
    /\ DOMAIN v.members \subseteq DOMAIN Input[tool]
    /\ Required(tool) \subseteq DOMAIN v.members
    /\ tool = "update_task" => DOMAIN v.members \cap UpdateTaskFields # {}
    /\ \A f \in DOMAIN v.members : Admits(Input[tool][f], v.members[f])

-----------------------------------------------------------------------------
(* What the decoder makes of a value: "read", "schema" (the call is        *)
(* answered with an error of the protocol) or "semantic" (the tool answers *)
(* that the input is wrong).                                               *)

FirstError(s) ==
    LET errors == {i \in DOMAIN s : s[i] # "read"}
    IN  IF errors = {} THEN "read" ELSE s[CHOOSE i \in errors : \A j \in errors : i <= j]

ReadString(good, v) ==
    IF v.json # "string" THEN "schema" ELSE IF v.text = good THEN "read" ELSE "semantic"

\* Mutants: an amount that is too large is told apart no longer, or a fraction
\* is cut off.
ReadAmount_HugeIsNoNumber(v) == IF IsAmount(v) /\ v.number = "count" THEN "read" ELSE "schema"
ReadAmount_CutOff(v) ==
    IF v.json # "number" THEN "schema" ELSE IF v.number = "huge" THEN "semantic" ELSE "read"

ReadAmount(v) ==
    IF v.json # "number" THEN "schema"
    ELSE CASE v.number = "count" -> "read" [] v.number = "huge" -> "semantic" [] OTHER -> "schema"

ReadName(v) == IF v.json = "string" /\ v.text # "empty" THEN "read" ELSE "schema"

ReadChoice(choices, v) == IF v.json = "string" /\ v.text \in choices THEN "read" ELSE "schema"

\* Null is a value of its own where there may be no deadline or no category.
ReadDeadline(v) == IF v = Null THEN "read" ELSE ReadString("moment", v)
ReadCategory(v) == IF v = Null THEN "read" ELSE ReadChoice(Categories, v)

ReadList(kind, v) ==
    IF v.json # "array" THEN "schema"
    ELSE FirstError([i \in DOMAIN v.items |->
            CASE kind = "names" -> ReadName(v.items[i])
              [] kind = "statuses" -> ReadChoice(Statuses, v.items[i])
              [] kind = "categories" -> ReadCategory(v.items[i])])

ReadNames(v) ==
    LET items == ReadList("names", v)
    IN  IF items = "read" /\ v.items = << >> THEN "schema" ELSE items

\* The members of an object, read[f] what each is read as, are read in the
\* order of their names.
InNameOrder(read) ==
    FirstError([i \in DOMAIN NameOrder |->
        IF NameOrder[i] \in DOMAIN read THEN read[NameOrder[i]] ELSE "read"])

ReadMember(f, v) ==
    CASE f = "field" -> ReadChoice(PeriodFields, v)
      [] f \in {"from", "until"} -> ReadString("moment", v)
      [] OTHER -> "schema"

\* The members in the order of their names, then the missing ones.  A derived
\* reader also takes the fields of a structure from a list, in the order they
\* are declared.
ReadPeriod(v) ==
    CASE v.json = "object" ->
           LET members == InNameOrder([f \in DOMAIN v.members |-> ReadMember(f, v.members[f])])
           IN  IF members = "read" /\ ~ (DOMAIN TaskPeriodInput \subseteq DOMAIN v.members)
               THEN "schema" ELSE members
      [] v.json = "array" ->
           LET declared == <<"field", "from", "until">>
               n == IF Len(v.items) < 3 THEN Len(v.items) ELSE 3
               items == FirstError([i \in 1..n |-> ReadMember(declared[i], v.items[i])])
           IN  IF items = "read" /\ Len(v.items) # 3 THEN "schema" ELSE items
      [] OTHER -> "schema"

ReadValue(kind, v) ==
    CASE kind \in {"id", "moment", "day"} -> ReadString(kind, v)
      [] kind = "moment_or_null" -> ReadDeadline(v)
      [] kind = "amount" -> ReadAmount(v)
      [] kind = "name" -> ReadName(v)
      [] kind = "names" -> ReadNames(v)
      [] kind = "category_or_null" -> ReadCategory(v)
      [] kind \in {"statuses", "categories"} -> ReadList(kind, v)
      [] kind = "period" -> ReadPeriod(v)

\* The contract that is looked at before any value is read.
Preflight(tool, v) ==
    /\ v.json = "object"
    /\ DOMAIN v.members \subseteq DOMAIN Input[tool]
    /\ Required(tool) \subseteq DOMAIN v.members
    /\ tool = "update_task" => DOMAIN v.members \cap UpdateTaskFields # {}

\* The members are read in the order of their names, and the first that cannot
\* be read decides what the call is answered with.
Decode(tool, v) ==
    IF ~ Preflight(tool, v) THEN "schema"
    ELSE InNameOrder([f \in DOMAIN v.members |-> ReadValue(Input[tool][f], v.members[f])])

-----------------------------------------------------------------------------
(* What a call that was read hands on.                                     *)

\* A field of an update is left alone, cleared or set.
Patch(v, f) ==
    IF f \notin DOMAIN v.members THEN "keep"
    ELSE IF v.members[f].json = "null" THEN "clear" ELSE "set"

\* What stands for a time in a value that was read.
Moments(kind, v) ==
    IF kind = "period"
    THEN IF v.json = "object" THEN {v.members["from"], v.members["until"]} ELSE {v.items[2], v.items[3]}
    ELSE IF kind \in {"moment", "moment_or_null"} THEN {v} \ {Null} ELSE {}

(* The arguments of a call all mean something: the ids are ids, the times  *)
(* are times, the amounts fit, and an update has something to update       *)
(* (input.rs:29-165, 507-560).                                             *)
MeansSomething(tool, v) ==
    /\ Required(tool) \subseteq DOMAIN v.members
    /\ \A f \in DOMAIN v.members :
         LET kind == Input[tool][f]
             value == v.members[f]
         IN  /\ kind \in {"id", "day"} => value = Text(kind)
             /\ Moments(kind, value) \subseteq {Text("moment")}
             /\ kind = "amount" => value = Number("count")
    /\ tool = "update_task" => \E f \in UpdateTaskFields : Patch(v, f) # "keep"
=============================================================================
