------------------------------ MODULE FreeTime ------------------------------
(***************************************************************************)
(* The time one can work in: gateway/free_time_manager.rs, which knows the *)
(* busy slots of every weekday and of single dates, and                    *)
(* application/daily_capacity.rs, which asks it how much of a business day *)
(* is free.  A time counts the slots of a day from the first midnight on;  *)
(* the slots stand for the minutes of the code.                            *)
(***************************************************************************)
EXTENDS Integers, FiniteSets

CONSTANTS
    DayLength,   \* the slots of a day, 1440 minutes in the code
    Morning,     \* where the business day begins, 06:00
    Offset,      \* end_of_day_offset_minutes
    Weekdays,    \* 0 .. n-1; date d falls on d % n
    LastDate,    \* bound: the dates are 0 .. LastDate
    Files        \* what the file of the busy slots may hold

VARIABLES
    now,
    weekly,      \* the busy slots of each weekday; nothing before a file was read
    registered   \* the busy slots of single dates

vars == <<now, weekly, registered>>

Slots == 0..(DayLength - 1)
Dates == 0..LastDate
Week == Cardinality(Weekdays)
Busy(slot) == slot.from..(slot.from + slot.length - 1)

\* What the constants have to be.
Assumption ==
    /\ DayLength \in Nat \ {0} /\ Morning \in Slots /\ Offset \in Int /\ LastDate \in Nat
    /\ Weekdays # {} /\ Weekdays = 0..(Cardinality(Weekdays) - 1)

(***************************************************************************)
(* The file: a sequence of entries, each a name of a day and its slots     *)
(***************************************************************************)
\* A slot must end before midnight.
GoodSlot(s) == s.from \in Slots /\ s.length >= 0 /\ s.from + s.length < DayLength
GoodEntry(e) == e.day \in Weekdays /\ \A s \in e.slots : GoodSlot(s)

GoodFile(file) ==
    /\ \A i \in DOMAIN file : GoodEntry(file[i])
    /\ \A i, j \in DOMAIN file : file[i].day = file[j].day => i = j
    /\ {file[i].day : i \in DOMAIN file} = Weekdays

TableOf(file) ==
    [d \in {file[i].day : i \in DOMAIN file} |->
        UNION {Busy(s) : s \in UNION {file[i].slots : i \in {j \in DOMAIN file : file[j].day = d}}}]

\* The table takes the place of the former one when the whole file is good.
Load_UpToTheFault(file) ==
    /\ weekly' = TableOf([i \in {j \in DOMAIN file : GoodEntry(file[j])} |-> file[i]])
    /\ UNCHANGED <<now, registered>>
Load(file) ==
    /\ GoodFile(file)
    /\ weekly' = TableOf(file)
    /\ UNCHANGED <<now, registered>>

LoadFails(file) == ~GoodFile(file) /\ UNCHANGED vars

\* Only within one date: an end at midnight is on the next.
Register(from, to) ==
    /\ from \div DayLength = to \div DayLength
    /\ registered' = registered \cup from..(to - 1)
    /\ UNCHANGED <<now, weekly>>

Tick == now' = now + 1 /\ UNCHANGED <<weekly, registered>>

(***************************************************************************)
(* get_free_minutes goes from midnight to midnight                         *)
(***************************************************************************)
FreeSlots(date) ==
    LET weekday == date % Week
    IN  {s \in Slots : /\ weekday \in DOMAIN weekly => s \notin weekly[weekday]
                       /\ date * DayLength + s \notin registered}

\* The part of a date between two times, by their slots of the day.
FreeOn(date, from, to) ==
    LET first == IF date = from \div DayLength THEN from % DayLength ELSE 0
        past == IF date = to \div DayLength THEN to % DayLength ELSE DayLength
    IN  Cardinality({s \in FreeSlots(date) : first <= s /\ s < past})

FreeTimeIn_ByTheFirstDay(from, to) ==
    LET first == from \div DayLength
    IN  IF from >= to THEN 0
        ELSE LET sum[d \in first..(to \div DayLength)] ==
                     (IF d = first THEN FreeOn(d, from, to)
                      ELSE sum[d - 1] + IF d = to \div DayLength THEN to % DayLength ELSE DayLength)
             IN  sum[to \div DayLength]
FreeTimeIn(from, to) ==
    LET first == from \div DayLength
    IN  IF from >= to THEN 0
        ELSE LET sum[d \in first..(to \div DayLength)] ==
                     FreeOn(d, from, to) + IF d = first THEN 0 ELSE sum[d - 1]
             IN  sum[to \div DayLength]

(***************************************************************************)
(* How much of a business day is free                                      *)
(***************************************************************************)
SubjectiveDate(t) == IF t % DayLength < Morning THEN t \div DayLength - 1 ELSE t \div DayLength
StartOf(date) == date * DayLength + Morning
EndOf(date) == (date + 1) * DayLength + Offset

IsCurrent(date) == StartOf(date) < now /\ now < StartOf(date + 1)
Night == now % DayLength < Morning

\* Of the current day what is left, after midnight without a look at the slots.
Capacity_FromTheMorning(date) ==
    IF IsCurrent(date) /\ Night THEN IF now < EndOf(date) THEN EndOf(date) - now ELSE 0
    ELSE FreeTimeIn(StartOf(date), EndOf(date))
Capacity(date) ==
    IF IsCurrent(date)
    THEN IF Night THEN IF now < EndOf(date) THEN EndOf(date) - now ELSE 0
                  ELSE FreeTimeIn(now, EndOf(date))
    ELSE FreeTimeIn(StartOf(date), EndOf(date))

Init == now = Morning /\ weekly = << >> /\ registered = {}

Next ==
    \/ \E file \in Files : Load(file) \/ LoadFails(file)
    \/ \E from, to \in Dates \X Slots :
          Register(from[1] * DayLength + from[2], to[1] * DayLength + to[2])
    \/ now < (LastDate + 1) * DayLength /\ Tick

Spec == Init /\ [][Next]_vars
-----------------------------------------------------------------------------
(***************************************************************************)
(* Properties                                                              *)
(***************************************************************************)
\* The table is for no weekday or for all of them, and no slot passes midnight.
TypeOK ==
    /\ now \in Nat
    /\ DOMAIN weekly \in {{}, Weekdays}
    /\ \A d \in DOMAIN weekly : weekly[d] \subseteq Slots
    /\ registered \subseteq Nat

Moments == 0..((LastDate + 1) * DayLength)
IsFree(t) ==
    /\ t \notin registered
    /\ t \div DayLength % Week \in DOMAIN weekly =>
          t % DayLength \notin weekly[t \div DayLength % Week]
Free(from, to) == Cardinality({t \in from..(to - 1) : IsFree(t)})

\* The free time between any two times is that of the slots between them, on
\* whatever dates they are; so it adds up over parts.
CountsFreeTime == \A a, b \in Moments : FreeTimeIn(a, b) = Free(a, b)

\* The capacity of a day is the free time of it that is still to come, except
\* for the current day after midnight.
CapacityIsFree ==
    \A d \in {SubjectiveDate(now), SubjectiveDate(now) + 1} :
        ~(d = SubjectiveDate(now) /\ Night) =>
            Capacity(d) = Free(IF now > StartOf(d) THEN now ELSE StartOf(d), EndOf(d))

\* README.md:319: a busy slot counts in the time of a day, also after midnight.
CapacityMindsBusySlots ==
    Capacity(SubjectiveDate(now)) <= Free(now, EndOf(SubjectiveDate(now)))
=============================================================================
