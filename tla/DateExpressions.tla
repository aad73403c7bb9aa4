--------------------------- MODULE DateExpressions ---------------------------
(***************************************************************************)
(* How the commands about time read what was typed, and what they do with  *)
(* it: 後 (defer), 逃 (escape), 空 (clear), 集 (gather), 〆 (deadline), 約     *)
(* (appointment), 始 (start) and 終 (finish), in controller/schronu/         *)
(* runtime.rs and handler.rs.                                              *)
(*                                                                         *)
(* Each command has a reader of its own: some count from the business day, *)
(* some from the date of the calendar.  There is one leaf, which is the    *)
(* task in focus if there is a focus; 空 and 集 treat every leaf as they     *)
(* treat it.  Years are those between 1901 and 2099, counted from a leap   *)
(* year; a month and a day are a day of a leap year, from 0 on.  Errors at *)
(* the ends of the calendar are not modelled.                              *)
(***************************************************************************)
EXTENDS BusinessTime

CONSTANTS
    Clock,            \* the times the clock can show
    Starts, Waits,    \* the start and pending times of the leaf
    Deadlines,        \* its deadlines
    Values,           \* the words that can be typed: see below
    MaxEstimate,      \* bound: no escape doubles an estimate beyond it
    DefaultDeadline,  \* default_deadline_time, a time of day
    Nothing           \* no time

VARIABLES
    leaf,     \* the leaf, its attributes as in TaskStatus
    focused   \* it is in focus

vars == <<leaf, focused>>

S == INSTANCE TaskStatus WITH
    Times <- Clock, Ticks <- Clock, Amounts <- {0}, PendingBuffer <- 5 * Minute,
    ForceBuffer <- Hour, NoDeadline <- Nothing, task <- leaf, fresh <- TRUE

Now == leaf.synced
Set(l) == leaf' = S!Evaluated(l)

-----------------------------------------------------------------------------
(* Words: [is |-> "time", h, m] is h:m, "number" a number of minutes,      *)
(* "amount" a number with a unit, "date" a year, a month and a day,        *)
(* "monthday" a month and a day, "weekday" one of 月 to 日, and "tomorrow",  *)
(* "today", "never" and "other" are themselves.                            *)

NoWord == [is |-> "none"]

IsWord(v) ==
    /\ v.is = "time" => v.h \in Nat /\ v.m \in Nat
    /\ v.is \in {"number", "amount"} => v.n \in Int
    /\ v.is = "date" => v.date \in Int
    /\ v.is = "monthday" => v.k \in 0..365
    /\ v.is = "weekday" => v.w \in 0..6

AreWords ==
    /\ Clock \subseteq Nat /\ Starts \cup Waits \cup Deadlines \subseteq Int /\ Nothing \notin Int
    /\ MaxEstimate \in Nat /\ DefaultDeadline \in 0..LastSecond
    /\ \A v \in Values : IsWord(v)

Leap(y) == y % 4 = 0
YearStart(y) == 365 * y + (y + 3) \div 4
YearOf(date) == CHOOSE y \in (date \div 366)..(date \div 365) : date \in YearStart(y)..(YearStart(y + 1) - 1)
LeapDay == 59

\* The date of a month and a day in a year.
OfYear(y, k) ==
    IF Leap(y) \/ k < LeapDay THEN YearStart(y) + k
    ELSE IF k = LeapDay THEN Nothing
    ELSE YearStart(y) + k - 1

\* The first time of day on a month and a day that is not over, of this year or
\* of the next.  There is none when the one looked at has no such day.
NextOccurrence(k, timeOfDay, t) ==
    LET y == YearOf(DateOf(t))
        this == OfYear(y, k)
        next == OfYear(y + 1, k)
    IN  IF this = Nothing THEN Nothing
        ELSE IF At(this, timeOfDay) >= t THEN At(this, timeOfDay)
        ELSE IF next = Nothing THEN Nothing
        ELSE At(next, timeOfDay)

\* The business days until a weekday: today's is a week away.
DaysUntil_OfTheCalendar(w, t) == LET d == (w - DateOf(t)) % 7 IN IF d = 0 THEN 7 ELSE d
DaysUntil(w, t) == LET d == (w - SubjectiveDate(t)) % 7 IN IF d = 0 THEN 7 ELSE d

TimeOf(v) == v.h * Hour + v.m * Minute
IsClockTime(v) == v.is = "time" /\ v.h < 24 /\ v.m < 60

-----------------------------------------------------------------------------
(* 約, 始 and 終: a time, and a date if it is not on today's.              *)

AppointmentTime(v, day, t) ==
    IF ~ IsClockTime(v) THEN Nothing
    ELSE CASE day.is = "date" -> At(day.date, TimeOf(v))
           [] day.is = "monthday" -> NextOccurrence(day.k, TimeOf(v), t)
           [] day.is = "tomorrow" -> At(DateOf(NextBusinessDayStart(t)), TimeOf(v))
           [] day.is = "weekday" -> At(DateOf(NextBusinessDayStart(t)) + DaysUntil(day.w, t) - 1, TimeOf(v))
           [] OTHER -> At(DateOf(t), TimeOf(v))

\* Finishing takes no second word that is not a date.
FinishTime(v, day, t) ==
    CASE v.is \in {"none", "today"} /\ day = NoWord -> t
      [] v.is = "time" /\ day.is \in {"none", "date", "monthday", "tomorrow", "weekday"} ->
            AppointmentTime(v, day, t)
      [] OTHER -> Nothing

-----------------------------------------------------------------------------
(* 後: how long the task in focus is put off.                              *)

\* The start of a business day to come.
BusinessDayTarget(n, t) ==
    IF n <= 0 THEN t ELSE SubjectiveDateStart(DateOf(NextBusinessDayStart(t)) + n - 1)

AmountTarget(n, unit, t) ==
    CASE unit = "day" -> BusinessDayTarget(n, t)
      [] unit = "hour" -> t + n * Hour
      [] unit = "minute" -> t + n * Minute
      [] OTHER -> t + n

\* A second after the time, unless that is over.
JustAfter(t, now) == IF t = Nothing \/ t + 1 <= now THEN Nothing ELSE t + 1

DeferTarget(v, t) ==
    CASE v.is = "date" -> SubjectiveDateStart(v.date) + 1
      [] v.is = "monthday" -> JustAfter(NextOccurrence(v.k, Morning, t), t)
      [] v.is = "time" ->
            IF v.m >= 60 THEN Nothing
            ELSE JustAfter(At(DateOf(t) + v.h \div 24, (v.h % 24) * Hour + v.m * Minute), t)
      [] v.is = "weekday" -> NextBusinessDayStart(t) + (DaysUntil(v.w, t) - 1) * Day + 1
      [] v.is = "amount" -> AmountTarget(v.n, v.unit, t)
      [] v.is = "number" -> AmountTarget(v.n, "second", t)
      [] OTHER -> Nothing

\* The keys t, h, D, d, w and y.
ShortcutTarget(key, t) ==
    CASE key = "t" -> t + 1
      [] key = "h" -> t + Hour
      [] key = "D" -> t + Day
      [] key = "d" -> NextBusinessDayStart(t) + 1
      [] key = "w" -> NextBusinessDayStart(t) + 6 * Day + 1
      [] key = "y" -> NextBusinessDayStart(t) + (7 * 52 * 5 - 1) * Day + 1

-----------------------------------------------------------------------------
(* 空 and 集: until a time from now on, or a part of a business day.       *)

ClearUntil(v, t) ==
    CASE v.is = "time" /\ v.m < 60 ->
            At(SubjectiveDate(t) + v.h \div 24, (v.h % 24) * Hour + v.m * Minute)
      [] v.is = "number" -> t + v.n * Minute
      [] OTHER -> Nothing

ClearDay(day, t) ==
    CASE day.is = "tomorrow" -> NextBusinessDayStart(t)
      [] day.is = "weekday" -> SubjectiveDateStart(SubjectiveDate(t) + DaysUntil(day.w, t))
      [] day.is = "monthday" -> NextOccurrence(day.k, Morning, t)
      [] OTHER -> Nothing

\* A time before 06:00 is one of the night that follows.
RangeEnd(v, start) ==
    LET end == At(DateOf(start) + v.h \div 24, (v.h % 24) * Hour + v.m * Minute)
    IN  IF end < start THEN end + Day ELSE end

\* From the start of the day to the time, or nothing.
TimeRange(v, day, t) ==
    LET start == ClearDay(day, t)
    IN  IF start = Nothing \/ v.is # "time" \/ v.m >= 60 \/ RangeEnd(v, start) <= start THEN << >>
        ELSE <<start, RangeEnd(v, start)>>

-----------------------------------------------------------------------------
(* 〆: the deadline.                                                       *)

DeadlineDate(v, t) ==
    CASE v.is = "today" -> SubjectiveDate(t)
      [] v.is = "tomorrow" -> DateOf(NextBusinessDayStart(t))
      [] v.is = "weekday" -> SubjectiveDate(t) + DaysUntil(v.w, t)
      [] v.is = "monthday" ->
            LET noon == NextOccurrence(v.k, 12 * Hour, t)
            IN  IF noon = Nothing THEN Nothing ELSE DateOf(noon)
      [] v.is = "date" -> v.date
      [] OTHER -> Nothing

DeadlineTime(v, t) ==
    IF IsClockTime(v) THEN At(DateOf(t), TimeOf(v))
    ELSE IF DeadlineDate(v, t) = Nothing THEN Nothing
    ELSE At(DeadlineDate(v, t), DefaultDeadline)

-----------------------------------------------------------------------------
(* The commands.                                                           *)

Init ==
    /\ focused \in BOOLEAN
    /\ \E c \in Clock, s \in Starts, p \in Waits, d \in Deadlines \cup {Nothing}, o \in {"todo", "pending"} :
          leaf = S!Evaluated([orig |-> o, status |-> "todo", start |-> s, pend |-> p, ddl |-> d,
                              est |-> Hour, act |-> 0, synced |-> c])

SyncClock ==
    /\ \E c \in Clock : c > Now /\ Set([leaf EXCEPT !.synced = c])
    /\ UNCHANGED focused

Focus == focused' = TRUE /\ UNCHANGED leaf

PutOff(l, t) == S!Evaluated([S!Evaluated([l EXCEPT !.pend = t]) EXCEPT !.orig = "pending"])

\* A focus is given up even if it was none.
Defer(target) ==
    IF target = Nothing THEN UNCHANGED vars
    ELSE leaf' = (IF focused THEN PutOff(leaf, target) ELSE leaf) /\ focused' = FALSE

DeferExpression == \E t \in {DeferTarget(v, Now) : v \in Values} : Defer(t)
Shortcut == \E key \in {"t", "h", "D", "d", "w", "y"} : Defer(ShortcutTarget(key, Now))

\* The estimate is doubled whatever follows.
Escape ==
    /\ focused /\ 2 * leaf.est <= MaxEstimate
    /\ \E t \in {DeferTarget(v, Now) : v \in Values \cup {NoWord}} :
          LET doubled == [leaf EXCEPT !.est = 2 * @]
          IN  IF t = Nothing THEN leaf' = doubled /\ UNCHANGED focused
              ELSE leaf' = PutOff(doubled, t) /\ focused' = FALSE

Open(l) == l.orig # "done"

\* Both commands are for every open leaf, whatever is in focus.
DayTimes == {ClearUntil(v, Now) : v \in Values} \ {Nothing}

Cleared(l, t) == S!Evaluated([S!Evaluated([l EXCEPT !.orig = "pending"]) EXCEPT !.pend = t])
ToClear_EvenLonger(l, t) == Open(l) /\ l.start < t
ToClear(l, t) == Open(l) /\ l.start < t /\ (l.orig = "todo" \/ l.pend < t)
Clear ==
    /\ \E t \in DayTimes : leaf' = IF ToClear(leaf, t) THEN Cleared(leaf, t) ELSE leaf
    /\ UNCHANGED focused

ToGather(l, t) == Open(l) /\ l.status = "pending" /\ l.start < t /\ l.pend < t
Gather ==
    /\ \E t \in DayTimes :
          leaf' = IF ToGather(leaf, t) THEN S!Evaluated([leaf EXCEPT !.orig = "todo"]) ELSE leaf
    /\ UNCHANGED focused

Ranges == {TimeRange(v, day, Now) : v, day \in Values} \ {<< >>}

\* A piece of the leaf is planned on the day, or even begins in the range: what
\* Schedule decides.
Planned(range) ==
    IF range[1] + Day <= Now THEN {"no"} ELSE {"no", "that day", "in the range"}

ClearPart ==
    /\ \E range \in Ranges : \E planned \in Planned(range) :
          leaf' = IF \/ leaf.orig = "todo" /\ planned = "in the range"
                     \/ leaf.orig = "pending" /\ planned # "no" /\ leaf.pend \in range[1]..(range[2] - 1)
                  THEN Cleared(leaf, range[2]) ELSE leaf
    /\ UNCHANGED focused

GatherPart ==
    /\ \E range \in Ranges : \E planned \in Planned(range) :
          leaf' = IF leaf.orig = "pending" /\ planned # "no" /\ leaf.pend <= range[2]
                  THEN S!Evaluated([leaf EXCEPT !.pend = range[1]]) ELSE leaf
    /\ UNCHANGED focused

\* A deadline that cannot be read is refused, one that is later than the task's
\* own is not set.
Deadline ==
    /\ focused /\ UNCHANGED focused
    /\ \/ leaf' = [leaf EXCEPT !.ddl = Nothing]
       \/ \E t \in {DeadlineTime(v, Now) : v \in Values} :
             leaf' = IF t = Nothing THEN leaf ELSE S!Hastened(leaf, t)

Appointments == {AppointmentTime(v, day, Now) : v \in Values, day \in Values \cup {NoWord}} \ {Nothing}

Appointment ==
    /\ focused /\ UNCHANGED focused
    /\ \E t \in Appointments : Set([S!Hastened([leaf EXCEPT !.ddl = Nothing], t + leaf.est) EXCEPT !.start = t])

Start ==
    /\ focused /\ UNCHANGED focused
    /\ \E t \in Appointments : Set([leaf EXCEPT !.start = t])

\* The focus goes on to a task that is not modelled here.
Finish ==
    /\ focused
    /\ \E v, day \in Values \cup {NoWord} : FinishTime(v, day, Now) # Nothing
    /\ Set([leaf EXCEPT !.orig = "done"])
    /\ focused' = FALSE

Next ==
    \/ SyncClock \/ Focus \/ DeferExpression \/ Shortcut \/ Escape
    \/ Clear \/ Gather \/ ClearPart \/ GatherPart
    \/ Deadline \/ Appointment \/ Start \/ Finish

Spec == Init /\ [][Next]_vars

-----------------------------------------------------------------------------
(***************************************************************************)
(* Properties                                                              *)
(***************************************************************************)
Noon == [is |-> "time", h |-> 12, m |-> 0]

\* The same word is the same business day to every command, and that is the day
\* it names: the first one after today.
NamesOneDay(t) ==
    LET today == SubjectiveDate(t)
        tomorrow == [is |-> "tomorrow"]
        Means(word, day) ==
            /\ ClearDay(word, t) = SubjectiveDateStart(day)
            /\ DeadlineDate(word, t) = day
            /\ DateOf(AppointmentTime(Noon, word, t)) = day
    IN  /\ \A day \in (today + 1)..(today + 7) :
             LET word == [is |-> "weekday", w |-> day % 7]
             IN  Means(word, day) /\ SubjectiveDate(DeferTarget(word, t)) = day
        /\ Means(tomorrow, today + 1)
        /\ SubjectiveDate(ShortcutTarget("d", t)) = today + 1
        /\ SubjectiveDate(ShortcutTarget("w", t)) = today + 7
        /\ \A n \in 1..8 : AmountTarget(n, "day", t) = SubjectiveDateStart(today + n)

\* A month and a day without a year are the first ones not over, as long as
\* both years have that day.
NamesTheNext(t) ==
    \A k \in {0, LeapDay - 1, LeapDay, LeapDay + 1, 364, 365}, time \in {Morning, 12 * Hour} :
        LET dates == {OfYear(YearOf(DateOf(t)) + i, k) : i \in {0, 1}}
            next == NextOccurrence(k, time, t)
        IN  IF Nothing \in dates THEN next = Nothing \/ next >= t
            ELSE /\ next \in {At(d, time) : d \in dates}
                 /\ next >= t
                 /\ \A d \in dates : At(d, time) >= t => next <= At(d, time)

\* By day a time of day is the same time to every command.  After midnight 空
\* and 集 count its hours from the day that is still going on.
NamesOneTime(t) ==
    \A h \in 0..23 :
        LET v == [is |-> "time", h |-> h, m |-> 0]
            time == AppointmentTime(v, NoWord, t)
            late == IF TimeOfDay(t) < Morning THEN [v EXCEPT !.h = h + 24] ELSE v
        IN  /\ ClearUntil(late, t) = time
            /\ DeadlineTime(v, t) = time
            /\ DeferTarget(v, t) = JustAfter(time, t)

\* A part of a business day begins with it and ends before the next, at the
\* time that was given; the hours after midnight have two names.
NamesOnePart(t) ==
    \A h \in 0..29 :
        LET v == [is |-> "time", h |-> h, m |-> 0]
            part == TimeRange(v, [is |-> "tomorrow"], t)
            start == NextBusinessDayStart(t)
        IN  IF h = 6 THEN part = << >>
            ELSE /\ part = <<start, part[2]>> /\ part[2] \in (start + 1)..(start + Day - 1)
                 /\ TimeOfDay(part[2]) = (h % 24) * Hour

DatesAgree == NamesOneDay(Now) /\ NamesTheNext(Now) /\ NamesOneTime(Now) /\ NamesOnePart(Now)

\* No clearing brings work forward or touches when it starts; and nothing that is
\* put off is there again at once, by a word that is not of the past itself: a
\* date may be, and an amount of time that is not positive.  Only a deadline
\* stands against either.
IsAhead(v) == v.is # "date" /\ (v.is \in {"number", "amount"} => v.n > 0)
PutsOff ==
    /\ \/ leaf'.start # leaf.start
       \/ S!FirstAvailable(leaf') < S!FirstAvailable(S!Evaluated(leaf))
       => ~ (Clear \/ ClearPart)
    /\ /\ leaf' # leaf /\ leaf'.pend <= Now
       /\ leaf'.ddl # Nothing => leaf'.pend # S!DeadlinePendingLimit(leaf'.ddl, leaf'.est)
       => \A v \in {w \in Values : IsAhead(w)} : ~ Defer(DeferTarget(v, Now))
=============================================================================
