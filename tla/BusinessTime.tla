---------------------------- MODULE BusinessTime ----------------------------
(***************************************************************************)
(* The business day of entity/datetime.rs: it begins at 06:00 and ends at  *)
(* a configured distance from midnight.  Times are seconds, dates are days *)
(* since some midnight.  Every local time is taken to exist once: what the *)
(* code does about changes of the clocks, an error, is not modelled.       *)
(***************************************************************************)
EXTENDS Integers

Day == 86400
Hour == 3600
Minute == 60
Morning == 6 * Hour
LastSecond == Day - 1  \* 23:59:59

DateOf(t) == t \div Day
TimeOfDay(t) == t % Day
At(date, timeOfDay) == date * Day + timeOfDay

\* The business day a time belongs to.
SubjectiveDate(t) == IF TimeOfDay(t) < Morning THEN DateOf(t) - 1 ELSE DateOf(t)

\* The first 06:00 after a time.
NextBusinessDayStart(t) ==
    At(IF TimeOfDay(t) < Morning THEN DateOf(t) ELSE DateOf(t) + 1, Morning)

SubjectiveDateStart(date) == At(date, Morning)
SubjectiveDateEnd(date, offset) == At(date + 1, 0) + offset
=============================================================================
