---------------------------- MODULE Schedule_proofs ----------------------------
(***************************************************************************)
(* Proofs about Schedule, for any tasks, works, times and dependencies:    *)
(* the plan is sound at every turn, the tasks that are finished are        *)
(* planned as WorkPlan says, and in whole units all are planned as         *)
(* Timetable says.  And proofs about what is planned from it: when each    *)
(* task can begin (Availability), and what flattening and packing move     *)
(* (DayPlan), for chains and days of any length.                           *)
(***************************************************************************)
EXTENDS Schedule, DayPlan, FiniteSums

\* The segments of the task being planned.
OwnSegments == {s \in slots : s.task = cur}

TotalLength(S) == SumOver([s \in S |-> s.to - s.from], S)

\* What holds while a task is planned: where it goes on is after all that it
\* depends on and after its own segments.
OnTheWay ==
    cur # Nobody =>
        /\ cur \notin waiting
        /\ at >= Clock /\ at >= cand[cur].avail
        /\ \A c \in cand[cur].children : c \in DOMAIN end /\ at >= end[c]
        /\ \A s \in OwnSegments : s.to <= at

\* What is left and what has segments is all the work, a task in one piece has
\* none yet, and every cut left enough on both sides.
Pieces ==
    cur # Nobody =>
        /\ TotalLength(OwnSegments) + left = cand[cur].work
        /\ OwnSegments # {} => ~ cand[cur].atomic /\ left > MinSplit
        /\ \A s \in OwnSegments : s.to - s.from > MinSplit

IInv ==
    /\ TypeOK
    /\ IsFiniteSet(slots)
    /\ \A s \in slots : s.task \notin waiting
    /\ SoundPlan
    /\ OnTheWay
    /\ Pieces

-----------------------------------------------------------------------------
(***************************************************************************)
(* Looking for time.                                                       *)
(***************************************************************************)
Typed(S) == IsFiniteSet(S) /\ \A s \in S : s.from \in Int /\ s.to \in Int

LEMMA EndsAreFinite ==
    ASSUME Typed(slots)
    PROVE  /\ IsFiniteSet({s.to : s \in slots}) /\ {s.to : s \in slots} \subseteq Int
           /\ \A R \in SUBSET slots : IsFiniteSet({s.from : s \in R}) /\ {s.from : s \in R} \subseteq Int
<1> DEFINE f == [s \in slots |-> s.to]
           g == [s \in slots |-> s.from]
<1>1. IsFiniteSet({f[s] : s \in slots}) /\ {f[s] : s \in slots} = {s.to : s \in slots}
    <2>1. IsFiniteSet({f[s] : s \in slots})
        <3> HIDE DEF f
        <3> QED BY ImageOfFinite DEF Typed
    <2> QED BY <2>1
<1>2. ASSUME NEW R \in SUBSET slots PROVE IsFiniteSet({s.from : s \in R})
    <2>1. IsFiniteSet(R)
        BY FS_Subset DEF Typed
    <2>2. IsFiniteSet({g[s] : s \in R})
        <3> HIDE DEF g
        <3> QED BY <2>1, ImageOfFinite
    <2>3. {g[s] : s \in R} = {s.from : s \in R}
        OBVIOUS
    <2> QED BY <2>2, <2>3
<1>3. {s.to : s \in slots} \subseteq Int /\ \A R \in SUBSET slots : {s.from : s \in R} \subseteq Int
    BY DEF Typed
<1> QED BY <1>1, <1>2, <1>3

(* A place that is clear is not before where the search begins and meets   *)
(* no segment: the end of the last segment always is one.                  *)
LEMMA ClearIsClear ==
    ASSUME Typed(slots), NEW from \in Int, NEW length \in Int
    PROVE  /\ Clear(from, length) \in Int /\ Clear(from, length) >= from
           /\ \A s \in slots : ~ Overlaps(s, Clear(from, length), Clear(from, length) + length)
<1> DEFINE E == {from} \cup {s.to : s \in slots}
           B == {b \in E : b >= from /\ \A s \in slots : ~ Overlaps(s, b, b + length)}
<1>1. IsFiniteSet(E) /\ E \subseteq Int /\ E # {}
    <2> DEFINE T == {s.to : s \in slots}
    <2>1. IsFiniteSet(T) /\ T \subseteq Int
        BY EndsAreFinite
    <2>2. E = T \cup {from}
        OBVIOUS
    <2> HIDE DEF E, T
    <2>3. IsFiniteSet(T \cup {from})
        BY <2>1, FS_AddElement
    <2> QED BY <2>1, <2>2, <2>3
<1>2. from \in E /\ \A s \in slots : s.to \in E
    OBVIOUS
<1> HIDE DEF E
<1>3. PICK m \in E : \A e \in E : m >= e
    BY <1>1, GreatestOfFinite
<1>4. m \in B
    <2>1. m >= from
        BY <1>2, <1>3
    <2>2. ASSUME NEW s \in slots PROVE ~ Overlaps(s, m, m + length)
        <3>1. m >= s.to /\ m \in Int /\ s.to \in Int
            BY <1>1, <1>2, <1>3
        <3> QED BY <3>1 DEF Overlaps
    <2> QED BY <2>1, <2>2
<1>5. IsFiniteSet(B) /\ B \subseteq Int /\ B # {}
    BY <1>1, <1>4, FS_Subset
<1>6. Clear(from, length) = Min(B)
    BY DEF Clear, E
<1>7. Min(B) \in B
    <2> HIDE DEF B
    <2> QED BY <1>5, MinIsLeast
<1> QED BY <1>1, <1>6, <1>7

(* Nor does a segment that stops where it has to.                          *)
LEMMA StopIsInTime ==
    ASSUME Typed(slots), NEW from \in Int, left \in Nat
    PROVE  /\ Stop(from) \in Int /\ from <= Stop(from) /\ Stop(from) <= from + left
           /\ \A s \in slots : from < s.to /\ from <= s.from => Stop(from) <= s.from
<1> DEFINE R == {r \in slots : from < r.to /\ from <= r.from}
           E == {s.from : s \in R}
           D == {from + left} \cup E
<1>1. IsFiniteSet(E) /\ E \subseteq Int
    <2> HIDE DEF R
    <2>1. R \in SUBSET slots
        BY DEF R
    <2> QED BY <2>1, EndsAreFinite
<1>2. IsFiniteSet(D) /\ D \subseteq Int /\ D # {}
    <2> HIDE DEF E
    <2> QED BY <1>1, FS_AddElement
<1>3. (from + left) \in D /\ (\A r \in R : r.from \in D) /\ \A e \in D : from <= e
    <2>1. \A e \in E : from <= e
        OBVIOUS
    <2> QED BY <2>1
<1>4. Stop(from) = Min(D)
    BY DEF Stop
<1> HIDE DEF D
<1>5. Min(D) \in D /\ \A e \in D : Min(D) <= e
    BY <1>2, MinIsLeast
<1> QED BY <1>2, <1>3, <1>4, <1>5

(* Nothing begins before the task is available and all below it finished.  *)
LEMMA EarliestIsLate ==
    ASSUME TypeOK, NEW t \in Tasks, Ready(t)
    PROVE  /\ Earliest(t) \in Int /\ Earliest(t) >= cand[t].avail /\ Earliest(t) >= Clock
           /\ \A c \in cand[t].children : Earliest(t) >= end[c]
<1> DEFINE C == cand[t].children
           f == [c \in C |-> end[c]]
           E == {end[c] : c \in C}
           D == {cand[t].avail, Clock} \cup E
<1>1. C \subseteq Tasks /\ cand[t].avail \in Int /\ Clock \in Int /\ \A c \in C : end[c] \in Int
    BY NumbersAssumption DEF TypeOK, IsCandidates, Ready
<1>2. IsFiniteSet(E)
    <2>1. IsFiniteSet(C)
        BY <1>1, TasksAssumption, FS_Subset
    <2>2. IsFiniteSet({f[c] : c \in C})
        <3> HIDE DEF f, C
        <3> QED BY <2>1, ImageOfFinite
    <2>3. {f[c] : c \in C} = E
        OBVIOUS
    <2> QED BY <2>2, <2>3
<1>3. E \subseteq Int /\ \A c \in C : end[c] \in E
    BY <1>1
<1>4. D = (E \cup {Clock}) \cup {cand[t].avail}
    OBVIOUS
<1>5. IsFiniteSet(D) /\ D \subseteq Int /\ D # {}
    <2> HIDE DEF E, D
    <2>1. IsFiniteSet(E \cup {Clock})
        BY <1>2, FS_AddElement
    <2>2. IsFiniteSet(D)
        BY <2>1, <1>4, FS_AddElement
    <2> QED BY <1>1, <1>3, <1>4, <2>2
<1>6. cand[t].avail \in D /\ Clock \in D /\ \A c \in C : end[c] \in D
    BY <1>3
<1>7. Earliest(t) = Max(D)
    BY DEF Earliest
<1> HIDE DEF D
<1>8. Max(D) \in D /\ \A e \in D : Max(D) >= e
    BY <1>5, MaxIsGreatest
<1> QED BY <1>5, <1>6, <1>7, <1>8

-----------------------------------------------------------------------------
(***************************************************************************)
(* The length of some segments.                                            *)
(***************************************************************************)
LEMMA NoLength ==
    TotalLength({}) = 0
BY SumOfNothing DEF TotalLength

LEMMA LengthOfOneMore ==
    ASSUME NEW S, Typed(S), NEW x, x \notin S, x.from \in Int, x.to \in Int
    PROVE  TotalLength(S) \in Int /\ TotalLength(S \cup {x}) = TotalLength(S) + (x.to - x.from)
<1> DEFINE T == S \cup {x}
           f == [s \in T |-> s.to - s.from]
           g == [s \in S |-> s.to - s.from]
<1>1. IsFiniteSet(T) /\ x \in T /\ T \ {x} = S /\ IsFiniteSet(S)
    BY FS_AddElement DEF Typed
<1>2. (\A s \in T : f[s] \in Int) /\ f[x] = x.to - x.from /\ \A s \in S : f[s] \in Int /\ f[s] = g[s]
    BY DEF Typed
<1>3. TotalLength(T) = SumOver(f, T) /\ TotalLength(S) = SumOver(g, S)
    BY DEF TotalLength
<1> HIDE DEF f, g, T
<1>4. SumOver(f, S) \in Int /\ SumOver(f, T) = f[x] + SumOver(f, S)
    BY <1>1, <1>2, SumWithout
<1>5. SumOver(f, S) = SumOver(g, S)
    BY <1>1, <1>2, SumOfTheSame
<1> QED BY <1>2, <1>3, <1>4, <1>5 DEF T

(* That is what WorkPlan calls the length of a set of segments.            *)
LEMMA LengthIsLength ==
    ASSUME NEW S, Typed(S)
    PROVE  Plan!Length(S) = TotalLength(S)
<1> DEFINE f == [s \in S |-> s.to - s.from]
           Chosen(g) == g = [r \in SUBSET S |->
                                IF r = {} THEN 0 ELSE (AnyOf(r).to - AnyOf(r).from) + g[r \ {AnyOf(r)}]]
<1>1. \A r \in SUBSET S : r # {} => AnyOf(r) \in S
    BY DEF AnyOf
<1>2. \A r \in SUBSET S : r # {} => AnyOf(r).to - AnyOf(r).from = f[AnyOf(r)]
    BY <1>1
<1>3. ASSUME NEW g PROVE Chosen(g) <=> Sums(g, f, S)
    <2> HIDE DEF f
    <2>1. [r \in SUBSET S |-> IF r = {} THEN 0 ELSE (AnyOf(r).to - AnyOf(r).from) + g[r \ {AnyOf(r)}]]
            = [r \in SUBSET S |-> IF r = {} THEN 0 ELSE f[AnyOf(r)] + g[r \ {AnyOf(r)}]]
        BY <1>2
    <2> QED BY <2>1 DEF Sums
<1>4. \E g : Chosen(g)
    <2> HIDE DEF f, Chosen
    <2> QED BY <1>3, SumsExist DEF Typed
<1>5. PICK g : g = CHOOSE h : Chosen(h)
    OBVIOUS
<1>6. Sums(g, f, S)
    <2> HIDE DEF f, Chosen
    <2> QED BY <1>3, <1>4, <1>5
<1>7. Plan!Length(S) = g[S]
    BY <1>5 DEF Plan!Length, Plan!MapThenSumSet, Plan!MapThenFoldSet, AnyOf
<1>8. PICK k : Sums(k, f, S) /\ SumOver(f, S) = k[S]
    <2> HIDE DEF f
    <2> QED BY SumIsOfSums DEF Typed
<1>9. TotalLength(S) = SumOver(f, S)
    BY DEF TotalLength
<1>10. \A s \in S : f[s] \in Int
    BY DEF Typed
<1> HIDE DEF f
<1>11. g[S] = k[S]
    BY <1>6, <1>8, <1>10, SumsAgree DEF Typed
<1> QED BY <1>7, <1>8, <1>9, <1>11

-----------------------------------------------------------------------------
(***************************************************************************)
(* Every turn leaves a sound plan.                                         *)
(***************************************************************************)
(* A segment that meets none and begins where the task may go on.          *)
LEMMA NewSegment ==
    ASSUME IInv, cur \in Tasks, NEW from \in Int, NEW to \in Int, from < to, at <= from,
           \A s \in slots : s.to <= from \/ to <= s.from,
           slots' = slots \cup {Segment(from, to)}, cand' = cand,
           DOMAIN end \subseteq DOMAIN end', \A t \in DOMAIN end : end'[t] = end[t]
    PROVE  /\ Segment(from, to) \notin slots
           /\ IsFiniteSet(slots')
           /\ \A s \in slots' : s.task \in Tasks /\ s.from \in Int /\ s.to \in Int /\ s.from < s.to
           /\ SoundPlan'
<1> DEFINE x == Segment(from, to)
<1>1. x.task = cur /\ x.from = from /\ x.to = to
    BY DEF Segment
<1> HIDE DEF x
<1>2. slots' = slots \cup {x}
    BY DEF x
<1>3. \A s \in slots : s.task \in Tasks /\ s.from \in Int /\ s.to \in Int /\ s.from < s.to
    BY DEF IInv, TypeOK
<1>4. x \notin slots
    <2> SUFFICES ASSUME x \in slots PROVE FALSE
        OBVIOUS
    <2>1. from < to /\ (to <= from \/ to <= from)
        BY <1>1
    <2> QED BY <2>1
<1>5. IsFiniteSet(slots')
    BY <1>2, FS_AddElement DEF IInv
<1>6. Apart'
    <2>1. Apart
        BY DEF IInv, SoundPlan
    <2>2. \A r \in slots : r.to <= x.from \/ x.to <= r.from
        BY <1>1
    <2> QED BY <1>2, <2>1, <2>2 DEF Apart
<1>7. AfterChildren'
    <2> SUFFICES ASSUME NEW s \in slots'
                 PROVE  /\ s.from >= cand[s.task].avail /\ s.from >= Clock
                        /\ \A c \in cand[s.task].children : c \in DOMAIN end' /\ s.from >= end'[c]
        BY DEF AfterChildren
    <2>1. CASE s \in slots
        <3>1. AfterChildren
            BY DEF IInv, SoundPlan
        <3> QED BY <2>1, <3>1 DEF AfterChildren
    <2>2. CASE s = x
        <3>1. /\ at >= Clock /\ at >= cand[cur].avail
              /\ \A c \in cand[cur].children : c \in DOMAIN end /\ at >= end[c]
            BY TasksAssumption DEF IInv, OnTheWay
        <3>2. /\ at \in Int /\ Clock \in Int /\ cand[cur].avail \in Int /\ cand[cur].children \subseteq Tasks
              /\ \A c \in DOMAIN end : end[c] \in Int
            BY NumbersAssumption DEF IInv, TypeOK, IsCandidates
        <3> QED BY <1>1, <2>2, <3>1, <3>2
    <2> QED BY <1>2, <2>1, <2>2
<1>8. \A s \in slots' : s.task \in Tasks /\ s.from \in Int /\ s.to \in Int /\ s.from < s.to
    BY <1>1, <1>2, <1>3
<1> QED BY <1>4, <1>5, <1>6, <1>7, <1>8 DEF x, SoundPlan

(* Finishing the task that is planned.                                     *)
LEMMA FinishTypes ==
    ASSUME TypeOK, cur \in Tasks, cur \notin waiting, NEW e \in Int, Finish(e)
    PROVE  /\ cur' = Nobody /\ cur \notin DOMAIN end
           /\ DOMAIN end' = Tasks \ waiting
           /\ DOMAIN end' = DOMAIN end \cup {cur}
           /\ end'[cur] = e
           /\ \A t \in DOMAIN end : end'[t] = end[t]
           /\ \A t \in DOMAIN end' : end'[t] \in Int
<1>1. DOMAIN end = Tasks \ (waiting \cup {cur}) /\ \A t \in DOMAIN end : end[t] \in Int
    BY DEF TypeOK
<1>2. end' = [t \in DOMAIN end \cup {cur} |-> IF t = cur THEN e ELSE end[t]] /\ cur' = Nobody
    BY DEF Finish
<1> QED BY <1>1, <1>2

LEMMA PickStep ==
    ASSUME IInv, NEW t \in waiting, Pick(t)
    PROVE  IInv'
<1>1. /\ cur = Nobody /\ t \in Tasks /\ Ready(t) /\ cur' = t /\ waiting' = waiting \ {t}
      /\ at' = Clear(Earliest(t), 0) /\ left' = cand[t].work
      /\ cand' = cand /\ slots' = slots /\ end' = end
    BY DEF Pick, IInv, TypeOK
<1>2. TypeOK /\ Typed(slots) /\ IsFiniteSet(slots)
    BY DEF IInv, TypeOK, Typed
<1>3. /\ Earliest(t) \in Int /\ Earliest(t) >= cand[t].avail /\ Earliest(t) >= Clock
      /\ \A c \in cand[t].children : Earliest(t) >= end[c]
    BY <1>1, <1>2, EarliestIsLate
<1>4. at' \in Int /\ at' >= Earliest(t)
    BY <1>1, <1>2, <1>3, ClearIsClear
<1>5. /\ cand[t].avail \in Int /\ cand[t].work \in Nat /\ Clock \in Int
      /\ cand[t].children \subseteq DOMAIN end /\ \A c \in DOMAIN end : end[c] \in Int
    BY <1>1, NumbersAssumption DEF IInv, TypeOK, IsCandidates, Ready
<1>6. TypeOK'
    <2>1. DOMAIN end = Tasks \ (waiting \cup {Nobody}) /\ waiting \subseteq Tasks
        BY <1>1 DEF IInv, TypeOK
    <2>2. DOMAIN end' = Tasks \ (waiting' \cup {cur'})
        BY <1>1, <2>1, TasksAssumption
    <2> QED BY <1>1, <1>2, <1>4, <1>5, <2>1, <2>2 DEF TypeOK
<1>7. OwnSegments' = {}
    BY <1>1 DEF OwnSegments, IInv
<1>8. OnTheWay'
    <2>1. at' >= Clock /\ at' >= cand[t].avail
        BY <1>3, <1>4, <1>5
    <2>2. \A c \in cand[t].children : c \in DOMAIN end /\ at' >= end[c]
        BY <1>3, <1>4, <1>5
    <2> QED BY <1>1, <1>7, <2>1, <2>2 DEF OnTheWay
<1>9. Pieces'
    BY <1>1, <1>5, <1>7, NoLength DEF Pieces
<1>10. SoundPlan'
    BY <1>1 DEF IInv, SoundPlan, Apart, AfterChildren
<1> QED BY <1>1, <1>2, <1>6, <1>8, <1>9, <1>10 DEF IInv

LEMMA PlanNothingStep ==
    ASSUME IInv, PlanNothing
    PROVE  IInv'
<1>1. /\ cur \in Tasks /\ cur \notin waiting /\ TypeOK /\ at \in Int /\ Finish(at)
      /\ cand' = cand /\ waiting' = waiting /\ slots' = slots /\ at' = at /\ left' = left
    BY DEF PlanNothing, IInv, TypeOK, OnTheWay
<1>2. /\ cur' = Nobody /\ DOMAIN end' = Tasks \ waiting
      /\ DOMAIN end' = DOMAIN end \cup {cur}
      /\ \A t \in DOMAIN end : end'[t] = end[t]
      /\ \A t \in DOMAIN end' : end'[t] \in Int
    BY <1>1, FinishTypes
<1>3. TypeOK'
    BY <1>1, <1>2, TasksAssumption DEF TypeOK
<1>4. SoundPlan'
    BY <1>1, <1>2 DEF IInv, SoundPlan, Apart, AfterChildren
<1> QED BY <1>1, <1>2, <1>3, <1>4 DEF IInv, OnTheWay, Pieces

LEMMA PlanWholeStep ==
    ASSUME IInv, PlanWhole
    PROVE  IInv'
<1> DEFINE from == Clear(at, left)
           to == from + left
<1>1. /\ cur \in Tasks /\ cur \notin waiting /\ TypeOK /\ at \in Int /\ left \in Nat /\ left > 0
      /\ slots' = slots \cup {Segment(from, to)} /\ Finish(to)
      /\ cand' = cand /\ waiting' = waiting /\ at' = at /\ left' = left
    BY DEF PlanWhole, IInv, TypeOK, OnTheWay
<1>2. Typed(slots)
    BY DEF IInv, TypeOK, Typed
<1>3. from \in Int /\ from >= at /\ \A s \in slots : ~ Overlaps(s, from, to)
    BY <1>1, <1>2, ClearIsClear
<1> HIDE DEF from
<1>4. to \in Int /\ from < to /\ \A s \in slots : s.to <= from \/ to <= s.from
    BY <1>1, <1>2, <1>3 DEF Overlaps, Typed
<1> HIDE DEF to
<1>5. /\ cur' = Nobody /\ DOMAIN end' = Tasks \ waiting
      /\ DOMAIN end' = DOMAIN end \cup {cur}
      /\ \A t \in DOMAIN end : end'[t] = end[t]
      /\ \A t \in DOMAIN end' : end'[t] \in Int
    BY <1>1, <1>4, FinishTypes
<1>6. /\ IsFiniteSet(slots') /\ SoundPlan'
      /\ \A s \in slots' : s.task \in Tasks /\ s.from \in Int /\ s.to \in Int /\ s.from < s.to
    BY <1>1, <1>3, <1>4, <1>5, NewSegment
<1>7. TypeOK'
    BY <1>1, <1>5, <1>6, TasksAssumption DEF TypeOK
<1>8. \A s \in slots' : s.task \notin waiting'
    BY <1>1 DEF IInv, Segment
<1> QED BY <1>1, <1>5, <1>6, <1>7, <1>8 DEF IInv, OnTheWay, Pieces

\* Where a segment of the planned task begins.
LEMMA NextPlace ==
    ASSUME IInv, Splitting
    PROVE  LET from == Clear(at, 0)
               to == Stop(from)
           IN  /\ from \in Int /\ to \in Int /\ at <= from /\ from <= to /\ to <= from + left
               /\ \A s \in slots : s.to <= from \/ to <= s.from
<1> DEFINE from == Clear(at, 0)
           to == Stop(from)
<1>1. Typed(slots) /\ at \in Int /\ left \in Nat
    BY DEF IInv, TypeOK, Typed
<1>2. from \in Int /\ from >= at /\ \A s \in slots : ~ Overlaps(s, from, from + 0)
    BY <1>1, ClearIsClear
<1> HIDE DEF from
<1>3. /\ to \in Int /\ from <= to /\ to <= from + left
      /\ \A s \in slots : from < s.to /\ from <= s.from => to <= s.from
    BY <1>1, <1>2, StopIsInTime
<1>4. \A s \in slots : s.to <= from \/ to <= s.from
    BY <1>1, <1>2, <1>3 DEF Overlaps, Typed
<1> QED BY <1>1, <1>2, <1>3, <1>4 DEF from

LEMMA SkipStep ==
    ASSUME IInv, NEW from \in Int, NEW to \in Int, at <= from, from <= to, Skip(from, to)
    PROVE  IInv'
<1>1. PICK s \in slots : s.from = to /\ at' = s.to
    BY DEF Skip
<1>2. /\ cand' = cand /\ waiting' = waiting /\ slots' = slots /\ end' = end /\ cur' = cur /\ left' = left
      /\ cur \in Tasks /\ cur # Nobody
    BY DEF Skip, Splitting, IInv, TypeOK
<1>3. at \in Int /\ at' \in Int /\ at' >= at
    BY <1>1 DEF IInv, TypeOK
<1>4. TypeOK'
    BY <1>2, <1>3 DEF IInv, TypeOK
<1>5. OnTheWay'
    <2>1. /\ cur \notin waiting /\ at >= Clock /\ at >= cand[cur].avail
          /\ \A c \in cand[cur].children : c \in DOMAIN end /\ at >= end[c]
          /\ \A r \in OwnSegments : r.to <= at
        BY <1>2 DEF IInv, OnTheWay
    <2>2. /\ cand[cur].avail \in Int /\ Clock \in Int /\ (\A c \in DOMAIN end : end[c] \in Int)
          /\ (\A r \in OwnSegments : r.to \in Int) /\ OwnSegments' = OwnSegments
        BY <1>2, NumbersAssumption DEF IInv, TypeOK, IsCandidates, OwnSegments
    <2>3. at' >= Clock /\ at' >= cand[cur].avail
        BY <1>3, <2>1, <2>2
    <2>4. \A c \in cand[cur].children : c \in DOMAIN end /\ at' >= end[c]
        BY <1>3, <2>1, <2>2
    <2>5. \A r \in OwnSegments : r.to <= at'
        BY <1>3, <2>1, <2>2
    <2> QED BY <1>2, <2>1, <2>2, <2>3, <2>4, <2>5 DEF OnTheWay
<1> QED BY <1>2, <1>4, <1>5 DEF IInv, Pieces, OwnSegments, SoundPlan, Apart, AfterChildren

(* What a segment leaves, unless it is the last.                           *)
LEMMA CutsAreLong ==
    ASSUME IInv, NEW from \in Int, NEW to \in Int, from < to, to <= from + left,
           PlanSegment(from, to), left' # 0
    PROVE  to - from > MinSplit /\ left' > MinSplit
<1>1. left \in Nat /\ MinSplit \in Nat /\ left' = left - (to - from) /\ ~ TooShort(from, to)
    BY NumbersAssumption DEF IInv, TypeOK, PlanSegment
<1> QED BY <1>1 DEF TooShort

LEMMA PlanSegmentStep ==
    ASSUME IInv, NEW from \in Int, NEW to \in Int, at <= from, to <= from + left,
           \A s \in slots : s.to <= from \/ to <= s.from, PlanSegment(from, to)
    PROVE  IInv'
<1> DEFINE x == Segment(from, to)
<1>1. /\ cur \in Tasks /\ cur # Nobody /\ cur \notin waiting /\ ~ cand[cur].atomic
      /\ TypeOK /\ at \in Int /\ left \in Nat
      /\ from < to /\ slots' = slots \cup {x} /\ at' = to /\ left' = left - (to - from)
      /\ cand' = cand /\ waiting' = waiting
      /\ IF left' = 0 THEN Finish(to) ELSE end' = end /\ cur' = cur
    BY DEF PlanSegment, Splitting, IInv, TypeOK, OnTheWay
<1>2. left' \in Nat
    BY <1>1
<1>3. /\ DOMAIN end \subseteq DOMAIN end' /\ (\A t \in DOMAIN end : end'[t] = end[t])
      /\ DOMAIN end' = Tasks \ (waiting' \cup {cur'}) /\ \A t \in DOMAIN end' : end'[t] \in Int
    <2>1. CASE left' = 0
        BY <1>1, <2>1, FinishTypes, TasksAssumption
    <2>2. CASE left' # 0
        BY <1>1, <2>2 DEF TypeOK
    <2> QED BY <2>1, <2>2
<1>4. /\ x \notin slots /\ IsFiniteSet(slots') /\ SoundPlan'
      /\ \A s \in slots' : s.task \in Tasks /\ s.from \in Int /\ s.to \in Int /\ s.from < s.to
    BY <1>1, <1>3, NewSegment
<1>5. cur' \in Tasks \cup {Nobody}
    BY <1>1 DEF Finish
<1>6. TypeOK'
    BY <1>1, <1>2, <1>3, <1>4, <1>5 DEF TypeOK
<1>7. x.task = cur /\ x.from = from /\ x.to = to
    BY DEF Segment
<1> HIDE DEF x
<1>8. \A s \in slots' : s.task \notin waiting'
    BY <1>1, <1>7 DEF IInv
<1>9. CASE left' = 0
    <2>1. cur' = Nobody
        BY <1>1, <1>9 DEF Finish
    <2> QED BY <1>4, <1>6, <1>8, <2>1 DEF IInv, OnTheWay, Pieces
<1>10. CASE left' # 0
    <2>1. end' = end /\ cur' = cur
        BY <1>1, <1>10
    <2>2. OwnSegments' = OwnSegments \cup {x} /\ x \notin OwnSegments /\ OwnSegments \subseteq slots
        BY <1>1, <1>4, <1>7, <2>1 DEF OwnSegments
    <2>3. \A s \in OwnSegments : s.from \in Int /\ s.to \in Int
        BY <2>2 DEF TypeOK, IInv
    <2>4. OnTheWay'
        <3>1. /\ at >= Clock /\ at >= cand[cur].avail
              /\ \A c \in cand[cur].children : c \in DOMAIN end /\ at >= end[c]
              /\ \A r \in OwnSegments : r.to <= at
            BY <1>1 DEF IInv, OnTheWay
        <3>2. cand[cur].avail \in Int /\ Clock \in Int /\ (\A c \in DOMAIN end : end[c] \in Int) /\ at <= to
            BY <1>1, NumbersAssumption DEF IInv, TypeOK, IsCandidates
        <3>3. to >= Clock /\ to >= cand[cur].avail
            BY <1>1, <3>1, <3>2
        <3>4. \A c \in cand[cur].children : c \in DOMAIN end /\ to >= end[c]
            BY <1>1, <3>1, <3>2
        <3>5. \A r \in OwnSegments' : r.to <= to
            BY <1>1, <1>7, <2>2, <2>3, <3>1, <3>2
        <3> QED BY <1>1, <2>1, <3>3, <3>4, <3>5 DEF OnTheWay
    <2>5. to - from > MinSplit /\ left' > MinSplit
        BY <1>1, <1>10, CutsAreLong
    <2>6. Pieces'
        <3>1. TotalLength(OwnSegments) + left = cand[cur].work /\ \A s \in OwnSegments : s.to - s.from > MinSplit
            BY <1>1 DEF IInv, Pieces
        <3>2. Typed(OwnSegments)
            BY <2>2, <2>3, FS_Subset DEF IInv, Typed
        <3>3. TotalLength(OwnSegments) \in Int /\ TotalLength(OwnSegments') = TotalLength(OwnSegments) + (to - from)
            BY <1>7, <2>2, <3>2, LengthOfOneMore
        <3>4. TotalLength(OwnSegments') + left' = cand[cur].work
            BY <1>1, <3>1, <3>3
        <3>5. TotalLength(OwnSegments)' = TotalLength(OwnSegments')
            BY DEF TotalLength
        <3>6. \A s \in OwnSegments' : s.to - s.from > MinSplit
            BY <1>7, <2>2, <2>5, <3>1
        <3> QED BY <1>1, <2>1, <2>5, <3>4, <3>5, <3>6 DEF Pieces
    <2> QED BY <1>4, <1>6, <1>8, <2>4, <2>6 DEF IInv
<1> QED BY <1>9, <1>10

LEMMA PlanPartStep ==
    ASSUME IInv, PlanPart
    PROVE  IInv'
<1> DEFINE from == Clear(at, 0)
           to == Stop(from)
<1>1. Splitting /\ (Skip(from, to) \/ PlanSegment(from, to))
    BY DEF PlanPart, Skip, PlanSegment
<1>2. /\ from \in Int /\ to \in Int /\ at <= from /\ from <= to /\ to <= from + left
      /\ \A s \in slots : s.to <= from \/ to <= s.from
    BY <1>1, NextPlace
<1> HIDE DEF from, to
<1> QED BY <1>1, <1>2, SkipStep, PlanSegmentStep

(* So the invariant of the turns holds throughout.                         *)
THEOREM Invariance == Spec => []IInv
<1>1. Init => IInv
    <2> SUFFICES ASSUME Init PROVE IInv
        OBVIOUS
    <2>1. /\ cand \in Candidates /\ waiting = Tasks /\ slots = {} /\ end = << >> /\ cur = Nobody
          /\ at = Clock /\ left = 0
        BY DEF Init
    <2>2. DOMAIN end = {}
        BY <2>1
    <2>3. TypeOK
        BY <2>1, <2>2, CandidatesAssumption, NumbersAssumption DEF TypeOK
    <2>4. IsFiniteSet(slots)
        BY <2>1, FS_EmptySet
    <2> QED BY <2>1, <2>3, <2>4 DEF IInv, SoundPlan, Apart, AfterChildren, OnTheWay, Pieces
<1>2. IInv /\ [Next]_vars => IInv'
    <2> SUFFICES ASSUME IInv, [Next]_vars PROVE IInv'
        OBVIOUS
    <2>1. CASE UNCHANGED vars
        BY <2>1 DEF vars, IInv, TypeOK, SoundPlan, Apart, AfterChildren, OnTheWay, Pieces, OwnSegments, TotalLength
    <2> QED BY <2>1, PickStep, PlanNothingStep, PlanWholeStep, PlanPartStep DEF Next
<1> QED BY <1>1, <1>2, PTL DEF Spec

(* Every reachable state is well typed, whatever is to be planned.         *)
THEOREM TypeCorrect == Spec => []TypeOK
BY Invariance, PTL DEF IInv

(* No two segments of work overlap, and none begins before its task is     *)
(* available or before all that it depends on is finished, however far     *)
(* that was pushed (schedule_tasks_by_priority).                           *)
THEOREM PlanIsSound == Spec => []SoundPlan
BY Invariance, PTL DEF IInv

-----------------------------------------------------------------------------
(***************************************************************************)
(* The tasks that are finished are planned one after the other, each all   *)
(* at once: the turns that finish a task are the steps of WorkPlan, the    *)
(* others change nothing that it knows of.                                 *)
(***************************************************************************)
PlannedSegments == {s \in slots : s.task # cur}

(* A turn that finishes no task.                                           *)
LEMMA NothingPlanned ==
    ASSUME cand' = cand, end' = end, PlannedSegments' = PlannedSegments
    PROVE  [Plan!Next]_<<cand, PlannedSegments, end>>
OBVIOUS

(* A turn that finishes the task: all its segments come into the plan.     *)
LEMMA TaskPlanned ==
    ASSUME IInv, IInv', cur \in Tasks, cand' = cand, cur' = Nobody, slots \subseteq slots',
           DOMAIN end' = DOMAIN end \cup {cur}, \A t \in DOMAIN end : end'[t] = end[t],
           NEW S, S = {s \in slots' : s.task = cur}, slots' = slots \cup S,
           TotalLength(S) = cand[cur].work,
           \A s \in S : /\ s.to <= end'[cur]
                        /\ S = {s} \/ (~ cand[cur].atomic /\ s.to - s.from > MinSplit)
    PROVE  Plan!Next
<1>1. cur \notin DOMAIN end /\ cand[cur].children \subseteq DOMAIN end
    BY TasksAssumption DEF IInv, TypeOK, OnTheWay
<1>2. PlannedSegments' = slots'
    BY TasksAssumption DEF PlannedSegments, IInv, TypeOK
<1>3. PlannedSegments' \ PlannedSegments = S
    BY <1>2 DEF PlannedSegments
<1>4. PlannedSegments \subseteq PlannedSegments' /\ PlannedSegments' = PlannedSegments \cup S
    BY <1>2, <1>3 DEF PlannedSegments
<1>5. Typed(S)
    <2>1. IsFiniteSet(slots') /\ S \subseteq slots'
        BY DEF IInv
    <2>2. \A s \in slots' : s.from \in Int /\ s.to \in Int
        BY DEF IInv, TypeOK
    <2> QED BY <2>1, <2>2, FS_Subset DEF Typed
<1>6. Plan!Length(S) = cand[cur].work
    BY <1>5, LengthIsLength
<1>7. Plan!Disjoint(PlannedSegments')
    BY <1>2 DEF IInv, SoundPlan, Apart, Plan!Disjoint
<1>8. ASSUME NEW s \in S
      PROVE  /\ s.task = cur /\ s.from >= Clock /\ s.from >= cand[cur].avail /\ s.to <= end'[cur]
             /\ \A c \in cand[cur].children : s.from >= end[c]
             /\ S = {s} \/ (~ cand[cur].atomic /\ s.to - s.from > MinSplit)
    <2>1. s \in slots' /\ s.task = cur
        OBVIOUS
    <2>2. /\ s.from >= cand[cur].avail /\ s.from >= Clock
          /\ \A c \in cand[cur].children : s.from >= end'[c]
        BY <2>1 DEF IInv, SoundPlan, AfterChildren
    <2>3. \A c \in cand[cur].children : end'[c] = end[c]
        BY <1>1
    <2> QED BY <2>1, <2>2, <2>3
<1>9. Plan!Plan(cur, S)
    BY <1>1, <1>4, <1>6, <1>7, <1>8 DEF Plan!Plan, PlannedSegments
<1>10. cur \in DOMAIN end' \ DOMAIN end
    BY <1>1
<1>11. Plan!Plan(cur, PlannedSegments' \ PlannedSegments)
    BY <1>3, <1>9 DEF Plan!Plan
<1> QED BY <1>4, <1>10, <1>11 DEF Plan!Next, PlannedSegments

LEMMA PlanRefines ==
    ASSUME IInv, IInv', Next
    PROVE  [Plan!Next]_<<cand, PlannedSegments, end>>
<1>1. ASSUME NEW t \in waiting, Pick(t) PROVE [Plan!Next]_<<cand, PlannedSegments, end>>
    <2>1. cur = Nobody /\ cur' = t /\ cand' = cand /\ slots' = slots /\ end' = end
        BY <1>1 DEF Pick
    <2>2. \A s \in slots : s.task # t /\ s.task # Nobody
        BY TasksAssumption DEF IInv, TypeOK
    <2>3. PlannedSegments' = PlannedSegments
        BY <2>1, <2>2 DEF PlannedSegments
    <2> QED BY <2>1, <2>3, NothingPlanned
<1>2. CASE PlanNothing
    <2>1. /\ cur \in Tasks /\ cur # Nobody /\ cur \notin waiting /\ TypeOK /\ at \in Int /\ left = 0
          /\ Finish(at) /\ cand' = cand /\ slots' = slots
        BY <1>2 DEF PlanNothing, IInv, TypeOK, OnTheWay
    <2>2. /\ cur' = Nobody /\ DOMAIN end' = DOMAIN end \cup {cur}
          /\ \A t \in DOMAIN end : end'[t] = end[t]
        BY <2>1, FinishTypes
    <2>3. OwnSegments = {} /\ TotalLength(OwnSegments) + left = cand[cur].work /\ cand[cur].work \in Int
        BY <2>1, NumbersAssumption DEF IInv, TypeOK, IsCandidates, Pieces
    <2>4. TotalLength({}) = cand[cur].work
        BY <2>1, <2>3, NoLength
    <2>5. {} = {s \in slots' : s.task = cur} /\ slots' = slots \cup {}
        BY <2>1, <2>3 DEF OwnSegments
    <2> QED BY <2>1, <2>2, <2>4, <2>5, TaskPlanned
<1>3. CASE PlanWhole
    <2> DEFINE from == Clear(at, left)
               to == from + left
               x == Segment(from, to)
    <2>1. /\ cur \in Tasks /\ cur # Nobody /\ cur \notin waiting /\ TypeOK /\ at \in Int /\ left \in Nat
          /\ left > 0 /\ cand[cur].atomic
          /\ slots' = slots \cup {x} /\ Finish(to) /\ cand' = cand
        BY <1>3 DEF PlanWhole, IInv, TypeOK, OnTheWay
    <2>2. from \in Int
        <3>1. Typed(slots)
            BY DEF IInv, TypeOK, Typed
        <3> QED BY <2>1, <3>1, ClearIsClear
    <2>3. x.task = cur /\ x.from = from /\ x.to = to
        BY DEF Segment
    <2> HIDE DEF from, x
    <2>4. to \in Int
        BY <2>1, <2>2
    <2>5. /\ cur' = Nobody /\ DOMAIN end' = DOMAIN end \cup {cur} /\ end'[cur] = to
          /\ \A t \in DOMAIN end : end'[t] = end[t]
        BY <2>1, <2>4, FinishTypes
    <2>6. OwnSegments = {} /\ TotalLength(OwnSegments) + left = cand[cur].work /\ cand[cur].work \in Int
        BY <2>1 DEF IInv, TypeOK, IsCandidates, Pieces
    <2>7. TotalLength({x}) = cand[cur].work
        <3>1. Typed({}) /\ {} \cup {x} = {x}
            BY FS_EmptySet DEF Typed
        <3>2. TotalLength({x}) = TotalLength({}) + (x.to - x.from)
            BY <2>2, <2>3, <2>4, <3>1, LengthOfOneMore
        <3> QED BY <2>1, <2>2, <2>3, <2>6, <3>2, NoLength
    <2>8. {x} = {s \in slots' : s.task = cur}
        BY <2>1, <2>3, <2>6 DEF OwnSegments
    <2>9. \A s \in {x} : s.to <= end'[cur] /\ {x} = {s}
        BY <2>3, <2>4, <2>5
    <2> QED BY <2>1, <2>5, <2>7, <2>8, <2>9, TaskPlanned
<1>4. CASE PlanPart
    <2> DEFINE from == Clear(at, 0)
               to == Stop(from)
    <2>1. Splitting /\ (Skip(from, to) \/ PlanSegment(from, to))
        BY <1>4 DEF PlanPart, Skip, PlanSegment
    <2>2. /\ from \in Int /\ to \in Int /\ at <= from /\ from <= to /\ to <= from + left
          /\ \A s \in slots : s.to <= from \/ to <= s.from
        BY <2>1, NextPlace
    <2> HIDE DEF from, to
    <2>3. CASE Skip(from, to)
        <3>1. PlannedSegments' = PlannedSegments /\ cand' = cand /\ end' = end
            BY <2>3 DEF Skip, PlannedSegments
        <3> QED BY <3>1, NothingPlanned
    <2>4. CASE PlanSegment(from, to)
        <3> DEFINE x == Segment(from, to)
        <3>1. /\ cur \in Tasks /\ cur # Nobody /\ cur \notin waiting /\ ~ cand[cur].atomic
              /\ TypeOK /\ left \in Nat /\ at \in Int
              /\ from < to /\ slots' = slots \cup {x} /\ left' = left - (to - from)
              /\ cand' = cand
              /\ IF left' = 0 THEN Finish(to) ELSE end' = end /\ cur' = cur
            BY <2>4 DEF PlanSegment, Splitting, IInv, TypeOK, OnTheWay
        <3>2. x.task = cur /\ x.from = from /\ x.to = to
            BY DEF Segment
        <3> HIDE DEF x
        <3>3. CASE left' # 0
            <4>1. PlannedSegments' = PlannedSegments
                BY <3>1, <3>2, <3>3 DEF PlannedSegments
            <4> QED BY <3>1, <3>3, <4>1, NothingPlanned
        <3>4. CASE left' = 0
            <4>1. /\ cur' = Nobody /\ DOMAIN end' = DOMAIN end \cup {cur} /\ end'[cur] = to
                  /\ \A t \in DOMAIN end : end'[t] = end[t]
                BY <2>2, <3>1, <3>4, FinishTypes
            <4>2. /\ TotalLength(OwnSegments) + left = cand[cur].work
                  /\ OwnSegments # {} => left > MinSplit
                  /\ \A s \in OwnSegments : s.to - s.from > MinSplit
                BY <3>1 DEF IInv, Pieces
            <4>3. \A s \in OwnSegments : s.to <= at /\ s.from \in Int /\ s.to \in Int
                BY <3>1 DEF IInv, TypeOK, OnTheWay, OwnSegments
            <4>4. to - from = left
                BY <2>2, <3>1, <3>4
            <4>5. x \notin OwnSegments
                BY <2>2, <3>1, <3>2 DEF OwnSegments
            <4>6. Typed(OwnSegments)
                BY <4>3, FS_Subset DEF IInv, Typed, OwnSegments
            <4>7. TotalLength(OwnSegments \cup {x}) = cand[cur].work
                <5>1. TotalLength(OwnSegments) \in Int /\ TotalLength(OwnSegments \cup {x}) = TotalLength(OwnSegments) + (to - from)
                    BY <2>2, <3>2, <4>5, <4>6, LengthOfOneMore
                <5> QED BY <4>2, <4>4, <5>1
            <4>8. OwnSegments \cup {x} = {s \in slots' : s.task = cur} /\ slots' = slots \cup (OwnSegments \cup {x})
                BY <3>1, <3>2 DEF OwnSegments
            <4>9. ASSUME NEW s \in OwnSegments \cup {x}
                  PROVE  /\ s.to <= end'[cur]
                         /\ OwnSegments \cup {x} = {s} \/ (~ cand[cur].atomic /\ s.to - s.from > MinSplit)
                <5>1. s.to <= to
                    BY <2>2, <3>1, <3>2, <4>3
                <5>2. OwnSegments = {} \/ s.to - s.from > MinSplit
                    BY <3>2, <4>2, <4>4
                <5> QED BY <3>1, <4>1, <5>1, <5>2
            <4> QED BY <3>1, <4>1, <4>7, <4>8, <4>9, TaskPlanned
        <3> QED BY <3>3, <3>4
    <2> QED BY <2>1, <2>3, <2>4
<1> QED BY <1>1, <1>2, <1>3, <1>4 DEF Next

(* The plan of the finished tasks is one that WorkPlan allows: task by     *)
(* task all the work of each, in time that is free and not before what it  *)
(* depends on, in pieces that are long enough or in one, and what was      *)
(* planned stays (schedule_tasks_by_priority).                             *)
THEOREM Refinement == Spec => IsWorkPlan
<1>1. Init => Plan!Init
    BY DEF Init, Plan!Init
<1>2. IInv /\ IInv' /\ [Next]_vars => [Plan!Next]_<<cand, PlannedSegments, end>>
    <2> SUFFICES ASSUME IInv, IInv', [Next]_vars PROVE [Plan!Next]_<<cand, PlannedSegments, end>>
        OBVIOUS
    <2>1. CASE UNCHANGED vars
        BY <2>1 DEF vars, PlannedSegments
    <2> QED BY <2>1, PlanRefines
<1>3. <<cand, PlannedSegments, end>> = <<cand, {s \in slots : s.task # cur}, end>>
    BY DEF PlannedSegments
<1>4. IInv /\ IInv' /\ [Next]_vars => [Plan!Next]_<<cand, {s \in slots : s.task # cur}, end>>
    BY <1>2 DEF PlannedSegments
<1> QED BY <1>1, <1>4, Invariance, PTL DEF Spec, IsWorkPlan, Plan!Spec

-----------------------------------------------------------------------------
(***************************************************************************)
(* All turns together compute the plan of Timetable.  In whole units the   *)
(* table is known at every turn: the finished tasks are planned as its     *)
(* first ones, and the task being planned is its next one and has all the  *)
(* free hours from where it began to where it goes on.                     *)
(***************************************************************************)
HoursOf(t) == UNION {s.from..(s.to - 1) : s \in {r \in slots : r.task = t}}

PlanSoFar == [t \in DOMAIN end |-> [hours |-> HoursOf(t), end |-> end[t]]]

\* Where Timetable has a task begin.
Begin(t) == Timetable!Between(PlanSoFar, Earliest(t))

Whole(x) == x % Unit = 0

AllWhole ==
    /\ Whole(at) /\ Whole(left)
    /\ \A s \in slots : Whole(s.from) /\ Whole(s.to)
    /\ \A t \in DOMAIN end : Whole(end[t])

\* No task is cut where nothing comes between.
Unbroken == \A r, s \in slots : r.task = s.task => r.to # s.from

NextInTurn == Timetable!PlansOf(cand, Clock)[Cardinality(DOMAIN end)] = PlanSoFar

UnderWay(t) ==
    /\ t = Timetable!NextTask(cand, DOMAIN end)
    /\ \A s \in slots : ~ (s.from < at /\ at < s.to)
    /\ \A r \in slots : r.task = t /\ r.to = at => \E s \in slots : s.from = at
    /\ Begin(t) \in Int /\ Begin(t) <= at
    /\ cand[t].atomic \/ left = 0 => at = Begin(t)
    /\ HoursOf(t) = (Begin(t)..(at - 1)) \ Timetable!Taken(PlanSoFar)
    /\ Cardinality(HoursOf(t)) + left = cand[t].work

InTable ==
    /\ AllWhole
    /\ Unbroken
    /\ NextInTurn
    /\ \A t \in Tasks : cur = t => UnderWay(t)

(* Multiples of the unit.                                                  *)
LEMMA UnitIsPositive == Unit \in Nat /\ Unit >= 1
BY NumbersAssumption DEF Unit

LEMMA WholeIsMultiple ==
    ASSUME NEW x \in Int
    PROVE  Whole(x) <=> \E k \in Int : x = k * Unit
<1>1. ASSUME Whole(x) PROVE \E k \in Int : x = k * Unit
    <2>1. x = Unit * (x \div Unit) + (x % Unit) /\ x \div Unit \in Int
        BY UnitIsPositive
    <2> QED BY <2>1, <1>1, UnitIsPositive DEF Whole
<1>2. ASSUME NEW k \in Int, x = k * Unit PROVE Whole(x)
    BY <1>2, UnitIsPositive DEF Whole
<1> QED BY <1>1, <1>2

LEMMA WholeSums ==
    ASSUME NEW x \in Int, NEW y \in Int, Whole(x), Whole(y)
    PROVE  Whole(x + y) /\ Whole(x - y) /\ (x < y => y - x >= Unit)
<1>1. PICK j \in Int : x = j * Unit
    BY WholeIsMultiple
<1>2. PICK k \in Int : y = k * Unit
    BY WholeIsMultiple
<1>3. x + y = (j + k) * Unit /\ x - y = (j - k) * Unit
    BY <1>1, <1>2, UnitIsPositive
<1>4. ASSUME x < y PROVE y - x >= Unit
    <2>1. j < k
        BY <1>1, <1>2, <1>4, UnitIsPositive
    <2>2. y - x = (k - j) * Unit /\ k - j >= 1
        BY <1>1, <1>2, <2>1, UnitIsPositive
    <2> QED BY <2>2, UnitIsPositive
<1> QED BY <1>3, <1>4, WholeIsMultiple

(* No time is clear before the one the search finds.                       *)
LEMMA ClearIsFirst ==
    ASSUME Typed(slots), NEW from \in Int, NEW length \in Nat,
           NEW b \in Int, b >= from, \A s \in slots : ~ Overlaps(s, b, b + length)
    PROVE  Clear(from, length) <= b
<1> DEFINE IsClear(m) == \A s \in slots : ~ Overlaps(s, m, m + length)
           N == {n \in Nat : IsClear(from + n)}
           E == {from} \cup {s.to : s \in slots}
           B == {m \in E : m >= from /\ IsClear(m)}
<1>1. b - from \in N
    <2>1. b - from \in Nat /\ from + (b - from) = b
        OBVIOUS
    <2> QED BY <2>1
<1>2. N \in SUBSET Nat
    OBVIOUS
<1>3. PICK n \in N : \A m \in N : n <= m
    <2> HIDE DEF N
    <2> QED BY <1>1, <1>2, LeastNatural
<1>4. n \in Nat /\ IsClear(from + n) /\ n <= b - from
    BY <1>1, <1>3
<1>5. from + n \in E
    <2>1. CASE n = 0
        BY <2>1
    <2>2. CASE n # 0
        <3>1. n - 1 \in Nat /\ n - 1 \notin N /\ from + (n - 1) = (from + n) - 1
            BY <1>3, <1>4, <2>2
        <3>2. PICK s \in slots : Overlaps(s, (from + n) - 1, ((from + n) - 1) + length)
            BY <3>1
        <3>3. ~ Overlaps(s, from + n, (from + n) + length)
            BY <1>4
        <3>4. s.to = from + n
            BY <3>2, <3>3, <1>4 DEF Overlaps, Typed
        <3> QED BY <3>4
    <2> QED BY <2>1, <2>2
<1>6. from + n \in B
    BY <1>4, <1>5
<1>7. IsFiniteSet(B) /\ B \subseteq Int
    <2>1. IsFiniteSet(E) /\ E \subseteq Int
        BY EndsAreFinite, FS_AddElement
    <2> HIDE DEF E, IsClear
    <2> QED BY <2>1, FS_Subset
<1>8. Clear(from, length) = Min(B)
    BY DEF Clear
<1>9. Min(B) <= from + n
    <2> HIDE DEF B
    <2> QED BY <1>6, <1>7, MinIsLeast
<1>10. Min(B) \in Int
    <2> HIDE DEF B
    <2> QED BY <1>6, <1>7, MinIsLeast
<1> QED BY <1>4, <1>8, <1>9, <1>10

(* Of two tasks at most one is sooner, so that the next task is determined. *)
LEMMA NotBothSooner ==
    ASSUME IsCandidates(cand), NEW t \in Tasks, NEW u \in Tasks, Sooner(t, u)
    PROVE  ~ Sooner(u, t)
<1>1. \A i \in 1..5 : Key(t)[i] \in Int /\ Key(u)[i] \in Int
    <2> SUFFICES ASSUME NEW v \in Tasks, NEW i \in 1..5 PROVE Key(v)[i] \in Int
        OBVIOUS
    <2>1. /\ cand[v].ddl \in Int /\ -cand[v].prio \in Int /\ cand[v].avail \in Int
          /\ cand[v].rank \in Int /\ v \in Int
        BY TasksAssumption DEF IsCandidates
    <2>2. i = 1 \/ i = 2 \/ i = 3 \/ i = 4 \/ i = 5
        OBVIOUS
    <2> QED BY <2>1, <2>2 DEF Key
<1>2. PICK i \in 1..5 : Key(t)[i] < Key(u)[i] /\ \A m \in 1..(i - 1) : Key(t)[m] = Key(u)[m]
    BY DEF Sooner
<1> SUFFICES ASSUME NEW j \in 1..5, Key(u)[j] < Key(t)[j], \A m \in 1..(j - 1) : Key(u)[m] = Key(t)[m]
             PROVE  FALSE
    BY DEF Sooner
<1>3. CASE i < j
    <2>1. i \in 1..(j - 1)
        BY <1>3
    <2> QED BY <2>1, <1>1, <1>2
<1>4. CASE j < i
    <2>1. j \in 1..(i - 1)
        BY <1>4
    <2> QED BY <2>1, <1>1, <1>2
<1>5. CASE i = j
    BY <1>5, <1>1, <1>2
<1> QED BY <1>3, <1>4, <1>5

(* The task that is picked is the one Timetable has next.                  *)
LEMMA NextIsPicked ==
    ASSUME TypeOK, NEW t \in waiting, Pick(t)
    PROVE  t = Timetable!NextTask(cand, DOMAIN end)
<1> DEFINE ready == {u \in DOMAIN cand \ DOMAIN end : cand[u].children \subseteq DOMAIN end}
           IsNext(u) == u \in ready /\ \A v \in ready \ {u} : Timetable!SoonerIn(cand, u, v)
<1>1. \A u, v : Timetable!SoonerIn(cand, u, v) <=> Sooner(u, v)
    BY DEF Sooner, Key, Timetable!SoonerIn, Timetable!KeyIn
<1>2. /\ cur = Nobody /\ DOMAIN end = Tasks \ waiting /\ waiting \subseteq Tasks /\ IsCandidates(cand)
      /\ DOMAIN cand = Tasks
    BY TasksAssumption DEF Pick, TypeOK, IsCandidates
<1>3. \A u : u \in ready <=> u \in waiting /\ Ready(u)
    BY <1>2 DEF Ready
<1>4. IsNext(t)
    BY <1>1, <1>3 DEF Pick
<1>5. ASSUME NEW u, IsNext(u) PROVE u = t
    <2> SUFFICES ASSUME u # t PROVE FALSE
        OBVIOUS
    <2>1. Sooner(u, t) /\ Sooner(t, u) /\ u \in Tasks /\ t \in Tasks
        BY <1>1, <1>2, <1>3, <1>4, <1>5
    <2> QED BY <2>1, <1>2, NotBothSooner
<1>6. Timetable!NextTask(cand, DOMAIN end) = CHOOSE u : IsNext(u)
    BY DEF Timetable!NextTask
<1>7. IsNext(CHOOSE u : IsNext(u))
    <2> HIDE DEF IsNext
    <2> QED BY <1>4
<1> HIDE DEF IsNext
<1> QED BY <1>5, <1>6, <1>7

(* What the plan of the first tasks becomes with the next one.             *)
WithNext(prev) ==
    LET t == Timetable!NextTask(cand, DOMAIN prev)
    IN  [u \in DOMAIN prev \cup {t} |->
            IF u = t THEN Timetable!Planned(cand, prev, t, Clock) ELSE prev[u]]

(* The function that PlansOf chooses exists.                               *)
LEMMA PlansUnroll ==
    ASSUME NEW N \in Nat, N = Cardinality(DOMAIN cand)
    PROVE  LET plans == Timetable!PlansOf(cand, Clock)
           IN  plans[0] = << >> /\ \A n \in 1..N : plans[n] = WithNext(plans[n - 1])
<1> DEFINE Value(g, n) == IF n = 0 THEN << >> ELSE WithNext(g[n - 1])
           RightTo(g, m) == \A n \in 0..N : n <= m => g[n] = Value(g, n)
           Lengths == {m \in Nat : \E g : g = [n \in 0..N |-> g[n]] /\ RightTo(g, m)}
           IsPlan(g) == g = [n \in 0..N |-> Value(g, n)]
<1>1. 0 \in Lengths
    <2> DEFINE g == [n \in 0..N |-> << >>]
    <2>1. g = [n \in 0..N |-> g[n]]
        OBVIOUS
    <2>2. RightTo(g, 0)
        OBVIOUS
    <2> HIDE DEF g, RightTo
    <2> QED BY <2>1, <2>2
<1>2. ASSUME NEW m \in Lengths PROVE m + 1 \in Lengths
    <2>1. PICK g : g = [n \in 0..N |-> g[n]] /\ RightTo(g, m)
        OBVIOUS
    <2> DEFINE h == [n \in 0..N |-> IF n <= m THEN g[n] ELSE Value(g, n)]
    <2>2. ASSUME NEW n \in 0..N, n <= m + 1 PROVE h[n] = Value(h, n)
        <3>1. CASE n = 0
            BY <3>1, <2>1
        <3>2. CASE n # 0
            <4>1. n - 1 \in 0..N /\ n - 1 <= m
                BY <2>2, <3>2
            <4>2. h[n - 1] = g[n - 1]
                BY <4>1
            <4>3. h[n] = Value(g, n)
                BY <2>1
            <4> QED BY <4>2, <4>3, <3>2
        <3> QED BY <3>1, <3>2
    <2>3. h = [n \in 0..N |-> h[n]] /\ RightTo(h, m + 1)
        BY <2>2
    <2>4. m + 1 \in Nat
        OBVIOUS
    <2> HIDE DEF h, RightTo
    <2> QED BY <2>3, <2>4
<1>3. Lengths = Nat
    <2>1. Lengths \in SUBSET Nat
        OBVIOUS
    <2> HIDE DEF Lengths
    <2> QED BY <1>1, <1>2, <2>1, NaturalsByStep
<1>4. PICK g : g = [n \in 0..N |-> g[n]] /\ RightTo(g, N)
    BY <1>3
<1>5. IsPlan(g)
    <2>1. \A n \in 0..N : g[n] = Value(g, n)
        BY <1>4
    <2> HIDE DEF Value
    <2> QED BY <1>4, <2>1
<1>6. Timetable!PlansOf(cand, Clock) = CHOOSE p : IsPlan(p)
    <2>1. Timetable!Cardinality(DOMAIN cand) = N
        BY DEF Timetable!Cardinality, Cardinality
    <2> QED BY <2>1 DEF Timetable!PlansOf, WithNext
<1>7. IsPlan(CHOOSE p : IsPlan(p))
    <2> HIDE DEF IsPlan
    <2> QED BY <1>5
<1>8. PICK p : p = Timetable!PlansOf(cand, Clock) /\ IsPlan(p)
    <2> HIDE DEF IsPlan
    <2> QED BY <1>6, <1>7
<1>9. \A n \in 0..N : p[n] = Value(p, n)
    <2> HIDE DEF Value
    <2> QED BY <1>8
<1> QED BY <1>8, <1>9

(* Timetable has the operators of the library under names of its own.      *)
LEMMA SameLibrary ==
    /\ \A S : Timetable!Cardinality(S) = Cardinality(S)
    /\ \A S : Timetable!Min(S) = Min(S) /\ Timetable!Max(S) = Max(S)
BY DEF Timetable!Cardinality, Cardinality, Timetable!Min, Min, Timetable!Max, Max

(* The first hours that are free, when they are as many as the work.       *)
LEMMA FirstFreeHours ==
    ASSUME NEW p, NEW T, Timetable!Taken(p) = T, IsFiniteSet(T),
           NEW from \in Int, NEW to \in Int, from <= to, NEW work \in Nat,
           NEW H, H = (from..(to - 1)) \ T, Cardinality(H) = work
    PROVE  work > 0 /\ to - 1 \in H => Timetable!InPieces(p, from, work) = H
<1> SUFFICES ASSUME work > 0, to - 1 \in H PROVE Timetable!InPieces(p, from, work) = H
    OBVIOUS
<1> DEFINE free == (from..(from + work + Cardinality(T))) \ T
           Before(h) == {g \in free : g < h}
<1>1. Timetable!InPieces(p, from, work) = {h \in free : Cardinality(Before(h)) < work}
    BY SameLibrary DEF Timetable!InPieces
<1>2. IsFiniteSet(H) /\ Cardinality(T) \in Nat /\ IsFiniteSet(from..(to - 1))
      /\ Cardinality(from..(to - 1)) = to - from
    <2>1. from < to /\ to - 1 \in Int /\ ~ (from > to - 1) /\ (to - 1) - from + 1 = to - from
        OBVIOUS
    <2>2. IsFiniteSet(from..(to - 1)) /\ Cardinality(from..(to - 1)) = to - from
        BY <2>1, FS_Interval
    <2> QED BY <2>2, FS_Difference, FS_CardinalityType
<1>3. to - from <= work + Cardinality(T)
    <2>1. Cardinality(H) = (to - from) - Cardinality((from..(to - 1)) \cap T)
        BY <1>2, FS_Difference
    <2>2. Cardinality((from..(to - 1)) \cap T) <= Cardinality(T)
        BY FS_Intersection
    <2>3. Cardinality((from..(to - 1)) \cap T) \in Nat
        BY FS_Intersection, FS_CardinalityType
    <2> QED BY <1>2, <2>1, <2>2, <2>3
<1>4. H \subseteq free
    BY <1>2, <1>3
<1>5. IsFiniteSet(free) /\ \A h : Before(h) \subseteq free /\ IsFiniteSet(Before(h))
    <2>1. IsFiniteSet(free)
        <3>1. IsFiniteSet(from..(from + work + Cardinality(T)))
            BY <1>2, FS_Interval
        <3> QED BY <3>1, FS_Difference
    <2>2. \A h : Before(h) \in SUBSET free
        OBVIOUS
    <2> HIDE DEF free, Before
    <2> QED BY <2>1, <2>2, FS_Subset
<1>6. \A h \in free : h \in Int /\ h \notin T /\ from <= h
    BY <1>2
<1>7. \A h \in H : h \in Int /\ h < to
    OBVIOUS
<1>8. \A h \in free : h < to => h \in H
    BY <1>6
<1> HIDE DEF free
<1>9. ASSUME NEW h \in H PROVE Cardinality(Before(h)) < work
    <2>1. Before(h) \in SUBSET (H \ {h})
        BY <1>6, <1>7, <1>8
    <2>2. IsFiniteSet(H \ {h}) /\ Cardinality(H \ {h}) = work - 1
        BY <1>2, FS_RemoveElement
    <2>3. Cardinality(Before(h)) <= work - 1
        <3> HIDE DEF Before
        <3> QED BY <2>1, <2>2, FS_Subset
    <2>4. Cardinality(Before(h)) \in Nat
        <3> HIDE DEF Before
        <3> QED BY <1>5, FS_CardinalityType
    <2> QED BY <2>3, <2>4
<1>10. ASSUME NEW h \in free, Cardinality(Before(h)) < work PROVE h \in H
    <2> SUFFICES ASSUME h >= to PROVE FALSE
        BY <1>6, <1>8
    <2>1. H \in SUBSET Before(h)
        BY <1>4, <1>6, <1>7
    <2>2. Cardinality(H) <= Cardinality(Before(h))
        <3> HIDE DEF Before
        <3> QED BY <1>5, <2>1, FS_Subset
    <2>3. Cardinality(Before(h)) \in Nat
        <3> HIDE DEF Before
        <3> QED BY <1>5, FS_CardinalityType
    <2> QED BY <1>10, <2>2, <2>3
<1> HIDE DEF Before
<1> QED BY <1>1, <1>4, <1>9, <1>10

(* No work takes no hours.                                                 *)
LEMMA NoPieces ==
    ASSUME NEW p, IsFiniteSet(Timetable!Taken(p)), NEW from \in Int
    PROVE  Timetable!InPieces(p, from, 0) = {}
<1> DEFINE free == (from..(from + 0 + Cardinality(Timetable!Taken(p)))) \ Timetable!Taken(p)
           Before(h) == {g \in free : g < h}
<1>1. Timetable!InPieces(p, from, 0) = {h \in free : Cardinality(Before(h)) < 0}
    BY SameLibrary DEF Timetable!InPieces
<1>2. IsFiniteSet(free)
    <2>1. Cardinality(Timetable!Taken(p)) \in Nat
        BY FS_CardinalityType
    <2>2. IsFiniteSet(from..(from + 0 + Cardinality(Timetable!Taken(p))))
        BY <2>1, FS_Interval
    <2> QED BY <2>2, FS_Difference
<1>3. ASSUME NEW h PROVE Cardinality(Before(h)) \in Nat
    <2>1. Before(h) \in SUBSET free
        OBVIOUS
    <2> HIDE DEF free, Before
    <2> QED BY <1>2, <2>1, FS_Subset, FS_CardinalityType
<1> HIDE DEF free, Before
<1> QED BY <1>1, <1>3

(* The first place where all of the work fits.                             *)
LEMMA FirstFreePlace ==
    ASSUME NEW p, NEW T, Timetable!Taken(p) = T, IsFiniteSet(T), NEW from \in Int, NEW work \in Nat,
           NEW c \in Int, c >= from, (c..(c + work - 1)) \cap T = {},
           \A b \in Int : b >= from /\ (b..(b + work - 1)) \cap T = {} => c <= b
    PROVE  Timetable!InOnePiece(p, from, work) = c..(c + work - 1)
<1> DEFINE last == from + work * (Cardinality(T) + 1)
           B == {b \in from..last : (b..(b + work - 1)) \cap T = {}}
<1>1. Timetable!InOnePiece(p, from, work) = Min(B)..(Min(B) + work - 1)
    BY SameLibrary DEF Timetable!InOnePiece
<1>2. last \in Int /\ last >= from
    <2>1. Cardinality(T) \in Nat
        BY FS_CardinalityType
    <2>2. work * (Cardinality(T) + 1) \in Nat
        BY <2>1
    <2> QED BY <2>2
<1>3. c \in B
    <2>1. CASE work = 0
        <3>1. (from..(from + work - 1)) \cap T = {}
            BY <2>1
        <3>2. c = from
            BY <3>1
        <3> QED BY <1>2, <3>2
    <2>2. CASE work > 0
        <3>1. PICK b \in from..last : (b..(b + work - 1)) \cap T = {}
            BY <2>2, SomeBlockIsFree
        <3>2. b \in Int /\ from <= b /\ b <= last
            BY <1>2, <3>1
        <3>3. c <= b
            BY <3>1, <3>2
        <3> QED BY <1>2, <3>2, <3>3
    <2> QED BY <2>1, <2>2
<1>4. IsFiniteSet(B) /\ B \subseteq Int
    <2>1. IsFiniteSet(from..last) /\ B \in SUBSET (from..last)
        BY <1>2, FS_Interval
    <2> HIDE DEF last
    <2> QED BY <1>2, <2>1, FS_Subset
<1>5. \A b \in B : c <= b
    <2> TAKE b \in B
    <2>1. b \in from..last /\ (b..(b + work - 1)) \cap T = {}
        OBVIOUS
    <2> HIDE DEF last
    <2> QED BY <1>2, <2>1
<1>6. Min(B) \in B /\ \A b \in B : Min(B) <= b
    <2> HIDE DEF B
    <2> QED BY <1>3, <1>4, MinIsLeast
<1>7. Min(B) = c
    <2> HIDE DEF B
    <2>1. Min(B) \in Int /\ Min(B) <= c /\ c <= Min(B)
        BY <1>3, <1>4, <1>5, <1>6
    <2> QED BY <2>1
<1> QED BY <1>1, <1>7

(* The first time at which nothing is under way.                           *)
LEMMA FirstTimeBetween ==
    ASSUME NEW p, IsFiniteSet(Timetable!Taken(p)), NEW from \in Int, NEW c \in Int, c >= from,
           \A h \in from..(c - 1) : h \in Timetable!Taken(p),
           \A t \in DOMAIN p : ~ ({c - 1, c} \subseteq p[t].hours),
           \A b \in Int : b >= from /\ (\A t \in DOMAIN p : ~ ({b - 1, b} \subseteq p[t].hours)) => c <= b
    PROVE  Timetable!Between(p, from) = c
<1> DEFINE T == Timetable!Taken(p)
           last == from + Cardinality(T)
           B == {h \in from..last : \A t \in DOMAIN p : ~ ({h - 1, h} \subseteq p[t].hours)}
<1>1. Timetable!Between(p, from) = Min(B)
    BY SameLibrary DEF Timetable!Between
<1>2. Cardinality(T) \in Nat
    BY FS_CardinalityType
<1>3. c <= last
    <2>1. (from..(c - 1)) \in SUBSET T
        OBVIOUS
    <2>2. Cardinality(from..(c - 1)) <= Cardinality(T)
        <3>1. IsFiniteSet(T)
            OBVIOUS
        <3> HIDE DEF T
        <3> QED BY <2>1, <3>1, FS_Subset
    <2>3. Cardinality(from..(c - 1)) = c - from
        BY FS_Interval
    <2> QED BY <1>2, <2>2, <2>3
<1>4. c \in B
    BY <1>2, <1>3
<1>5. IsFiniteSet(B) /\ B \subseteq Int
    <2>1. IsFiniteSet(from..last) /\ B \in SUBSET (from..last) /\ last \in Int
        BY <1>2, FS_Interval
    <2> HIDE DEF last
    <2> QED BY <2>1, FS_Subset
<1>6. \A b \in B : c <= b
    <2> TAKE b \in B
    <2>1. b \in Int /\ b >= from /\ \A t \in DOMAIN p : ~ ({b - 1, b} \subseteq p[t].hours)
        BY <1>2
    <2> QED BY <2>1
<1>7. Min(B) \in B /\ \A b \in B : Min(B) <= b
    <2> HIDE DEF B
    <2> QED BY <1>4, <1>5, MinIsLeast
<1>8. Min(B) = c
    <2> HIDE DEF B
    <2>1. Min(B) \in Int /\ Min(B) <= c /\ c <= Min(B)
        BY <1>4, <1>5, <1>6, <1>7
    <2> QED BY <2>1
<1> QED BY <1>1, <1>8

(* The hours of a task are those in its segments, and finitely many.       *)
LEMMA HoursAre ==
    ASSUME NEW t, \A s \in slots : s.from \in Int /\ s.to \in Int, NEW h
    PROVE  h \in HoursOf(t) <=> h \in Int /\ \E s \in slots : s.task = t /\ s.from <= h /\ h < s.to
<1>1. h \in HoursOf(t) <=> \E s \in slots : s.task = t /\ h \in s.from..(s.to - 1)
    BY DEF HoursOf
<1>2. \A s \in slots : h \in s.from..(s.to - 1) <=> h \in Int /\ s.from <= h /\ h < s.to
    OBVIOUS
<1> QED BY <1>1, <1>2

LEMMA HoursAreFinite ==
    ASSUME Typed(slots), NEW t
    PROVE  IsFiniteSet(HoursOf(t)) /\ HoursOf(t) \subseteq Int
<1> DEFINE f == [s \in slots |-> s.from..(s.to - 1)]
           R == {r \in slots : r.task = t}
           F == {f[s] : s \in R}
<1>1. IsFiniteSet(R) /\ R \subseteq slots
    BY FS_Subset DEF Typed
<1>2. IsFiniteSet(F)
    <2> HIDE DEF f, R
    <2> QED BY <1>1, ImageOfFinite
<1>3. \A I \in F : IsFiniteSet(I)
    <2> SUFFICES ASSUME NEW s \in slots PROVE IsFiniteSet(s.from..(s.to - 1))
        BY <1>1
    <2>1. s.from \in Int /\ s.to - 1 \in Int
        BY DEF Typed
    <2> QED BY <2>1, FS_Interval
<1>4. IsFiniteSet(UNION F)
    <2> HIDE DEF F
    <2> QED BY <1>2, <1>3, FS_UNION
<1>5. UNION F = HoursOf(t)
    BY DEF HoursOf
<1>6. HoursOf(t) \subseteq Int
    BY HoursAre DEF Typed
<1> QED BY <1>4, <1>5, <1>6

(* The hours that are taken are those of the segments of the other tasks.  *)
LEMMA TakenHours ==
    ASSUME IInv
    PROVE  /\ IsFiniteSet(Timetable!Taken(PlanSoFar))
           /\ \A h : h \in Timetable!Taken(PlanSoFar) <=>
                        h \in Int /\ \E s \in slots : s.task # cur /\ s.from <= h /\ h < s.to
<1> DEFINE f == [t \in Tasks |-> HoursOf(t)]
           F == {f[t] : t \in DOMAIN end}
<1>1. Typed(slots) /\ DOMAIN end = Tasks \ (waiting \cup {cur})
    BY DEF IInv, TypeOK, Typed
<1>2. Timetable!Taken(PlanSoFar) = UNION F
    BY <1>1 DEF Timetable!Taken, PlanSoFar
<1>3. IsFiniteSet(F)
    <2>1. IsFiniteSet(DOMAIN end)
        BY <1>1, TasksAssumption, FS_Subset
    <2> HIDE DEF f
    <2> QED BY <2>1, ImageOfFinite
<1>4. \A H \in F : IsFiniteSet(H)
    BY <1>1, HoursAreFinite
<1>5. IsFiniteSet(UNION F)
    <2> HIDE DEF F
    <2> QED BY <1>3, <1>4, FS_UNION
<1>6. ASSUME NEW h
      PROVE  h \in UNION F <=> h \in Int /\ \E s \in slots : s.task # cur /\ s.from <= h /\ h < s.to
    <2>1. h \in UNION F <=> \E t \in DOMAIN end : h \in HoursOf(t)
        BY <1>1
    <2>2. \A t : h \in HoursOf(t) <=> h \in Int /\ \E s \in slots : s.task = t /\ s.from <= h /\ h < s.to
        BY <1>1, HoursAre DEF Typed
    <2>3. \A s \in slots : s.task \in DOMAIN end <=> s.task # cur
        BY <1>1 DEF IInv, TypeOK
    <2> QED BY <2>1, <2>2, <2>3
<1> QED BY <1>2, <1>5, <1>6

(* Two hours of a task that follow each other are in one segment.          *)
LEMMA PairIsInside ==
    ASSUME IInv, Unbroken, NEW t, NEW h \in Int
    PROVE  {h - 1, h} \subseteq HoursOf(t) <=> \E s \in slots : s.task = t /\ s.from < h /\ h < s.to
<1>1. \A s \in slots : s.from \in Int /\ s.to \in Int /\ s.from < s.to
    BY DEF IInv, TypeOK
<1>2. ASSUME {h - 1, h} \subseteq HoursOf(t)
      PROVE  \E s \in slots : s.task = t /\ s.from < h /\ h < s.to
    <2>1. h - 1 \in HoursOf(t) /\ h \in HoursOf(t)
        BY <1>2
    <2>2. PICK r \in slots : r.task = t /\ r.from <= h - 1 /\ h - 1 < r.to
        BY <1>1, <2>1, HoursAre
    <2>3. PICK s \in slots : s.task = t /\ s.from <= h /\ h < s.to
        BY <1>1, <2>1, HoursAre
    <2>4. r = s \/ r.to <= s.from \/ s.to <= r.from
        BY DEF IInv, SoundPlan, Apart
    <2>5. r.to # s.from
        BY <2>2, <2>3 DEF Unbroken
    <2>6. r = s
        BY <1>1, <2>2, <2>3, <2>4, <2>5
    <2> QED BY <1>1, <2>2, <2>3, <2>6
<1>3. ASSUME NEW s \in slots, s.task = t, s.from < h, h < s.to
      PROVE  {h - 1, h} \subseteq HoursOf(t)
    <2>1. s.from <= h - 1 /\ h - 1 < s.to /\ h - 1 \in Int /\ s.from <= h
        BY <1>1, <1>3
    <2>2. h - 1 \in HoursOf(t) /\ h \in HoursOf(t)
        BY <1>1, <1>3, <2>1, HoursAre
    <2> QED BY <2>2
<1> QED BY <1>2, <1>3

(* With nothing being planned, the first time at which no segment is under *)
(* way is the one that the search for a clear time finds.                  *)
LEMMA ClearIsBetween ==
    ASSUME IInv, Unbroken, cur = Nobody, NEW from \in Int
    PROVE  Timetable!Between(PlanSoFar, from) = Clear(from, 0)
<1> DEFINE c == Clear(from, 0)
           p == PlanSoFar
<1>1. Typed(slots) /\ \A s \in slots : s.task # Nobody /\ s.task \in DOMAIN end
    BY TasksAssumption DEF IInv, TypeOK, Typed
<1>2. c \in Int /\ c >= from /\ \A s \in slots : ~ Overlaps(s, c, c + 0)
    BY <1>1, ClearIsClear
<1>3. \A b \in Int : b >= from /\ (\A s \in slots : ~ Overlaps(s, b, b + 0)) => c <= b
    BY <1>1, ClearIsFirst
<1> HIDE DEF c
<1>4. \A b \in Int : (\A t \in DOMAIN p : ~ ({b - 1, b} \subseteq p[t].hours))
                        <=> \A s \in slots : ~ Overlaps(s, b, b + 0)
    <2> TAKE b \in Int
    <2>1. \A t \in DOMAIN p : p[t].hours = HoursOf(t)
        BY DEF PlanSoFar
    <2>2. DOMAIN p = DOMAIN end
        BY DEF PlanSoFar
    <2>3. \A t \in DOMAIN end : {b - 1, b} \subseteq HoursOf(t)
                <=> \E s \in slots : s.task = t /\ s.from < b /\ b < s.to
        BY PairIsInside
    <2>4. \A s \in slots : Overlaps(s, b, b + 0) <=> s.from < b /\ b < s.to
        BY DEF Overlaps
    <2> QED BY <1>1, <2>1, <2>2, <2>3, <2>4
<1>5. ASSUME NEW h \in from..(c - 1) PROVE h \in Timetable!Taken(p)
    <2>1. h \in Int /\ h >= from /\ ~ (c <= h)
        BY <1>2
    <2>2. PICK s \in slots : Overlaps(s, h, h + 0)
        BY <1>3, <2>1
    <2>3. s.from <= h /\ h < s.to /\ s.task # cur
        BY <1>1, <2>1, <2>2 DEF Overlaps, Typed
    <2> QED BY <2>1, <2>3, TakenHours
<1>6. IsFiniteSet(Timetable!Taken(p))
    BY TakenHours
<1> HIDE DEF p
<1>7. Timetable!Between(p, from) = c
    BY <1>2, <1>3, <1>4, <1>5, <1>6, FirstTimeBetween
<1> QED BY <1>7 DEF c, p

(* A time that is inside no segment is clear.                              *)
LEMMA ClearHere ==
    ASSUME Typed(slots), NEW b \in Int, \A s \in slots : ~ (s.from < b /\ b < s.to)
    PROVE  Clear(b, 0) = b
<1>1. \A s \in slots : ~ Overlaps(s, b, b + 0)
    BY DEF Overlaps
<1>2. Clear(b, 0) <= b /\ Clear(b, 0) >= b /\ Clear(b, 0) \in Int
    BY <1>1, ClearIsFirst, ClearIsClear
<1> QED BY <1>2

(* Both begin to look for time at the same moment.                         *)
LEMMA EarliestInTable ==
    ASSUME TypeOK, NEW t \in Tasks, Ready(t)
    PROVE  Timetable!Max({cand[t].avail, Clock} \cup {PlanSoFar[u].end : u \in cand[t].children}) = Earliest(t)
<1>1. {PlanSoFar[u].end : u \in cand[t].children} = {end[u] : u \in cand[t].children}
    BY DEF PlanSoFar, Ready
<1> QED BY <1>1, SameLibrary DEF Earliest

(* In whole units the searches end in whole units.                         *)
LEMMA ClearIsWhole ==
    ASSUME Typed(slots), NEW from \in Int, NEW length \in Int, Whole(from), \A s \in slots : Whole(s.to)
    PROVE  Whole(Clear(from, length))
<1> DEFINE E == {from} \cup {s.to : s \in slots}
           B == {b \in E : b >= from /\ \A s \in slots : ~ Overlaps(s, b, b + length)}
<1>1. IsFiniteSet(E) /\ E \subseteq Int /\ E # {}
    <2> DEFINE T == {s.to : s \in slots}
    <2>1. IsFiniteSet(T) /\ T \subseteq Int
        BY EndsAreFinite
    <2>2. E = T \cup {from}
        OBVIOUS
    <2> HIDE DEF E, T
    <2>3. IsFiniteSet(T \cup {from})
        BY <2>1, FS_AddElement
    <2> QED BY <2>1, <2>2, <2>3
<1>2. \A b \in E : Whole(b)
    OBVIOUS
<1>3. from \in E /\ \A s \in slots : s.to \in E
    OBVIOUS
<1> HIDE DEF E
<1>4. PICK m \in E : \A e \in E : m >= e
    BY <1>1, GreatestOfFinite
<1>5. m \in B
    <2>1. m >= from
        BY <1>3, <1>4
    <2>2. ASSUME NEW s \in slots PROVE ~ Overlaps(s, m, m + length)
        <3>1. m >= s.to /\ m \in Int /\ s.to \in Int
            BY <1>1, <1>3, <1>4
        <3> QED BY <3>1 DEF Overlaps
    <2> QED BY <2>1, <2>2
<1>6. IsFiniteSet(B) /\ B \subseteq Int /\ B # {}
    BY <1>1, <1>5, FS_Subset
<1>7. Clear(from, length) = Min(B)
    BY DEF Clear, E
<1>8. Min(B) \in B
    <2> HIDE DEF B
    <2> QED BY <1>6, MinIsLeast
<1> QED BY <1>2, <1>7, <1>8

LEMMA StopIsWhole ==
    ASSUME Typed(slots), NEW from \in Int, left \in Nat, Whole(from), Whole(left),
           \A s \in slots : Whole(s.from)
    PROVE  /\ Whole(Stop(from))
           /\ Stop(from) = from + left
              \/ \E s \in slots : from <= s.from /\ s.from = Stop(from)
<1> DEFINE R == {r \in slots : from < r.to /\ from <= r.from}
           E == {s.from : s \in R}
           D == {from + left} \cup E
<1>1. IsFiniteSet(E) /\ E \subseteq Int
    <2> HIDE DEF R
    <2>1. R \in SUBSET slots
        BY DEF R
    <2> QED BY <2>1, EndsAreFinite
<1>2. IsFiniteSet(D) /\ D \subseteq Int /\ D # {}
    <2> HIDE DEF E
    <2> QED BY <1>1, FS_AddElement
<1>3. Stop(from) = Min(D)
    BY DEF Stop
<1>4. Min(D) \in D
    <2> HIDE DEF D
    <2> QED BY <1>2, MinIsLeast
<1>5. Whole(from + left)
    BY WholeSums
<1> QED BY <1>3, <1>4, <1>5

LEMMA EarliestIsWhole ==
    ASSUME TypeOK, NEW t \in Tasks, Ready(t), InUnits, Whole(Clock), \A u \in DOMAIN end : Whole(end[u])
    PROVE  Whole(Earliest(t))
<1> DEFINE C == cand[t].children
           f == [c \in C |-> end[c]]
           E == {end[c] : c \in C}
           D == {cand[t].avail, Clock} \cup E
<1>1. /\ C \subseteq Tasks /\ C \subseteq DOMAIN end /\ cand[t].avail \in Int /\ Clock \in Int
      /\ DOMAIN cand = Tasks /\ \A c \in C : end[c] \in Int
    BY NumbersAssumption DEF TypeOK, IsCandidates, Ready
<1>2. IsFiniteSet(E)
    <2>1. IsFiniteSet(C)
        BY <1>1, TasksAssumption, FS_Subset
    <2>2. IsFiniteSet({f[c] : c \in C})
        <3> HIDE DEF f, C
        <3> QED BY <2>1, ImageOfFinite
    <2>3. {f[c] : c \in C} = E
        OBVIOUS
    <2> QED BY <2>2, <2>3
<1>3. E \subseteq Int
    BY <1>1
<1>4. D = (E \cup {Clock}) \cup {cand[t].avail}
    OBVIOUS
<1>5. IsFiniteSet(D) /\ D \subseteq Int /\ D # {}
    <2> HIDE DEF E
    <2> QED BY <1>1, <1>2, <1>3, <1>4, FS_AddElement
<1>6. \A d \in D : Whole(d)
    BY <1>1 DEF InUnits, Whole
<1>7. Max(D) \in D
    <2> HIDE DEF D
    <2> QED BY <1>5, MaxIsGreatest
<1> QED BY <1>6, <1>7 DEF Earliest

(* No cut is too short then.                                               *)
LEMMA WholeIsLongEnough ==
    ASSUME NEW from \in Int, NEW to \in Int, from < to, left \in Nat, Whole(from), Whole(to), Whole(left)
    PROVE  ~ TooShort(from, to)
<1>1. to - from >= Unit
    BY WholeSums
<1>2. ASSUME to < from + left PROVE left - (to - from) >= Unit
    <2>1. Whole(from + left) /\ from + left \in Int
        BY WholeSums
    <2>2. (from + left) - to >= Unit
        BY <1>2, <2>1, WholeSums
    <2> QED BY <2>2
<1>3. Unit = MinSplit + 1 /\ MinSplit \in Nat
    BY NumbersAssumption DEF Unit
<1> QED BY <1>1, <1>2, <1>3 DEF TooShort

(* What is planned for the tasks that are finished stays when another one  *)
(* gets segments.                                                          *)
LEMMA HoursOfOthers ==
    ASSUME NEW x, slots' = slots \cup {x}, NEW t, t # x.task
    PROVE  HoursOf(t)' = HoursOf(t)
<1>1. {r \in slots' : r.task = t} = {r \in slots : r.task = t}
    OBVIOUS
<1> QED BY <1>1 DEF HoursOf

LEMMA HoursOfOwn ==
    ASSUME NEW x, slots' = slots \cup {x}, NEW t, x.task = t
    PROVE  HoursOf(t)' = HoursOf(t) \cup (x.from..(x.to - 1))
<1>1. {r \in slots' : r.task = t} = {r \in slots : r.task = t} \cup {x}
    OBVIOUS
<1> QED BY <1>1 DEF HoursOf

LEMMA PlanSoFarStays ==
    ASSUME end' = end, slots' = slots \/ \E x : slots' = slots \cup {x} /\ x.task \notin DOMAIN end
    PROVE  PlanSoFar' = PlanSoFar
<1>1. \A t \in DOMAIN end : HoursOf(t)' = HoursOf(t)
    <2>1. CASE slots' = slots
        BY <2>1 DEF HoursOf
    <2>2. CASE \E x : slots' = slots \cup {x} /\ x.task \notin DOMAIN end
        BY <2>2, HoursOfOthers
    <2> QED BY <2>1, <2>2
<1> QED BY <1>1 DEF PlanSoFar

(* A task that is finished as Timetable plans it is the next of its plans. *)
LEMMA InTurnGoesOn ==
    ASSUME IInv, NextInTurn, NEW t \in Tasks, cur = t, t = Timetable!NextTask(cand, DOMAIN end),
           NEW e \in Int, Finish(e), cand' = cand,
           slots' = slots \/ \E x : slots' = slots \cup {x} /\ x.task = t,
           Timetable!Planned(cand, PlanSoFar, t, Clock) = [hours |-> HoursOf(t)', end |-> e]
    PROVE  NextInTurn'
<1> DEFINE plans == Timetable!PlansOf(cand, Clock)
           n == Cardinality(DOMAIN end)
<1>1. t \notin waiting /\ DOMAIN end = Tasks \ (waiting \cup {t}) /\ waiting \subseteq Tasks
      /\ DOMAIN cand = Tasks /\ t # Nobody
    BY TasksAssumption DEF IInv, TypeOK, OnTheWay, IsCandidates
<1>2. /\ DOMAIN end' = DOMAIN end \cup {t} /\ t \notin DOMAIN end
      /\ end'[t] = e /\ \A u \in DOMAIN end : end'[u] = end[u]
    <2>1. TypeOK
        BY DEF IInv
    <2> QED BY <1>1, <2>1, FinishTypes
<1>3. IsFiniteSet(DOMAIN end) /\ Cardinality(Tasks) \in Nat /\ n \in Nat
    BY <1>1, TasksAssumption, FS_Subset, FS_CardinalityType
<1>4. Cardinality(DOMAIN end') = n + 1
    BY <1>2, <1>3, FS_AddElement
<1>5. n + 1 <= Cardinality(Tasks)
    <2>1. DOMAIN end' \in SUBSET Tasks
        BY <1>1, <1>2
    <2>2. Cardinality(DOMAIN end') <= Cardinality(Tasks)
        BY <2>1, TasksAssumption, FS_Subset
    <2> QED BY <1>4, <2>2
<1>6. plans[n + 1] = WithNext(PlanSoFar)
    <2>1. n + 1 \in 1..Cardinality(Tasks) /\ (n + 1) - 1 = n
        BY <1>3, <1>5
    <2>2. plans[n + 1] = WithNext(plans[n])
        <3>1. \A m \in 1..Cardinality(Tasks) : plans[m] = WithNext(plans[m - 1])
            BY <1>1, <1>3, PlansUnroll
        <3> HIDE DEF plans, n
        <3> QED BY <2>1, <3>1
    <2> QED BY <2>2 DEF NextInTurn
<1>7. /\ DOMAIN PlanSoFar = DOMAIN end
      /\ \A u \in DOMAIN end : PlanSoFar[u] = [hours |-> HoursOf(u), end |-> end[u]]
    BY DEF PlanSoFar
<1>8. WithNext(PlanSoFar) = [u \in DOMAIN end \cup {t} |->
                                IF u = t THEN [hours |-> HoursOf(t)', end |-> e] ELSE PlanSoFar[u]]
    BY <1>7 DEF WithNext
<1>9. \A u \in DOMAIN end : HoursOf(u)' = HoursOf(u)
    <2>1. CASE slots' = slots
        BY <2>1 DEF HoursOf
    <2>2. CASE \E x : slots' = slots \cup {x} /\ x.task = t
        BY <1>2, <2>2, HoursOfOthers
    <2> QED BY <2>1, <2>2
<1>10. PlanSoFar' = [u \in DOMAIN end \cup {t} |-> [hours |-> HoursOf(u)', end |-> end'[u]]]
    BY <1>2 DEF PlanSoFar
<1>11. WithNext(PlanSoFar) = PlanSoFar'
    <2>1. \A u \in DOMAIN end \cup {t} :
              (IF u = t THEN [hours |-> HoursOf(t)', end |-> e] ELSE PlanSoFar[u])
                = [hours |-> HoursOf(u)', end |-> end'[u]]
        <3> TAKE u \in DOMAIN end \cup {t}
        <3>1. CASE u = t
            BY <1>2, <3>1
        <3>2. CASE u # t
            BY <1>2, <1>7, <1>9, <3>2
        <3> QED BY <3>1, <3>2
    <2> QED BY <1>8, <1>10, <2>1
<1> QED BY <1>4, <1>6, <1>11 DEF NextInTurn

(* An interval that ends before it begins.                                 *)
LEMMA NoHours == \A b \in Int : b..(b - 1) = {}
OBVIOUS

(* The turns.                                                              *)
LEMMA PickTable ==
    ASSUME IInv, InTable, InUnits, Whole(Clock), NEW t \in waiting, Pick(t)
    PROVE  InTable'
<1>1. /\ cur = Nobody /\ t \in Tasks /\ Ready(t) /\ cur' = t
      /\ at' = Clear(Earliest(t), 0) /\ left' = cand[t].work
      /\ cand' = cand /\ slots' = slots /\ end' = end
    BY DEF Pick, IInv, TypeOK
<1>2. TypeOK /\ Typed(slots)
    BY DEF IInv, TypeOK, Typed
<1>3. AllWhole /\ Unbroken /\ NextInTurn
    BY DEF InTable
<1>4. Earliest(t) \in Int
    BY <1>1, <1>2, EarliestIsLate
<1>5. Whole(Earliest(t))
    BY <1>1, <1>2, <1>3, EarliestIsWhole DEF AllWhole
<1>6. /\ at' \in Int /\ Whole(at')
      /\ \A s \in slots : ~ Overlaps(s, at', at' + 0)
    <2>1. /\ Clear(Earliest(t), 0) \in Int
          /\ \A s \in slots : ~ Overlaps(s, Clear(Earliest(t), 0), Clear(Earliest(t), 0) + 0)
        <3>1. 0 \in Int
            OBVIOUS
        <3> HIDE DEF Earliest
        <3> QED BY <1>2, <1>4, <3>1, ClearIsClear
    <2>2. Whole(Clear(Earliest(t), 0))
        BY <1>2, <1>3, <1>4, <1>5, ClearIsWhole DEF AllWhole
    <2> QED BY <1>1, <2>1, <2>2
<1>7. Whole(cand[t].work) /\ cand[t].work \in Nat
    BY <1>1, <1>2 DEF InUnits, TypeOK, IsCandidates, Whole
<1>8. AllWhole'
    <2>1. Whole(at)' /\ Whole(left)'
        BY <1>1, <1>6, <1>7 DEF Whole
    <2>2. \A s \in slots : Whole(s.from)' /\ Whole(s.to)'
        BY <1>3 DEF AllWhole, Whole
    <2>3. \A u \in DOMAIN end : Whole(end[u])'
        BY <1>1, <1>3 DEF AllWhole, Whole
    <2> QED BY <1>1, <2>1, <2>2, <2>3 DEF AllWhole, Whole
<1>9. Unbroken'
    BY <1>1, <1>3 DEF Unbroken
<1>10. PlanSoFar' = PlanSoFar
    BY <1>1, PlanSoFarStays
<1>11. NextInTurn'
    BY <1>1, <1>3, <1>10 DEF NextInTurn
<1>12. UnderWay(t)'
    <2>1. t = Timetable!NextTask(cand, DOMAIN end)
        BY <1>2, NextIsPicked
    <2>2. \A s \in slots : ~ (s.from < at' /\ at' < s.to)
        BY <1>6 DEF Overlaps
    <2>3. \A s \in slots : s.task # t
        BY DEF IInv
    <2>4. Begin(t)' = Begin(t)
        BY <1>1, <1>10 DEF Begin, Earliest
    <2>5. Begin(t) = at'
        BY <1>1, <1>3, <1>4, ClearIsBetween DEF Begin
    <2>6. HoursOf(t)' = {}
        BY <1>1, <2>3 DEF HoursOf
    <2>7. at'..(at' - 1) = {}
        BY <1>6, NoHours
    <2>8. Cardinality(HoursOf(t)') + left' = cand[t].work
        BY <1>1, <1>7, <2>6, FS_EmptySet
    <2> HIDE DEF Begin
    <2> QED BY <1>1, <1>6, <1>10, <2>1, <2>2, <2>3, <2>4, <2>5, <2>6, <2>7, <2>8 DEF UnderWay
<1> QED BY <1>1, <1>8, <1>9, <1>11, <1>12 DEF InTable

(* Before a task has a segment it has not got beyond where it began, and   *)
(* all of its work is left.                                                *)
LEMMA NotBegun ==
    ASSUME IInv, NEW t \in Tasks, cur = t, UnderWay(t), at = Begin(t)
    PROVE  HoursOf(t) = {} /\ left = cand[t].work /\ \A s \in slots : s.task # t
<1>1. at \in Int /\ left \in Nat /\ \A s \in slots : s.from \in Int /\ s.to \in Int /\ s.from < s.to
    BY DEF IInv, TypeOK
<1>2. HoursOf(t) = {}
    BY <1>1, NoHours DEF UnderWay
<1>3. ASSUME NEW s \in slots, s.task = t PROVE FALSE
    <2>1. s.from \in HoursOf(t)
        BY <1>1, <1>3, HoursAre
    <2> QED BY <1>2, <2>1
<1>4. left = cand[t].work
    <2>1. Cardinality(HoursOf(t)) + left = cand[t].work
        BY DEF UnderWay
    <2>2. Cardinality(HoursOf(t)) = 0
        BY <1>2, FS_EmptySet
    <2> QED BY <1>1, <2>1, <2>2
<1> QED BY <1>2, <1>3, <1>4

(* What Timetable plans for a task.                                        *)
LEMMA PlannedHours ==
    ASSUME IInv, NEW t \in Tasks, cur = t, NEW H,
           H = IF cand[t].atomic THEN Timetable!InOnePiece(PlanSoFar, Begin(t), cand[t].work)
               ELSE Timetable!InPieces(PlanSoFar, Begin(t), cand[t].work)
    PROVE  Timetable!Planned(cand, PlanSoFar, t, Clock)
              = [hours |-> H, end |-> IF H = {} THEN Begin(t) ELSE Max(H) + 1]
<1>1. TypeOK /\ Ready(t)
    BY TasksAssumption DEF IInv, OnTheWay, Ready
<1>2. Timetable!Max({cand[t].avail, Clock} \cup {PlanSoFar[u].end : u \in cand[t].children}) = Earliest(t)
    BY <1>1, EarliestInTable
<1>3. Begin(t) = Timetable!Between(PlanSoFar, Earliest(t))
    BY DEF Begin
<1> QED BY <1>2, <1>3, SameLibrary DEF Timetable!Planned

(* A task ends after its last hour.                                        *)
LEMMA GreatestHour ==
    ASSUME NEW H, IsFiniteSet(H), H \subseteq Int, NEW to \in Int, to - 1 \in H, \A h \in H : h < to
    PROVE  Max(H) + 1 = to
<1>1. Max(H) \in H /\ \A h \in H : Max(H) >= h
    BY MaxIsGreatest
<1>2. Max(H) \in Int /\ Max(H) < to /\ Max(H) >= to - 1
    BY <1>1
<1> QED BY <1>2

LEMMA PlanNothingTable ==
    ASSUME IInv, InTable, PlanNothing
    PROVE  InTable'
<1>1. PICK t \in Tasks : cur = t
    BY DEF PlanNothing, IInv, TypeOK
<1>2. /\ left = 0 /\ Finish(at) /\ cur' = Nobody /\ cand' = cand /\ slots' = slots /\ at' = at /\ left' = left
    BY DEF PlanNothing, Finish
<1>3. /\ AllWhole /\ Unbroken /\ NextInTurn /\ UnderWay(t) /\ at = Begin(t) /\ at \in Int
    BY <1>1, <1>2 DEF InTable, UnderWay, IInv, TypeOK
<1>4. HoursOf(t) = {} /\ cand[t].work = 0
    BY <1>1, <1>2, <1>3, NotBegun
<1>5. IsFiniteSet(Timetable!Taken(PlanSoFar))
    BY TakenHours
<1>6. Timetable!Planned(cand, PlanSoFar, t, Clock) = [hours |-> {}, end |-> at]
    <2>1. Timetable!InPieces(PlanSoFar, at, 0) = {}
        BY <1>3, <1>5, NoPieces
    <2>2. Timetable!InOnePiece(PlanSoFar, at, 0) = at..(at + 0 - 1)
        <3>1. (at..(at + 0 - 1)) \cap Timetable!Taken(PlanSoFar) = {}
            BY <1>3
        <3> QED BY <1>3, <1>5, <3>1, FirstFreePlace
    <2>3. at..(at + 0 - 1) = {}
        BY <1>3
    <2> QED BY <1>1, <1>3, <1>4, <2>1, <2>2, <2>3, PlannedHours
<1>7. HoursOf(t)' = {}
    BY <1>2, <1>4 DEF HoursOf
<1>8. NextInTurn'
    BY <1>1, <1>2, <1>3, <1>6, <1>7, InTurnGoesOn DEF UnderWay
<1>9. \A u \in DOMAIN end' : Whole(end'[u])
    BY <1>2, <1>3 DEF Finish, AllWhole
<1>10. AllWhole'
    BY <1>2, <1>3, <1>9 DEF AllWhole, Whole
<1> QED BY <1>2, <1>3, <1>8, <1>10, TasksAssumption DEF InTable, Unbroken

LEMMA PlanWholeTable ==
    ASSUME IInv, InTable, PlanWhole
    PROVE  InTable'
<1> DEFINE c == Clear(at, left)
<1>1. PICK t \in Tasks : cur = t
    BY DEF PlanWhole, IInv, TypeOK
<1>2. /\ left > 0 /\ cand[t].atomic /\ Finish(c + left) /\ cur' = Nobody
      /\ slots' = slots \cup {Segment(c, c + left)} /\ cand' = cand /\ at' = at /\ left' = left
    BY <1>1 DEF PlanWhole, Finish
<1>3. /\ AllWhole /\ Unbroken /\ NextInTurn /\ UnderWay(t) /\ at = Begin(t)
      /\ at \in Int /\ left \in Nat /\ Typed(slots)
    BY <1>1, <1>2 DEF InTable, UnderWay, IInv, TypeOK, Typed
<1>4. HoursOf(t) = {} /\ cand[t].work = left /\ \A s \in slots : s.task # t
    BY <1>1, <1>3, NotBegun
<1>5. c \in Int /\ c >= at /\ \A s \in slots : ~ Overlaps(s, c, c + left)
    <2>1. left \in Int
        BY <1>3
    <2> QED BY <1>3, <2>1, ClearIsClear
<1>6. \A b \in Int : b >= at /\ (\A s \in slots : ~ Overlaps(s, b, b + left)) => c <= b
    BY <1>3, ClearIsFirst
<1>7. Whole(c) /\ Whole(c + left)
    <2>1. Whole(c)
        BY <1>3, ClearIsWhole DEF AllWhole
    <2> QED BY <1>3, <1>5, <2>1, WholeSums DEF AllWhole
<1>8. PICK x : x = Segment(c, c + left)
    OBVIOUS
<1>9. x.task = t /\ x.from = c /\ x.to = c + left /\ slots' = slots \cup {x}
    BY <1>1, <1>2, <1>8 DEF Segment
<1> HIDE DEF c
<1>10. IsFiniteSet(Timetable!Taken(PlanSoFar))
    BY TakenHours
<1>11. \A b \in Int : (b..(b + left - 1)) \cap Timetable!Taken(PlanSoFar) = {}
                        <=> \A s \in slots : ~ Overlaps(s, b, b + left)
    <2> TAKE b \in Int
    <2>1. \A h : h \in Timetable!Taken(PlanSoFar) <=> h \in Int /\ \E s \in slots : s.from <= h /\ h < s.to
        BY <1>1, <1>4, TakenHours
    <2>2. ASSUME NEW s \in slots, Overlaps(s, b, b + left)
          PROVE  (b..(b + left - 1)) \cap Timetable!Taken(PlanSoFar) # {}
        <3>1. b < s.to /\ s.from < b + left /\ s.from < s.to /\ s.from \in Int /\ s.to \in Int
            BY <2>2 DEF Overlaps, IInv, TypeOK
        <3>2. CASE b <= s.from
            <4>1. s.from \in b..(b + left - 1) /\ s.from \in Timetable!Taken(PlanSoFar)
                BY <1>3, <2>1, <3>1, <3>2
            <4> QED BY <4>1
        <3>3. CASE s.from < b
            <4>1. b \in b..(b + left - 1) /\ b \in Timetable!Taken(PlanSoFar)
                BY <1>2, <1>3, <2>1, <3>1, <3>3
            <4> QED BY <4>1
        <3> QED BY <3>1, <3>2, <3>3
    <2>3. ASSUME NEW h \in b..(b + left - 1), h \in Timetable!Taken(PlanSoFar)
          PROVE  \E s \in slots : Overlaps(s, b, b + left)
        <3>1. PICK s \in slots : s.from <= h /\ h < s.to
            BY <2>1, <2>3
        <3>2. h \in Int /\ b <= h /\ h < b + left /\ s.from \in Int /\ s.to \in Int
            BY <1>3 DEF Typed
        <3>3. Overlaps(s, b, b + left)
            BY <1>3, <3>1, <3>2 DEF Overlaps
        <3> QED BY <3>3
    <2> QED BY <2>2, <2>3
<1>12. Timetable!InOnePiece(PlanSoFar, at, left) = c..(c + left - 1)
    <2>1. (c..(c + left - 1)) \cap Timetable!Taken(PlanSoFar) = {}
        BY <1>5, <1>11
    <2>2. \A b \in Int : b >= at /\ (b..(b + left - 1)) \cap Timetable!Taken(PlanSoFar) = {} => c <= b
        BY <1>6, <1>11
    <2> QED BY <1>3, <1>5, <1>10, <2>1, <2>2, FirstFreePlace
<1>13. HoursOf(t)' = c..(c + left - 1)
    <2>1. HoursOf(t)' = HoursOf(t) \cup (x.from..(x.to - 1))
        BY <1>9, HoursOfOwn
    <2>2. x.from..(x.to - 1) = c..(c + left - 1)
        <3>1. x.to - 1 = c + left - 1
            BY <1>3, <1>5, <1>9
        <3> QED BY <1>9, <3>1
    <2> QED BY <1>4, <2>1, <2>2
<1>14. Timetable!Planned(cand, PlanSoFar, t, Clock) = [hours |-> c..(c + left - 1), end |-> c + left]
    <2> DEFINE H == c..(c + left - 1)
    <2>1. /\ IsFiniteSet(H) /\ H \subseteq Int /\ c + left \in Int
          /\ (c + left) - 1 \in H /\ \A h \in H : h < c + left
        <3>1. c + left - 1 \in Int /\ c <= c + left - 1
            BY <1>2, <1>3, <1>5
        <3>2. IsFiniteSet(H)
            BY <1>5, <3>1, FS_Interval
        <3>3. (c + left) - 1 \in H /\ \A h \in H : h < c + left
            BY <1>3, <1>5, <3>1
        <3> QED BY <1>3, <1>5, <3>2, <3>3
    <2>2. H = IF cand[t].atomic THEN Timetable!InOnePiece(PlanSoFar, Begin(t), cand[t].work)
              ELSE Timetable!InPieces(PlanSoFar, Begin(t), cand[t].work)
        BY <1>2, <1>3, <1>4, <1>12
    <2> HIDE DEF H
    <2>3. Max(H) + 1 = c + left
        BY <2>1, GreatestHour
    <2>4. H # {}
        BY <2>1
    <2>5. Timetable!Planned(cand, PlanSoFar, t, Clock)
              = [hours |-> H, end |-> IF H = {} THEN Begin(t) ELSE Max(H) + 1]
        BY <1>1, <2>2, PlannedHours
    <2>6. Timetable!Planned(cand, PlanSoFar, t, Clock) = [hours |-> H, end |-> c + left]
        BY <2>3, <2>4, <2>5
    <2> QED BY <2>6 DEF H
<1>15. NextInTurn'
    <2>1. c + left \in Int
        BY <1>3, <1>5
    <2>2. \E y : slots' = slots \cup {y} /\ y.task = t
        BY <1>9
    <2> QED BY <1>1, <1>2, <1>3, <1>13, <1>14, <2>1, <2>2, InTurnGoesOn DEF UnderWay
<1>16. Unbroken'
    <2>1. c # c + left
        BY <1>2, <1>3, <1>5
    <2> QED BY <1>3, <1>4, <1>9, <2>1 DEF Unbroken
<1>17. AllWhole'
    <2>1. \A u \in DOMAIN end' : Whole(end'[u])
        BY <1>2, <1>3, <1>7 DEF Finish, AllWhole
    <2>2. \A s \in slots' : Whole(s.from) /\ Whole(s.to)
        BY <1>3, <1>7, <1>9 DEF AllWhole
    <2> QED BY <1>2, <1>3, <2>1, <2>2 DEF AllWhole, Whole
<1> QED BY <1>2, <1>15, <1>16, <1>17, TasksAssumption DEF InTable

(* Where the next turn of a task in pieces is: here, up to what comes next. *)
LEMMA NextTurn ==
    ASSUME IInv, InTable, NEW t \in Tasks, cur = t, Splitting
    PROVE  /\ Clear(at, 0) = at
           /\ at \in Int /\ Stop(at) \in Int /\ at <= Stop(at) /\ Stop(at) <= at + left
           /\ \A s \in slots : s.to <= at \/ Stop(at) <= s.from
           /\ Whole(Stop(at)) /\ (at < Stop(at) => ~ TooShort(at, Stop(at)))
           /\ Stop(at) = at + left \/ \E s \in slots : s.from = Stop(at)
<1>1. Typed(slots) /\ at \in Int /\ left \in Nat /\ UnderWay(t) /\ AllWhole
    BY DEF IInv, TypeOK, Typed, InTable
<1>2. Clear(at, 0) = at
    BY <1>1, ClearHere DEF UnderWay
<1>3. /\ Stop(at) \in Int /\ at <= Stop(at) /\ Stop(at) <= at + left
      /\ \A s \in slots : s.to <= at \/ Stop(at) <= s.from
    BY <1>2, NextPlace
<1>4. /\ Whole(Stop(at))
      /\ Stop(at) = at + left \/ \E s \in slots : at <= s.from /\ s.from = Stop(at)
    BY <1>1, StopIsWhole DEF AllWhole
<1>5. at < Stop(at) => ~ TooShort(at, Stop(at))
    BY <1>1, <1>3, <1>4, WholeIsLongEnough DEF AllWhole
<1> QED BY <1>1, <1>2, <1>3, <1>4, <1>5

LEMMA SkipTable ==
    ASSUME IInv, InTable, NEW t \in Tasks, cur = t, Skip(at, Stop(at))
    PROVE  InTable'
<1>1. /\ Splitting /\ cand' = cand /\ waiting' = waiting /\ slots' = slots /\ end' = end
      /\ cur' = t /\ left' = left
    BY DEF Skip
<1>2. /\ at \in Int /\ at <= Stop(at) /\ (at < Stop(at) => ~ TooShort(at, Stop(at)))
      /\ Stop(at) \in Int
    BY <1>1, NextTurn
<1>3. Stop(at) = at
    BY <1>2 DEF Skip
<1>4. PICK s \in slots : s.from = at /\ at' = s.to
    BY <1>3 DEF Skip
<1>5. /\ AllWhole /\ Unbroken /\ NextInTurn /\ UnderWay(t) /\ ~ cand[t].atomic /\ left # 0
      /\ \A r \in slots : r.from \in Int /\ r.to \in Int /\ r.from < r.to
      /\ \A r \in slots : r = s \/ r.to <= s.from \/ s.to <= r.from
    BY <1>1, <1>4 DEF InTable, IInv, TypeOK, SoundPlan, Apart, Splitting
<1>6. s.task # t
    <2>1. \A r \in OwnSegments : r.to <= at
        BY <1>1, TasksAssumption DEF IInv, OnTheWay
    <2>2. ~ (s.to <= at)
        BY <1>2, <1>4, <1>5
    <2> QED BY <1>4, <2>1, <2>2 DEF OwnSegments
<1>7. AllWhole'
    <2>1. Whole(at)'
        BY <1>4, <1>5 DEF AllWhole, Whole
    <2> QED BY <1>1, <1>5, <2>1 DEF AllWhole, Whole
<1>8. PlanSoFar' = PlanSoFar
    BY <1>1, PlanSoFarStays
<1>9. NextInTurn'
    BY <1>1, <1>5, <1>8 DEF NextInTurn
<1>10. UnderWay(t)'
    <2>1. Begin(t)' = Begin(t)
        BY <1>1, <1>8 DEF Begin, Earliest
    <2>2. HoursOf(t)' = HoursOf(t)
        BY <1>1 DEF HoursOf
    <2>3. \A r \in slots : ~ (r.from < at' /\ at' < r.to)
        BY <1>4, <1>5
    <2>4. \A r \in slots : r.task = t => r.to # at'
        BY <1>4, <1>5, <1>6
    <2>5. Begin(t) <= at'
        <3>1. Begin(t) <= at /\ at < at' /\ at' \in Int
            BY <1>2, <1>4, <1>5 DEF UnderWay
        <3>2. Begin(t) \in Int
            BY <1>5 DEF UnderWay
        <3> QED BY <1>2, <3>1, <3>2
    <2>6. (Begin(t)..(at' - 1)) \ Timetable!Taken(PlanSoFar) = (Begin(t)..(at - 1)) \ Timetable!Taken(PlanSoFar)
        <3>1. Begin(t) \in Int /\ Begin(t) <= at
            BY <1>5 DEF UnderWay
        <3>2. \A h \in Int : at <= h /\ h < s.to => h \in Timetable!Taken(PlanSoFar)
            BY <1>4, <1>6, TakenHours
        <3>3. at' = s.to /\ s.to \in Int /\ at < s.to
            BY <1>4, <1>5
        <3> HIDE DEF Begin
        <3> QED BY <1>2, <3>1, <3>2, <3>3
    <2>7. /\ t = Timetable!NextTask(cand, DOMAIN end)
          /\ HoursOf(t) = (Begin(t)..(at - 1)) \ Timetable!Taken(PlanSoFar)
          /\ Cardinality(HoursOf(t)) + left = cand[t].work
        BY <1>5 DEF UnderWay
    <2> QED BY <1>1, <1>5, <1>8, <2>1, <2>2, <2>3, <2>4, <2>5, <2>6, <2>7 DEF UnderWay
<1> QED BY <1>1, <1>5, <1>7, <1>9, <1>10 DEF InTable, Unbroken

(* A new segment takes the free hours from where the task goes on.         *)
LEMMA SegmentHours ==
    ASSUME IInv, InTable, NEW t \in Tasks, cur = t, Splitting, NEW to \in Int, to = Stop(at), at < to,
           slots' = slots \cup {Segment(at, to)}
    PROVE  /\ HoursOf(t)' = (Begin(t)..(to - 1)) \ Timetable!Taken(PlanSoFar)
           /\ IsFiniteSet(HoursOf(t)')
           /\ Cardinality(HoursOf(t)') = Cardinality(HoursOf(t)) + (to - at)
           /\ to - 1 \in HoursOf(t)'
<1>1. PICK x : x = Segment(at, to)
    OBVIOUS
<1>2. x.task = t /\ x.from = at /\ x.to = to /\ slots' = slots \cup {x}
    BY <1>1 DEF Segment
<1>3. /\ at \in Int /\ UnderWay(t) /\ Typed(slots)
      /\ \A s \in slots : s.to <= at \/ to <= s.from
    BY NextTurn DEF InTable, IInv, TypeOK, Typed
<1>4. HoursOf(t)' = HoursOf(t) \cup (at..(to - 1))
    BY <1>2, HoursOfOwn
<1>5. /\ HoursOf(t) = (Begin(t)..(at - 1)) \ Timetable!Taken(PlanSoFar)
      /\ Begin(t) \in Int /\ Begin(t) <= at
    BY <1>3 DEF UnderWay
<1>6. \A h \in at..(to - 1) : h \notin Timetable!Taken(PlanSoFar)
    <2> SUFFICES ASSUME NEW h \in at..(to - 1), h \in Timetable!Taken(PlanSoFar) PROVE FALSE
        OBVIOUS
    <2>1. PICK s \in slots : s.from <= h /\ h < s.to
        BY TakenHours
    <2>2. h \in Int /\ at <= h /\ h < to /\ s.from \in Int /\ s.to \in Int
        BY <1>3 DEF Typed
    <2> QED BY <1>3, <2>1, <2>2
<1> DEFINE b == Begin(t)
           T == Timetable!Taken(PlanSoFar)
           H == HoursOf(t)
<1>7. H = (b..(at - 1)) \ T /\ b \in Int /\ b <= at /\ \A h \in at..(to - 1) : h \notin T
    BY <1>5, <1>6
<1>8. IsFiniteSet(H)
    BY <1>3, HoursAreFinite
<1> HIDE DEF b, T, H
<1>9. H \cup (at..(to - 1)) = (b..(to - 1)) \ T
    BY <1>3, <1>7
<1>10. /\ IsFiniteSet(at..(to - 1)) /\ Cardinality(at..(to - 1)) = to - at
       /\ to - 1 \in at..(to - 1)
    <2>1. to - 1 \in Int /\ at \in Int /\ at <= to - 1
        BY <1>3
    <2>2. /\ IsFiniteSet(at..(to - 1))
          /\ Cardinality(at..(to - 1)) = IF at > to - 1 THEN 0 ELSE (to - 1) - at + 1
        BY <2>1, FS_Interval
    <2> QED BY <1>3, <2>1, <2>2
<1>11. H \cap (at..(to - 1)) = {}
    BY <1>3, <1>7
<1>12. /\ IsFiniteSet(H \cup (at..(to - 1)))
       /\ Cardinality(H \cup (at..(to - 1))) = Cardinality(H) + (to - at)
    <2>1. Cardinality(H \cap (at..(to - 1))) = 0
        BY <1>11, FS_EmptySet
    <2>2. Cardinality(H) \in Nat /\ to - at \in Int
        BY <1>3, <1>8, FS_CardinalityType
    <2>3. /\ IsFiniteSet(H \cup (at..(to - 1)))
          /\ Cardinality(H \cup (at..(to - 1)))
                = Cardinality(H) + Cardinality(at..(to - 1)) - Cardinality(H \cap (at..(to - 1)))
        BY <1>8, <1>10, FS_Union
    <2> QED BY <1>10, <2>1, <2>2, <2>3
<1>13. HoursOf(t)' = H \cup (at..(to - 1))
    BY <1>4 DEF H
<1> QED BY <1>9, <1>10, <1>12, <1>13 DEF b, T, H

LEMMA PlanSegmentTable ==
    ASSUME IInv, InTable, NEW t \in Tasks, cur = t, PlanSegment(at, Stop(at))
    PROVE  InTable'
<1>1. PICK to : to = Stop(at)
    OBVIOUS
<1>2. PICK x : x = Segment(at, to)
    OBVIOUS
<1>3. /\ Splitting /\ at < to /\ slots' = slots \cup {Segment(at, to)} /\ at' = to /\ left' = left - (to - at)
      /\ cand' = cand /\ IF left' = 0 THEN Finish(to) ELSE end' = end /\ cur' = cur
    <2>1. Stop(at) \in Int /\ at \in Int
        BY NextTurn DEF PlanSegment
    <2> QED BY <1>1, <2>1 DEF PlanSegment
<1>4. x.task = t /\ x.from = at /\ x.to = to /\ slots' = slots \cup {x}
    BY <1>2, <1>3 DEF Segment
<1>5. /\ at \in Int /\ to \in Int /\ left \in Nat /\ left # 0
      /\ ~ cand[t].atomic /\ Whole(to) /\ to <= at + left
      /\ \A s \in slots : s.to <= at \/ to <= s.from
      /\ to = at + left \/ \E s \in slots : s.from = to
      /\ \A s \in slots : s.from \in Int /\ s.to \in Int /\ s.from < s.to
    BY <1>1, <1>3, NextTurn DEF IInv, TypeOK, Splitting
<1>6. /\ AllWhole /\ Unbroken /\ NextInTurn /\ UnderWay(t)
      /\ \A r \in slots : r.task = t => r.to < at
    <2>1. UnderWay(t)
        BY DEF InTable
    <2>2. \A r \in slots : r.task = t => r.to <= at
        BY <1>3, TasksAssumption DEF IInv, OnTheWay, OwnSegments
    <2>3. \A s \in slots : s.from # at
        BY <1>3, <1>5
    <2>4. \A r \in slots : r.task = t => r.to # at
        BY <2>1, <2>3 DEF UnderWay
    <2> QED BY <1>5, <2>1, <2>2, <2>4 DEF InTable
<1>7. Unbroken'
    BY <1>3, <1>4, <1>5, <1>6 DEF Unbroken
<1>8. /\ HoursOf(t)' = (Begin(t)..(to - 1)) \ Timetable!Taken(PlanSoFar)
      /\ IsFiniteSet(HoursOf(t)')
      /\ Cardinality(HoursOf(t)') = Cardinality(HoursOf(t)) + (to - at)
      /\ to - 1 \in HoursOf(t)'
    BY <1>1, <1>3, <1>5, SegmentHours
<1>9. Cardinality(HoursOf(t)') + left' = cand[t].work /\ left' \in Nat
    <2>1. Cardinality(HoursOf(t)) + left = cand[t].work
        BY <1>6 DEF UnderWay
    <2>2. Cardinality(HoursOf(t)) \in Nat
        BY <1>5, HoursAreFinite, FS_CardinalityType DEF Typed, IInv
    <2> QED BY <1>3, <1>5, <1>8, <2>1, <2>2
<1>10. Whole(left)' /\ Whole(at)' /\ \A s \in slots' : Whole(s.from)' /\ Whole(s.to)'
    <2>1. Whole(left) /\ Whole(at) /\ \A s \in slots : Whole(s.from) /\ Whole(s.to)
        BY <1>6 DEF AllWhole
    <2>2. Whole(to - at)
        BY <1>5, <2>1, WholeSums
    <2>3. Whole(left - (to - at))
        BY <1>5, <2>1, <2>2, WholeSums
    <2> QED BY <1>3, <1>4, <1>5, <2>1, <2>3 DEF Whole
<1>11. CASE left' # 0
    <2>1. end' = end /\ cur' = t
        BY <1>3, <1>11
    <2>2. PlanSoFar' = PlanSoFar
        BY <1>4, <2>1, PlanSoFarStays DEF IInv, TypeOK
    <2>3. NextInTurn'
        BY <1>3, <1>6, <2>1, <2>2 DEF NextInTurn
    <2>4. AllWhole'
        BY <1>6, <1>10, <2>1 DEF AllWhole, Whole
    <2>5. UnderWay(t)'
        <3>1. Begin(t)' = Begin(t)
            BY <1>3, <2>1, <2>2 DEF Begin, Earliest
        <3>2. \A s \in slots' : ~ (s.from < to /\ to < s.to)
            BY <1>3, <1>4, <1>5
        <3>3. \E s \in slots : s.from = to
            BY <1>3, <1>5, <1>11
        <3>4. Begin(t) \in Int /\ Begin(t) <= to
            BY <1>3, <1>5, <1>6 DEF UnderWay
        <3>5. t = Timetable!NextTask(cand, DOMAIN end)
            BY <1>6 DEF UnderWay
        <3> QED BY <1>3, <1>4, <1>5, <1>8, <1>9, <1>11, <2>1, <2>2, <3>1, <3>2, <3>3, <3>4, <3>5 DEF UnderWay
    <2> QED BY <1>7, <2>1, <2>3, <2>4, <2>5 DEF InTable
<1>12. CASE left' = 0
    <2>1. Finish(to) /\ cur' = Nobody
        BY <1>3, <1>12 DEF Finish
    <2> DEFINE H == HoursOf(t)'
    <2>2. Cardinality(H) = cand[t].work /\ cand[t].work > 0 /\ cand[t].work \in Nat
        <3>1. H # {}
            BY <1>8
        <3>2. Cardinality(H) \in Nat /\ Cardinality(H) # 0
            BY <1>8, <3>1, FS_CardinalityType, FS_EmptySet
        <3> QED BY <1>9, <1>12, <3>2
    <2>3. H = (Begin(t)..(to - 1)) \ Timetable!Taken(PlanSoFar) /\ to - 1 \in H /\ IsFiniteSet(H)
        BY <1>8
    <2>4. Begin(t) \in Int /\ Begin(t) <= to
        BY <1>3, <1>5, <1>6 DEF UnderWay
    <2>5. PICK K : K = H
        OBVIOUS
    <2> HIDE DEF H
    <2>6. Timetable!InPieces(PlanSoFar, Begin(t), cand[t].work) = K
        <3>1. PICK T : T = Timetable!Taken(PlanSoFar)
            OBVIOUS
        <3>2. IsFiniteSet(T)
            BY <3>1, TakenHours
        <3>3. K = (Begin(t)..(to - 1)) \ T /\ Cardinality(K) = cand[t].work /\ to - 1 \in K
            BY <2>2, <2>3, <2>5, <3>1
        <3> QED BY <1>5, <2>2, <2>4, <3>1, <3>2, <3>3, FirstFreeHours
    <2>7. Max(K) + 1 = to /\ K # {}
        <3>1. K \subseteq Int /\ \A h \in K : h < to
            BY <1>5, <2>3, <2>4, <2>5
        <3> QED BY <1>5, <2>3, <2>5, <3>1, GreatestHour
    <2>8. Timetable!Planned(cand, PlanSoFar, t, Clock) = [hours |-> K, end |-> to]
        <3>1. Timetable!Planned(cand, PlanSoFar, t, Clock)
                 = [hours |-> K, end |-> IF K = {} THEN Begin(t) ELSE Max(K) + 1]
            BY <1>5, <2>6, PlannedHours
        <3> QED BY <2>7, <3>1
    <2>9. NextInTurn'
        <3>1. \E y : slots' = slots \cup {y} /\ y.task = t
            BY <1>4
        <3>2. t = Timetable!NextTask(cand, DOMAIN end)
            BY <1>6 DEF UnderWay
        <3>3. Timetable!Planned(cand, PlanSoFar, t, Clock) = [hours |-> HoursOf(t)', end |-> to]
            BY <2>5, <2>8 DEF H
        <3> QED BY <1>3, <1>5, <1>6, <2>1, <3>1, <3>2, <3>3, InTurnGoesOn
    <2>10. AllWhole'
        <3>1. \A u \in DOMAIN end' : Whole(end'[u])
            BY <1>5, <1>6, <2>1 DEF Finish, AllWhole
        <3> QED BY <1>10, <3>1 DEF AllWhole, Whole
    <2> QED BY <1>7, <2>1, <2>9, <2>10, TasksAssumption DEF InTable
<1> QED BY <1>11, <1>12

(* In whole units the table holds at every turn.                           *)
LEMMA TableInvariance == Spec => [](InUnits /\ Whole(Clock) => InTable)
<1> DEFINE TableInv == InUnits /\ Whole(Clock) => InTable
<1>1. Init => TableInv
    <2> SUFFICES ASSUME Init, Whole(Clock) PROVE InTable
        OBVIOUS
    <2>1. cur = Nobody /\ slots = {} /\ end = << >> /\ at = Clock /\ left = 0 /\ cand \in Candidates
        BY DEF Init
    <2>2. DOMAIN end = {}
        BY <2>1
    <2>3. PlanSoFar = << >>
        BY <2>2 DEF PlanSoFar
    <2>4. NextInTurn
        <3>1. Cardinality(DOMAIN end) = 0
            BY <2>2, FS_EmptySet
        <3>2. Cardinality(DOMAIN cand) \in Nat
            BY <2>1, CandidatesAssumption, TasksAssumption, FS_CardinalityType DEF IsCandidates
        <3>3. Timetable!PlansOf(cand, Clock)[0] = << >>
            BY <3>2, PlansUnroll
        <3> QED BY <2>3, <3>1, <3>3 DEF NextInTurn
    <2>5. AllWhole
        <3>1. Whole(0)
            BY UnitIsPositive DEF Whole
        <3> QED BY <2>1, <2>2, <3>1 DEF AllWhole
    <2> QED BY <2>1, <2>4, <2>5, TasksAssumption DEF InTable, Unbroken
<1>2. ASSUME IInv, TableInv, [Next]_vars PROVE TableInv'
    <2> SUFFICES ASSUME InUnits', Whole(Clock)' PROVE InTable'
        OBVIOUS
    <2>1. cand' = cand
        BY <1>2 DEF Next, Pick, PlanNothing, PlanWhole, PlanPart, Skip, PlanSegment, vars
    <2>2. InUnits /\ Whole(Clock) /\ InTable
        BY <1>2, <2>1 DEF InUnits, Whole
    <2>3. ASSUME NEW t \in waiting, Pick(t) PROVE InTable'
        BY <1>2, <2>2, <2>3, PickTable
    <2>4. CASE PlanNothing
        BY <1>2, <2>2, <2>4, PlanNothingTable
    <2>5. CASE PlanWhole
        BY <1>2, <2>2, <2>5, PlanWholeTable
    <2>6. CASE PlanPart
        <3>1. Splitting
            BY <2>6 DEF PlanPart, Skip, PlanSegment
        <3>2. PICK t \in Tasks : cur = t
            BY <1>2, <3>1 DEF Splitting, IInv, TypeOK
        <3>3. Clear(at, 0) = at
            BY <1>2, <2>2, <3>1, <3>2, NextTurn
        <3>4. Skip(at, Stop(at)) \/ PlanSegment(at, Stop(at))
            BY <2>6, <3>3 DEF PlanPart
        <3> QED BY <1>2, <2>2, <3>2, <3>4, SkipTable, PlanSegmentTable
    <2>7. CASE UNCHANGED vars
        <3>1. PlanSoFar' = PlanSoFar /\ \A t : HoursOf(t)' = HoursOf(t)
            BY <2>7 DEF vars, PlanSoFar, HoursOf
        <3>2. \A t : Begin(t)' = Begin(t)
            BY <2>7, <3>1 DEF vars, Begin, Earliest
        <3>3. \A t \in Tasks : UnderWay(t)' <=> UnderWay(t)
            BY <2>7, <3>1, <3>2 DEF vars, UnderWay
        <3> QED BY <2>2, <2>7, <3>1, <3>3 DEF InTable, AllWhole, Unbroken, NextInTurn, vars, Whole
    <2> QED BY <1>2, <2>3, <2>4, <2>5, <2>6, <2>7 DEF Next
<1> QED BY <1>1, <1>2, Invariance, PTL DEF Spec

(* When all is planned, the loops of schedule_tasks_by_priority have       *)
(* planned the hours and the ends of Timetable, which the order of the     *)
(* tasks alone determines, for any tasks and times in whole units.         *)
THEOREM PlansTheTable == Spec => []IsTimetable
<1>1. IInv /\ (InUnits /\ Whole(Clock) => InTable) => IsTimetable
    <2> SUFFICES ASSUME IInv, InTable, waiting = {}, cur = Nobody
                 PROVE  LET planned == Timetable!PlanOf(cand, Clock)
                        IN  \A t \in DOMAIN cand :
                               /\ planned[t].end = end[t]
                               /\ planned[t].hours = UNION {s.from..(s.to - 1) : s \in {r \in slots : r.task = t}}
        BY DEF IsTimetable, Whole
    <2>1. DOMAIN end = DOMAIN cand
        BY TasksAssumption DEF IInv, TypeOK, IsCandidates
    <2>2. Timetable!PlanOf(cand, Clock) = Timetable!PlansOf(cand, Clock)[Cardinality(DOMAIN end)]
        BY <2>1, SameLibrary DEF Timetable!PlanOf
    <2>3. Timetable!PlanOf(cand, Clock) = PlanSoFar
        BY <2>2 DEF InTable, NextInTurn
    <2> QED BY <2>1, <2>3 DEF PlanSoFar, HoursOf
<1> QED BY <1>1, Invariance, TableInvariance, PTL

-----------------------------------------------------------------------------
(***************************************************************************)
(* Chains and the three passes over them                                   *)
(***************************************************************************)
HoursOfDay == 0..(DayLength - 1)

\* A project and its tasks.
ChainTypeOK == up \in Ups /\ attr \in Attributes

\* Where a chain goes.
Upward(c, t) ==
    /\ c \in Seq(AllTasks) /\ Len(c) >= 1 /\ c[1] = t
    /\ \A i \in 1..(Len(c) - 1) : c[i + 1] = up[c[i]]
    /\ up[c[Len(c)]] = NoTask

(* A chain goes from its leaf to the root.                                 *)
LEMMA ChainIsUpward ==
    ASSUME IsProject, up \in Ups, NEW leaf \in AllTasks
    PROVE  Upward(Chain(leaf), leaf)
<1>0. /\ Project \in Nat /\ AllTasks = 1..Project /\ NoTask \notin AllTasks
      /\ \A t \in AllTasks : up[t] = NoTask \/ (up[t] \in AllTasks /\ up[t] > t)
    BY DEF IsProject, AllTasks
<1> DEFINE V == Seq(AllTasks)
           Value(g, t) == IF up[t] = NoTask THEN <<t>> ELSE <<t>> \o g[up[t]]
           rank == [t \in AllTasks |-> Project - t]
           step == [x \in AllTasks \X [AllTasks -> V] |-> Value(x[2], x[1])]
           IsAbove(f) == f = [t \in AllTasks |-> Value(f, t)]
<1>1. rank \in [AllTasks -> 0..Project]
    BY <1>0
<1>2. ASSUME NEW g \in [AllTasks -> V], NEW t \in AllTasks PROVE Value(g, t) \in V
    <2>1. CASE up[t] = NoTask
        BY <2>1
    <2>2. CASE up[t] # NoTask
        BY <2>2, <1>0
    <2> QED BY <2>1, <2>2
<1>3. step \in [AllTasks \X [AllTasks -> V] -> V]
    <2> HIDE DEF V, Value
    <2> QED BY <1>2
<1>4. \A t \in AllTasks : \A g, h \in [AllTasks -> V] :
         (\A u \in AllTasks : rank[u] < rank[t] => g[u] = h[u]) => step[<<t, g>>] = step[<<t, h>>]
    <2> SUFFICES ASSUME NEW t \in AllTasks, NEW g \in [AllTasks -> V], NEW h \in [AllTasks -> V],
                        \A u \in AllTasks : rank[u] < rank[t] => g[u] = h[u]
                 PROVE  step[<<t, g>>] = step[<<t, h>>]
        OBVIOUS
    <2>1. up[t] # NoTask => g[up[t]] = h[up[t]]
        BY <1>0
    <2>2. Value(g, t) = Value(h, t)
        BY <2>1
    <2> HIDE DEF V, Value
    <2> QED BY <2>2
<1>5. PICK f \in [AllTasks -> V] : \A t \in AllTasks : f[t] = step[<<t, f>>]
    <2>1. V # {}
        <3>1. << >> \in V
            OBVIOUS
        <3> QED BY <3>1
    <2>2. Project \in Nat
        BY <1>0
    <2> HIDE DEF V, rank, step
    <2>3. Recursion(AllTasks, V, Project, rank, step)
        BY <1>1, <1>3, <1>4, <2>1, <2>2 DEF Recursion
    <2> QED BY <2>3, RecursionExists
<1>6. IsAbove(f)
    <2>1. \A t \in AllTasks : f[t] = Value(f, t)
        <3> HIDE DEF V, Value
        <3> QED BY <1>5
    <2> HIDE DEF Value
    <2> QED BY <1>5, <2>1
<1>7. PICK above : IsAbove(above) /\ Chain(leaf) = above[leaf]
    <2>1. IsAbove(CHOOSE g : IsAbove(g))
        <3> HIDE DEF IsAbove
        <3> QED BY <1>6
    <2>2. Chain(leaf) = (CHOOSE g : IsAbove(g))[leaf]
        BY DEF Chain
    <2> HIDE DEF IsAbove
    <2> QED BY <2>1, <2>2
<1>8. \A t \in AllTasks : above[t] = Value(above, t)
    BY <1>7
<1> DEFINE Right == {k \in Nat : \A t \in AllTasks : Project - t <= k => Upward(above[t], t)}
<1> HIDE DEF Value
<1>9. ASSUME NEW t \in AllTasks, up[t] # NoTask => Upward(above[up[t]], up[t])
      PROVE  Upward(above[t], t)
    <2>1. CASE up[t] = NoTask
        <3>1. above[t] = <<t>>
            BY <2>1, <1>8 DEF Value
        <3> QED BY <2>1, <3>1 DEF Upward
    <2>2. CASE up[t] # NoTask
        <3> DEFINE d == above[up[t]]
                   c == above[t]
        <3>1. c = <<t>> \o d
            BY <2>2, <1>8 DEF Value
        <3>2. d \in Seq(AllTasks) /\ Len(d) >= 1 /\ d[1] = up[t]
            BY <1>9, <2>2 DEF Upward
        <3>3. (\A i \in 1..(Len(d) - 1) : d[i + 1] = up[d[i]]) /\ up[d[Len(d)]] = NoTask
            BY <1>9, <2>2 DEF Upward
        <3> HIDE DEF c, d
        <3>4. c \in Seq(AllTasks) /\ Len(c) = Len(d) + 1 /\ c[1] = t
              /\ \A i \in 2..Len(c) : c[i] = d[i - 1]
            BY <3>1, <3>2
        <3>5. ASSUME NEW i \in 1..(Len(c) - 1) PROVE c[i + 1] = up[c[i]]
            <4>1. Len(d) \in Nat /\ i + 1 \in 2..Len(c) /\ c[i + 1] = d[i]
                BY <3>2, <3>4
            <4>2. CASE i = 1
                BY <4>1, <4>2, <3>2, <3>4
            <4>3. CASE i # 1
                <5>1. i - 1 \in 1..(Len(d) - 1) /\ i \in 2..Len(c)
                    BY <4>1, <4>3, <3>4, SMTT(30)
                <5>2. d[(i - 1) + 1] = up[d[i - 1]] /\ (i - 1) + 1 = i
                    BY <5>1, <3>3
                <5> QED BY <5>1, <5>2, <4>1, <3>4
            <4> QED BY <4>2, <4>3
        <3>6. Len(c) >= 1
            BY <3>2, <3>4
        <3>7. up[c[Len(c)]] = NoTask
            <4>1. Len(c) \in 2..Len(c) /\ Len(c) - 1 = Len(d)
                BY <3>2, <3>4
            <4> QED BY <3>3, <3>4, <4>1
        <3> QED BY <3>4, <3>5, <3>6, <3>7 DEF Upward, c
    <2> QED BY <2>1, <2>2
<1>10. 0 \in Right
    <2> SUFFICES ASSUME NEW t \in AllTasks, Project - t <= 0 PROVE Upward(above[t], t)
        OBVIOUS
    <2>1. up[t] = NoTask
        BY <1>0
    <2> QED BY <1>9, <2>1
<1>11. ASSUME NEW k \in Right PROVE k + 1 \in Right
    <2> SUFFICES ASSUME NEW t \in AllTasks, Project - t <= k + 1 PROVE Upward(above[t], t)
        OBVIOUS
    <2>1. up[t] # NoTask => up[t] \in AllTasks /\ Project - up[t] <= k
        BY <1>0
    <2> QED BY <1>9, <2>1
<1>12. Right = Nat
    <2>1. Right \in SUBSET Nat
        OBVIOUS
    <2> HIDE DEF Right
    <2> QED BY <1>10, <1>11, <2>1, NaturalsByStep
<1>13. Upward(above[leaf], leaf)
    <2>1. Project - leaf \in Nat /\ Project - leaf <= Project - leaf
        BY <1>0
    <2>2. Project - leaf \in Right
        <3> HIDE DEF Right
        <3> QED BY <2>1, <1>12
    <2> QED BY <2>1, <2>2
<1> QED BY <1>7, <1>13

-----------------------------------------------------------------------------
(* Numbers of a task.                                                      *)
LEMMA NumbersOfTask ==
    ASSUME ChainTypeOK, NEW t \in AllTasks
    PROVE  /\ Alone(t) \in Int /\ Remaining(t) \in Nat
           /\ attr[t].ddl \in Int /\ attr[t].ddl <= Never
<1>1. /\ attr[t].start \in Int /\ attr[t].wait \in Int /\ attr[t].pending \in BOOLEAN
      /\ attr[t].ddl \in Int /\ attr[t].ddl <= Never /\ attr[t].est \in Nat /\ attr[t].act \in Nat
    BY DEF ChainTypeOK, Attributes
<1> QED BY <1>1 DEF Alone, Remaining, Larger

\* Where the first pass puts the tasks.
IsRough(c, r) ==
    /\ r \in [1..Len(c) -> Int]
    /\ \A i \in 1..Len(c) :
          r[i] = IF i = 1 THEN Alone(c[1])
                 ELSE Larger(r[i - 1] + Remaining(c[i - 1]), Alone(c[i]))

(* The first pass: the recursion of Rough has a value, a time for each     *)
(* task.                                                                   *)
LEMMA RoughIs ==
    ASSUME ChainTypeOK, NEW c \in Seq(AllTasks), Len(c) >= 1
    PROVE  IsRough(c, Rough(c))
<1> DEFINE n == Len(c)
           S == 1..n
           Value(g, i) == IF i = 1 THEN Alone(c[1])
                          ELSE Larger(g[i - 1] + Remaining(c[i - 1]), Alone(c[i]))
           rank == [i \in S |-> i]
           step == [x \in S \X [S -> Int] |-> Value(x[2], x[1])]
           Is(r) == r = [i \in S |-> Value(r, i)]
<1>1. n \in Nat /\ n >= 1 /\ DOMAIN c = S
    OBVIOUS
<1>2. \A i \in S : Alone(c[i]) \in Int /\ Remaining(c[i]) \in Nat
    BY NumbersOfTask
<1> HIDE DEF n
<1>3. ASSUME NEW i \in S, NEW g \in [S -> Int] PROVE Value(g, i) \in Int
    <2>1. i # 1 => i - 1 \in S /\ g[i - 1] \in Int
        BY <1>1
    <2> QED BY <1>1, <1>2, <2>1 DEF Larger
<1>4. ASSUME NEW i \in S, NEW g \in [S -> Int], NEW h \in [S -> Int],
             \A j \in S : rank[j] < rank[i] => g[j] = h[j]
      PROVE  Value(g, i) = Value(h, i)
    <2>1. i # 1 => i - 1 \in S /\ g[i - 1] = h[i - 1]
        BY <1>1, <1>4
    <2> QED BY <2>1
<1> HIDE DEF Value
<1>5. Recursion(S, Int, n, rank, step)
    <2>1. step \in [S \X [S -> Int] -> Int]
        BY <1>3
    <2>2. rank \in [S -> 0..n] /\ n \in Nat
        BY <1>1
    <2>4. Int # {}
        OBVIOUS
    <2>3. \A i \in S : \A g, h \in [S -> Int] :
              (\A j \in S : rank[j] < rank[i] => g[j] = h[j]) => step[<<i, g>>] = step[<<i, h>>]
        <3> SUFFICES ASSUME NEW i \in S, NEW g \in [S -> Int], NEW h \in [S -> Int],
                            \A j \in S : rank[j] < rank[i] => g[j] = h[j]
                     PROVE  step[<<i, g>>] = step[<<i, h>>]
            OBVIOUS
        <3>1. Value(g, i) = Value(h, i)
            BY <1>4
        <3> QED BY <3>1
    <2> HIDE DEF S, rank, step
    <2> QED BY <2>1, <2>2, <2>3, <2>4 DEF Recursion
<1>6. PICK f \in [S -> Int] : \A i \in S : f[i] = step[<<i, f>>]
    <2> HIDE DEF S, rank, step
    <2> QED BY <1>5, RecursionExists
<1>7. Is(f)
    <2>1. \A i \in S : f[i] = Value(f, i)
        BY <1>6
    <2> QED BY <1>6, <2>1
<1>8. Rough(c) = CHOOSE r : Is(r)
    BY <1>1 DEF Rough, Value
<1>9. Is(CHOOSE r : Is(r))
    <2> HIDE DEF Is
    <2> QED BY <1>7
<1>10. PICK r : r = Rough(c) /\ Is(r)
    <2> HIDE DEF Is
    <2> QED BY <1>8, <1>9
<1>11. r \in [S -> Int]
    <2>1. DOMAIN r = S /\ \A i \in S : r[i] = Value(r, i)
        BY <1>10
    <2> DEFINE Good == {i \in S : r[i] \in Int}
    <2>2. \A i \in S : (\A j \in S : rank[j] < rank[i] => j \in Good) => i \in Good
        <3> SUFFICES ASSUME NEW i \in S, \A j \in S : rank[j] < rank[i] => j \in Good
                     PROVE  r[i] \in Int
            OBVIOUS
        <3>1. i # 1 => i - 1 \in S /\ r[i - 1] \in Int
            BY <1>1
        <3> QED BY <1>1, <1>2, <2>1, <3>1 DEF Value, Larger
    <2>3. n \in Nat /\ rank \in [S -> 0..n] /\ Good \in SUBSET S
        BY <1>1
    <2>4. Good = S
        <3> HIDE DEF Good, S, rank
        <3>1. Inherited(Good, S, n, rank)
            BY <2>2, <2>3 DEF Inherited
        <3> QED BY <3>1, RankInduction
    <2>6. \A i \in S : r[i] \in Int
        BY <2>4
    <2>7. r = [i \in S |-> r[i]]
        BY <1>10
    <2> QED BY <2>6, <2>7
<1>12. \A i \in S : r[i] = Value(r, i)
    BY <1>10
<1> QED BY <1>10, <1>11, <1>12 DEF IsRough, Value, n

\* The time by which a task has to begin for its deadline and for what is above
\* it, when the latter is to begin at a given time.
Latest(c, i, limit) == Smaller(limit, attr[c[i]].ddl) - Remaining(c[i])

\* Where the second pass puts the tasks.
IsOnTime(c, r, o) ==
    /\ o \in [1..Len(c) -> [at : Int, before : Int]]
    /\ \A i \in 1..Len(c) :
          LET limit == IF i = Len(c) THEN Never ELSE o[i + 1].before
              latest == Latest(c, i, limit)
          IN  o[i] = IF r[i] >= latest THEN [at |-> latest, before |-> latest]
                     ELSE [at |-> r[i], before |-> limit]

(* The second pass, from the root down.                                    *)
LEMMA OnTimeIs ==
    ASSUME ChainTypeOK, Never \in Int, NEW c \in Seq(AllTasks), Len(c) >= 1,
           IsRough(c, Rough(c))
    PROVE  IsOnTime(c, Rough(c), OnTime(c))
<1> DEFINE n == Len(c)
           S == 1..n
           V == [at : Int, before : Int]
           rough == Rough(c)
           Before(g, i) == IF i = n THEN Never ELSE g[i + 1].before
           Value(g, i) == IF rough[i] >= Latest(c, i, Before(g, i))
                          THEN [at |-> Latest(c, i, Before(g, i)), before |-> Latest(c, i, Before(g, i))]
                          ELSE [at |-> rough[i], before |-> Before(g, i)]
           rank == [i \in S |-> n - i]
           step == [x \in S \X [S -> V] |-> Value(x[2], x[1])]
           Is(o) == o = [i \in S |-> Value(o, i)]
<1>1. n \in Nat /\ n >= 1 /\ DOMAIN c = S /\ rough \in [S -> Int]
    BY DEF IsRough
<1>2. \A i \in S : attr[c[i]].ddl \in Int /\ Remaining(c[i]) \in Nat
    BY NumbersOfTask
<1> HIDE DEF n, rough
<1>3. ASSUME NEW i \in S, NEW g, i # n => g[i + 1] \in V PROVE Value(g, i) \in V
    <2>1. Before(g, i) \in Int
        BY <1>3
    <2> HIDE DEF Before
    <2>2. Latest(c, i, Before(g, i)) \in Int
        BY <1>2, <2>1 DEF Latest, Smaller
    <2>3. rough[i] \in Int
        BY <1>1
    <2> QED BY <2>1, <2>2, <2>3
<1>4. ASSUME NEW i \in S, NEW g, NEW h, i # n => g[i + 1] = h[i + 1]
      PROVE  Value(g, i) = Value(h, i)
    <2>1. Before(g, i) = Before(h, i)
        BY <1>4
    <2> HIDE DEF Before
    <2> QED BY <2>1
<1>5. ASSUME NEW i \in S, i # n PROVE i + 1 \in S /\ rank[i + 1] < rank[i]
    BY <1>1, <1>5
<1> HIDE DEF Value
<1>6. rank \in [S -> 0..n]
    BY <1>1
<1>7. Recursion(S, V, n, rank, step)
    <2>1. step \in [S \X [S -> V] -> V]
        <3> SUFFICES ASSUME NEW i \in S, NEW g \in [S -> V] PROVE Value(g, i) \in V
            OBVIOUS
        <3>1. i # n => g[i + 1] \in V
            BY <1>5
        <3> HIDE DEF V
        <3> QED BY <1>3, <3>1
    <2>2. V # {}
        <3>1. [at |-> 0, before |-> 0] \in V
            OBVIOUS
        <3> QED BY <3>1
    <2>3. \A i \in S : \A g, h \in [S -> V] :
              (\A j \in S : rank[j] < rank[i] => g[j] = h[j]) => step[<<i, g>>] = step[<<i, h>>]
        <3> SUFFICES ASSUME NEW i \in S, NEW g \in [S -> V], NEW h \in [S -> V],
                            \A j \in S : rank[j] < rank[i] => g[j] = h[j]
                     PROVE  step[<<i, g>>] = step[<<i, h>>]
            OBVIOUS
        <3>1. i # n => g[i + 1] = h[i + 1]
            <4> HIDE DEF S, rank
            <4> QED BY <1>5
        <3>2. Value(g, i) = Value(h, i)
            BY <1>4, <3>1
        <3> QED BY <3>2
    <2> HIDE DEF S, V, rank, step
    <2> QED BY <1>1, <1>6, <2>1, <2>2, <2>3 DEF Recursion
<1>8. PICK f \in [S -> V] : \A i \in S : f[i] = step[<<i, f>>]
    <2> HIDE DEF S, V, rank, step
    <2> QED BY <1>7, RecursionExists
<1>9. Is(f)
    <2>1. \A i \in S : f[i] = Value(f, i)
        <3> HIDE DEF V
        <3> QED BY <1>8
    <2> QED BY <1>8, <2>1
<1>10. PICK o : o = OnTime(c) /\ Is(o)
    <2>1. OnTime(c) = CHOOSE o : Is(o)
        BY <1>1 DEF OnTime, Value, Latest, n, rough
    <2>2. Is(CHOOSE o : Is(o))
        <3> HIDE DEF Is
        <3> QED BY <1>9
    <2> HIDE DEF Is
    <2> QED BY <2>1, <2>2
<1>11. DOMAIN o = S /\ \A i \in S : o[i] = Value(o, i)
    BY <1>10
<1>12. o \in [S -> V]
    <2> DEFINE Good == {i \in S : o[i] \in V}
    <2>1. \A i \in S : (\A j \in S : rank[j] < rank[i] => j \in Good) => i \in Good
        <3> SUFFICES ASSUME NEW i \in S, \A j \in S : rank[j] < rank[i] => j \in Good
                     PROVE  o[i] \in V
            OBVIOUS
        <3>1. i # n => o[i + 1] \in V
            <4> HIDE DEF S, V, rank
            <4> QED BY <1>5
        <3> HIDE DEF V
        <3> QED BY <1>3, <1>11, <3>1
    <2>2. Good = S
        <3> HIDE DEF Good, S, rank
        <3>1. Inherited(Good, S, n, rank)
            BY <1>1, <1>6, <2>1 DEF Inherited, Good
        <3> QED BY <3>1, RankInduction
    <2>3. \A i \in S : o[i] \in V
        BY <2>2
    <2>4. o = [i \in S |-> o[i]]
        BY <1>10
    <2> HIDE DEF V
    <2> QED BY <2>3, <2>4
<1> QED BY <1>10, <1>11, <1>12 DEF IsOnTime, Value, n, rough

\* Where the third pass puts the tasks.
IsFirstAvailable(c, o, f) ==
    /\ f \in [1..Len(c) -> Int]
    /\ \A i \in 1..Len(c) :
          LET own == Smaller(o[i].at, Alone(c[i]))
          IN  f[i] = IF i = 1 THEN own ELSE Larger(own, f[i - 1] + Remaining(c[i - 1]))

(* The third pass, from the leaf up.                                       *)
LEMMA FirstAvailableIs ==
    ASSUME ChainTypeOK, NEW c \in Seq(AllTasks), Len(c) >= 1,
           IsOnTime(c, Rough(c), OnTime(c))
    PROVE  IsFirstAvailable(c, OnTime(c), FirstAvailable(c))
<1> DEFINE n == Len(c)
           S == 1..n
           ontime == OnTime(c)
           OwnTime(i) == Smaller(ontime[i].at, Alone(c[i]))
           Value(g, i) == IF i = 1 THEN OwnTime(i) ELSE Larger(OwnTime(i), g[i - 1] + Remaining(c[i - 1]))
           rank == [i \in S |-> i]
           step == [x \in S \X [S -> Int] |-> Value(x[2], x[1])]
           Is(r) == r = [i \in S |-> Value(r, i)]
<1>1. n \in Nat /\ n >= 1 /\ DOMAIN c = S
    OBVIOUS
<1>2. \A i \in S : OwnTime(i) \in Int /\ Remaining(c[i]) \in Nat
    <2> TAKE i \in S
    <2>1. Alone(c[i]) \in Int /\ Remaining(c[i]) \in Nat
        BY NumbersOfTask
    <2>2. ontime[i].at \in Int
        BY DEF IsOnTime
    <2> QED BY <2>1, <2>2 DEF Smaller
<1> HIDE DEF n, OwnTime
<1>3. ASSUME NEW i \in S, NEW g, i # 1 => g[i - 1] \in Int PROVE Value(g, i) \in Int
    <2>1. i # 1 => i - 1 \in S
        BY <1>1
    <2> QED BY <1>1, <1>2, <1>3, <2>1 DEF Larger
<1>4. ASSUME NEW i \in S, NEW g, NEW h, i # 1 => g[i - 1] = h[i - 1]
      PROVE  Value(g, i) = Value(h, i)
    BY <1>4
<1>5. ASSUME NEW i \in S, i # 1 PROVE i - 1 \in S /\ rank[i - 1] < rank[i]
    BY <1>1, <1>5
<1> HIDE DEF Value
<1>6. rank \in [S -> 0..n]
    BY <1>1
<1>7. Recursion(S, Int, n, rank, step)
    <2>1. step \in [S \X [S -> Int] -> Int]
        <3> SUFFICES ASSUME NEW i \in S, NEW g \in [S -> Int] PROVE Value(g, i) \in Int
            OBVIOUS
        <3>1. i # 1 => g[i - 1] \in Int
            BY <1>5
        <3> QED BY <1>3, <3>1
    <2>2. Int # {}
        OBVIOUS
    <2>3. \A i \in S : \A g, h \in [S -> Int] :
              (\A j \in S : rank[j] < rank[i] => g[j] = h[j]) => step[<<i, g>>] = step[<<i, h>>]
        <3> SUFFICES ASSUME NEW i \in S, NEW g \in [S -> Int], NEW h \in [S -> Int],
                            \A j \in S : rank[j] < rank[i] => g[j] = h[j]
                     PROVE  step[<<i, g>>] = step[<<i, h>>]
            OBVIOUS
        <3>1. i # 1 => g[i - 1] = h[i - 1]
            <4> HIDE DEF S, rank
            <4> QED BY <1>5
        <3>2. Value(g, i) = Value(h, i)
            BY <1>4, <3>1
        <3> QED BY <3>2
    <2> HIDE DEF S, rank, step
    <2> QED BY <1>1, <1>6, <2>1, <2>2, <2>3 DEF Recursion
<1>8. PICK f \in [S -> Int] : \A i \in S : f[i] = step[<<i, f>>]
    <2> HIDE DEF S, rank, step
    <2> QED BY <1>7, RecursionExists
<1>9. Is(f)
    <2>1. \A i \in S : f[i] = Value(f, i)
        BY <1>8
    <2> QED BY <1>8, <2>1
<1>10. PICK r : r = FirstAvailable(c) /\ Is(r)
    <2>1. FirstAvailable(c) = CHOOSE r : Is(r)
        BY <1>1 DEF FirstAvailable, Value, OwnTime
    <2>2. Is(CHOOSE r : Is(r))
        <3> HIDE DEF Is
        <3> QED BY <1>9
    <2> HIDE DEF Is
    <2> QED BY <2>1, <2>2
<1>11. DOMAIN r = S /\ \A i \in S : r[i] = Value(r, i)
    BY <1>10
<1>12. r \in [S -> Int]
    <2> DEFINE Good == {i \in S : r[i] \in Int}
    <2>1. \A i \in S : (\A j \in S : rank[j] < rank[i] => j \in Good) => i \in Good
        <3> SUFFICES ASSUME NEW i \in S, \A j \in S : rank[j] < rank[i] => j \in Good
                     PROVE  r[i] \in Int
            OBVIOUS
        <3>1. i # 1 => r[i - 1] \in Int
            <4> HIDE DEF S, rank
            <4> QED BY <1>5
        <3> QED BY <1>3, <1>11, <3>1
    <2>2. Good = S
        <3> HIDE DEF Good, S, rank
        <3>1. Inherited(Good, S, n, rank)
            BY <1>1, <1>6, <2>1 DEF Inherited, Good
        <3> QED BY <3>1, RankInduction
    <2>3. \A i \in S : r[i] \in Int
        BY <2>2
    <2>4. r = [i \in S |-> r[i]]
        BY <1>10
    <2> QED BY <2>3, <2>4
<1> QED BY <1>10, <1>11, <1>12 DEF IsFirstAvailable, Value, OwnTime, n

\* The work up to each task of a chain.
IsWorkUpTo(c, s) ==
    /\ s \in [1..Len(c) -> Int]
    /\ \A i \in 1..Len(c) : s[i] = Remaining(c[i]) + IF i = 1 THEN 0 ELSE s[i - 1]

\* Their sums.
WorkUpTo(c) ==
    LET sum[i \in DOMAIN c] == Remaining(c[i]) + IF i = 1 THEN 0 ELSE sum[i - 1]
    IN  sum

(* The work up to each task is a number.                                   *)
LEMMA WorkUpToIs ==
    ASSUME ChainTypeOK, NEW c \in Seq(AllTasks), Len(c) >= 1
    PROVE  IsWorkUpTo(c, WorkUpTo(c))
<1> DEFINE n == Len(c)
           S == 1..n
           Value(g, i) == Remaining(c[i]) + IF i = 1 THEN 0 ELSE g[i - 1]
           rank == [i \in S |-> i]
           step == [x \in S \X [S -> Int] |-> Value(x[2], x[1])]
           Is(r) == r = [i \in S |-> Value(r, i)]
<1>1. n \in Nat /\ n >= 1 /\ DOMAIN c = S
    OBVIOUS
<1>2. \A i \in S : Remaining(c[i]) \in Nat
    BY NumbersOfTask
<1> HIDE DEF n
<1>3. ASSUME NEW i \in S, NEW g, i # 1 => g[i - 1] \in Int PROVE Value(g, i) \in Int
    BY <1>1, <1>2, <1>3
<1>4. ASSUME NEW i \in S, NEW g, NEW h, i # 1 => g[i - 1] = h[i - 1]
      PROVE  Value(g, i) = Value(h, i)
    BY <1>4
<1>5. ASSUME NEW i \in S, i # 1 PROVE i - 1 \in S /\ rank[i - 1] < rank[i]
    BY <1>1, <1>5
<1> HIDE DEF Value
<1>6. rank \in [S -> 0..n]
    BY <1>1
<1>7. Recursion(S, Int, n, rank, step)
    <2>1. step \in [S \X [S -> Int] -> Int]
        <3> SUFFICES ASSUME NEW i \in S, NEW g \in [S -> Int] PROVE Value(g, i) \in Int
            OBVIOUS
        <3>1. i # 1 => g[i - 1] \in Int
            BY <1>5
        <3> QED BY <1>3, <3>1
    <2>2. Int # {}
        OBVIOUS
    <2>3. \A i \in S : \A g, h \in [S -> Int] :
              (\A j \in S : rank[j] < rank[i] => g[j] = h[j]) => step[<<i, g>>] = step[<<i, h>>]
        <3> SUFFICES ASSUME NEW i \in S, NEW g \in [S -> Int], NEW h \in [S -> Int],
                            \A j \in S : rank[j] < rank[i] => g[j] = h[j]
                     PROVE  step[<<i, g>>] = step[<<i, h>>]
            OBVIOUS
        <3>1. i # 1 => g[i - 1] = h[i - 1]
            <4> HIDE DEF S, rank
            <4> QED BY <1>5
        <3>2. Value(g, i) = Value(h, i)
            BY <1>4, <3>1
        <3> QED BY <3>2
    <2> HIDE DEF S, rank, step
    <2> QED BY <1>1, <1>6, <2>1, <2>2, <2>3 DEF Recursion
<1>8. PICK f \in [S -> Int] : \A i \in S : f[i] = step[<<i, f>>]
    <2> HIDE DEF S, rank, step
    <2> QED BY <1>7, RecursionExists
<1>9. Is(f)
    <2>1. \A i \in S : f[i] = Value(f, i)
        BY <1>8
    <2> QED BY <1>8, <2>1
<1>10. PICK r : r = WorkUpTo(c) /\ Is(r)
    <2>1. WorkUpTo(c) = CHOOSE r : Is(r)
        BY <1>1 DEF WorkUpTo, Value
    <2>2. Is(CHOOSE r : Is(r))
        <3> HIDE DEF Is
        <3> QED BY <1>9
    <2> HIDE DEF Is
    <2> QED BY <2>1, <2>2
<1>11. DOMAIN r = S /\ \A i \in S : r[i] = Value(r, i)
    BY <1>10
<1>12. r \in [S -> Int]
    <2> DEFINE Good == {i \in S : r[i] \in Int}
    <2>1. \A i \in S : (\A j \in S : rank[j] < rank[i] => j \in Good) => i \in Good
        <3> SUFFICES ASSUME NEW i \in S, \A j \in S : rank[j] < rank[i] => j \in Good
                     PROVE  r[i] \in Int
            OBVIOUS
        <3>1. i # 1 => r[i - 1] \in Int
            <4> HIDE DEF S, rank
            <4> QED BY <1>5
        <3> QED BY <1>3, <1>11, <3>1
    <2>2. Good = S
        <3> HIDE DEF Good, S, rank
        <3>1. Inherited(Good, S, n, rank)
            BY <1>1, <1>6, <2>1 DEF Inherited, Good
        <3> QED BY <3>1, RankInduction
    <2>3. \A i \in S : r[i] \in Int
        BY <2>2
    <2>4. r = [i \in S |-> r[i]]
        BY <1>10
    <2> QED BY <2>3, <2>4
<1> QED BY <1>10, <1>11, <1>12 DEF IsWorkUpTo, Value, n

(* What the passes make of a chain.                                        *)
LEMMA PassesFit ==
    ASSUME ChainTypeOK, Never \in Int, NEW c \in Seq(AllTasks), Len(c) >= 1,
           NEW f, f = FirstAvailable(c), NEW s, s = WorkUpTo(c)
    PROVE  /\ f \in [1..Len(c) -> Int]
           /\ \A i, j \in 1..Len(c) : i <= j => f[i] + Remaining(c[i]) <= attr[c[j]].ddl
           /\ \A i, j \in 1..Len(c) : i < j => f[i] + Remaining(c[i]) <= f[j]
           /\ \A i \in 1..Len(c) : f[i] < Alone(c[i]) =>
                 \E j \in i..Len(c) : f[i] + s[j] - s[i] + Remaining(c[i]) = attr[c[j]].ddl
<1> DEFINE n == Len(c)
           S == 1..n
           r == Rough(c)
           o == OnTime(c)
           R(i) == Remaining(c[i])
           A(i) == Alone(c[i])
           D(i) == attr[c[i]].ddl
           B(i) == IF i = n THEN Never ELSE o[i + 1].before
           L(i) == Latest(c, i, B(i))
           up1 == [i \in S |-> i]
           down == [i \in S |-> n - i]
<1>1. IsRough(c, r) /\ IsOnTime(c, r, o) /\ IsFirstAvailable(c, o, f) /\ IsWorkUpTo(c, s)
    BY RoughIs, OnTimeIs, FirstAvailableIs, WorkUpToIs
<1>2. n \in Nat /\ n >= 1
    OBVIOUS
<1>3. ASSUME NEW i \in S PROVE R(i) \in Nat /\ A(i) \in Int /\ D(i) \in Int /\ D(i) <= Never
    BY NumbersOfTask
<1>4. ASSUME NEW i \in S
      PROVE  r[i] \in Int /\ o[i].at \in Int /\ o[i].before \in Int /\ f[i] \in Int /\ s[i] \in Int
    BY <1>1 DEF IsRough, IsOnTime, IsFirstAvailable, IsWorkUpTo
<1>5. ASSUME NEW i \in S, i # 1
      PROVE  /\ i - 1 \in S /\ r[i] >= r[i - 1] + R(i - 1)
             /\ f[i] >= f[i - 1] + R(i - 1) /\ s[i] = R(i) + s[i - 1]
             /\ f[i] = f[i - 1] + R(i - 1) \/ (f[i] <= o[i].at /\ f[i] <= A(i))
    <2>1. i - 1 \in S
        BY <1>2, <1>5
    <2>2. /\ r[i] = Larger(r[i - 1] + R(i - 1), A(i)) /\ s[i] = R(i) + s[i - 1]
          /\ f[i] = Larger(Smaller(o[i].at, A(i)), f[i - 1] + R(i - 1))
        BY <1>1, <1>5 DEF IsRough, IsFirstAvailable, IsWorkUpTo
    <2> HIDE DEF R, A, r, o, n
    <2> QED BY <2>1, <2>2, <1>3, <1>4, SMTT(30) DEF Larger, Smaller
<1>6. ASSUME NEW i \in S
      PROVE  /\ r[i] >= A(i)
             /\ f[i] >= o[i].at \/ f[i] >= A(i)
             /\ i = 1 => f[i] <= o[i].at
    <2>1. /\ i = 1 => r[i] = A(i) /\ f[i] = Smaller(o[i].at, A(i))
          /\ i # 1 => /\ r[i] = Larger(r[i - 1] + R(i - 1), A(i))
                      /\ f[i] = Larger(Smaller(o[i].at, A(i)), f[i - 1] + R(i - 1))
        BY <1>1 DEF IsRough, IsFirstAvailable
    <2>2. i # 1 => i - 1 \in S
        BY <1>2
    <2> HIDE DEF R, A, r, o, n
    <2> QED BY <2>1, <2>2, <1>3, <1>4 DEF Larger, Smaller
<1>7. ASSUME NEW i \in S
      PROVE  /\ B(i) \in Int /\ L(i) \in Int
             /\ L(i) + R(i) = B(i) \/ L(i) + R(i) = D(i)
             /\ L(i) + R(i) <= B(i) /\ L(i) + R(i) <= D(i)
             /\ r[i] >= L(i) => o[i].at = L(i) /\ o[i].before = L(i)
             /\ r[i] < L(i) => o[i].at = r[i] /\ o[i].before = B(i)
    <2>1. i # n => i + 1 \in S
        BY <1>2
    <2>2. B(i) \in Int
        BY <2>1, <1>4
    <2>3. o[i] = IF r[i] >= L(i) THEN [at |-> L(i), before |-> L(i)] ELSE [at |-> r[i], before |-> B(i)]
        BY <1>1 DEF IsOnTime
    <2>4. L(i) = Smaller(B(i), D(i)) - R(i)
        BY DEF Latest
    <2> HIDE DEF R, D, B, L, r, o, n
    <2>5. L(i) \in Int /\ (L(i) + R(i) = B(i) \/ L(i) + R(i) = D(i)) /\ L(i) + R(i) <= B(i) /\ L(i) + R(i) <= D(i)
        BY <2>2, <2>4, <1>3 DEF Smaller
    <2>6. /\ r[i] >= L(i) => o[i].at = L(i) /\ o[i].before = L(i)
          /\ r[i] < L(i) => o[i].at = r[i] /\ o[i].before = B(i)
        BY <2>3, <2>5, <1>4
    <2> QED BY <2>2, <2>5, <2>6
<1>8. /\ \A i \in S : i # n => i + 1 \in S /\ B(i) = o[i + 1].before
      /\ B(n) = Never /\ n \in S
    BY <1>2
<1> HIDE DEF n, r, o, R, A, D, B, L
<1>9. ASSUME NEW i \in S PROVE o[i].at <= r[i] /\ o[i].at + R(i) <= B(i) /\ o[i].at + R(i) <= D(i)
    BY <1>3, <1>4, <1>7
<1>10. ASSUME NEW i \in S, i # 1 PROVE o[i - 1].at + R(i - 1) <= o[i].at
    <2>1. i - 1 \in S /\ i - 1 # n /\ (i - 1) + 1 = i
        BY <1>2, <1>5, <1>10
    <2>2. B(i - 1) = o[i].before
        BY <1>8, <2>1
    <2>3. CASE r[i] >= L(i)
        <3>1. o[i].at = o[i].before
            BY <1>7, <2>3
        <3> QED BY <1>9, <2>1, <2>2, <3>1
    <2>4. CASE r[i] < L(i)
        <3>1. o[i].at = r[i]
            BY <1>7, <2>4
        <3>2. r[i] >= r[i - 1] + R(i - 1)
            BY <1>5, <1>10
        <3>3. o[i - 1].at <= r[i - 1]
            BY <1>9, <2>1
        <3>4. o[i - 1].at \in Int /\ r[i - 1] \in Int /\ R(i - 1) \in Int /\ r[i] \in Int
            BY <1>3, <1>4, <2>1
        <3> QED BY <3>1, <3>2, <3>3, <3>4
    <2> QED BY <1>4, <1>7, <2>3, <2>4
<1>11. up1 \in [S -> 0..n] /\ down \in [S -> 0..n]
    BY <1>2
<1>12. \A i \in S : f[i] <= o[i].at
    <2> DEFINE Good == {i \in S : f[i] <= o[i].at}
    <2>1. \A i \in S : (\A j \in S : up1[j] < up1[i] => j \in Good) => i \in Good
        <3> SUFFICES ASSUME NEW i \in S, \A j \in S : up1[j] < up1[i] => j \in Good
                     PROVE  f[i] <= o[i].at
            OBVIOUS
        <3>1. CASE i = 1
            BY <1>6, <3>1
        <3>2. CASE i # 1
            <4>1. i - 1 \in S /\ f[i - 1] <= o[i - 1].at
                BY <1>2, <1>5, <3>2
            <4>2. o[i - 1].at + R(i - 1) <= o[i].at
                BY <1>10, <3>2
            <4>3. f[i] = f[i - 1] + R(i - 1) \/ f[i] <= o[i].at
                BY <1>5, <3>2
            <4>4. /\ f[i - 1] \in Int /\ R(i - 1) \in Int /\ o[i - 1].at \in Int
                  /\ o[i].at \in Int /\ f[i] \in Int
                BY <1>3, <1>4, <4>1
            <4> QED BY <4>1, <4>2, <4>3, <4>4
        <3> QED BY <3>1, <3>2
    <2> HIDE DEF S, up1
    <2>2. Good = S
        <3>1. Inherited(Good, S, n, up1)
            BY <1>2, <1>11, <2>1 DEF Inherited
        <3> HIDE DEF Good
        <3> QED BY <3>1, RankInduction
    <2> QED BY <2>2
<1>13. \A i, j \in S : i < j => o[i].at + R(i) <= o[j].at /\ f[i] + R(i) <= f[j]
    <2> DEFINE Good == {j \in S : \A i \in S : i < j => o[i].at + R(i) <= o[j].at /\ f[i] + R(i) <= f[j]}
    <2>1. \A j \in S : (\A k \in S : up1[k] < up1[j] => k \in Good) => j \in Good
        <3> SUFFICES ASSUME NEW j \in S, \A k \in S : up1[k] < up1[j] => k \in Good,
                            NEW i \in S, i < j
                     PROVE  o[i].at + R(i) <= o[j].at /\ f[i] + R(i) <= f[j]
            OBVIOUS
        <3>1. j # 1 /\ i \in Nat /\ j \in Nat
            BY <1>2
        <3>2. /\ j - 1 \in S /\ o[j - 1].at + R(j - 1) <= o[j].at /\ f[j - 1] + R(j - 1) <= f[j]
            BY <1>5, <1>10, <3>1
        <3>3. CASE i = j - 1
            BY <3>2, <3>3
        <3>4. CASE i < j - 1
            <4>1. up1[j - 1] < up1[j]
                BY <3>1, <3>2
            <4>2. o[i].at + R(i) <= o[j - 1].at /\ f[i] + R(i) <= f[j - 1]
                BY <3>2, <3>4, <4>1
            <4>3. /\ o[i].at \in Int /\ R(i) \in Nat /\ o[j].at \in Int /\ R(j - 1) \in Nat
                  /\ f[i] \in Int /\ f[j] \in Int /\ o[j - 1].at \in Int /\ f[j - 1] \in Int
                BY <1>3, <1>4, <3>2
            <4>4. o[j - 1].at <= o[j].at /\ f[j - 1] <= f[j]
                BY <3>2, <4>3, SMTT(30)
            <4>5. o[i].at + R(i) <= o[j].at
                <5>1. o[i].at + R(i) \in Int
                    BY <4>3
                <5> QED BY <4>2, <4>3, <4>4, <5>1, SMTT(30)
            <4>6. f[i] + R(i) <= f[j]
                BY <4>2, <4>3, <4>4
            <4> QED BY <4>5, <4>6
        <3> QED BY <3>1, <3>3, <3>4
    <2> HIDE DEF S, up1
    <2>2. Good = S
        <3>1. Inherited(Good, S, n, up1)
            BY <1>2, <1>11, <2>1 DEF Inherited
        <3> HIDE DEF Good
        <3> QED BY <3>1, RankInduction
    <2> QED BY <2>2
<1>14. ASSUME NEW i \in S, NEW j \in S, i <= j PROVE f[i] + R(i) <= D(j)
    <2>1. f[i] + R(i) <= o[i].at + R(i)
        BY <1>3, <1>4, <1>12
    <2>2. CASE i = j
        BY <1>3, <1>4, <1>9, <2>1, <2>2
    <2>3. CASE i < j
        <3>1. o[i].at + R(i) <= o[j].at /\ o[j].at + R(j) <= D(j)
            BY <1>9, <1>13, <2>3
        <3>2. /\ o[i].at \in Int /\ R(i) \in Nat /\ o[j].at \in Int /\ R(j) \in Nat
              /\ f[i] \in Int /\ D(j) \in Int
            BY <1>3, <1>4
        <3> QED BY <2>1, <3>1, <3>2, SMTT(30)
    <2>4. i \in Int /\ j \in Int
        BY <1>2
    <2> QED BY <1>14, <2>2, <2>3, <2>4
<1> DEFINE Due(i) == \E j \in i..n : L(i) + R(i) + s[j] - s[i] = D(j)
<1>15. \A i \in S : r[i] >= L(i) => Due(i)
    <2> DEFINE Good == {i \in S : r[i] >= L(i) => Due(i)}
    <2>1. \A i \in S : (\A j \in S : down[j] < down[i] => j \in Good) => i \in Good
        <3> SUFFICES ASSUME NEW i \in S, \A j \in S : down[j] < down[i] => j \in Good, r[i] >= L(i)
                     PROVE  Due(i)
            OBVIOUS
        <3>1. CASE L(i) + R(i) = D(i)
            <4>1. i \in i..n /\ L(i) + R(i) + s[i] - s[i] = D(i)
                BY <1>2, <1>3, <1>4, <1>7, <3>1
            <4> QED BY <4>1
        <3>2. CASE L(i) + R(i) = B(i) /\ L(i) + R(i) # D(i)
            <4>1. i # n
                <5>1. B(i) < D(i)
                    BY <1>3, <1>7, <3>2
                <5> QED BY <1>3, <1>7, <1>8, <5>1
            <4>2. i + 1 \in S /\ B(i) = o[i + 1].before /\ i + 1 # 1 /\ (i + 1) - 1 = i
                BY <1>2, <1>8, <4>1
            <4>3. r[i + 1] >= r[i] + R(i) /\ s[i + 1] = R(i + 1) + s[i]
                BY <1>5, <4>2
            <4>4. r[i + 1] >= L(i + 1)
                <5> SUFFICES ASSUME r[i + 1] < L(i + 1) PROVE FALSE
                    BY <1>4, <1>7, <4>2
                <5>1. B(i) = B(i + 1) /\ L(i + 1) + R(i + 1) <= B(i + 1)
                    BY <1>7, <4>2
                <5>2. /\ L(i) \in Int /\ R(i) \in Int /\ B(i) \in Int /\ r[i] \in Int /\ r[i + 1] \in Int
                      /\ L(i + 1) \in Int /\ R(i + 1) \in Nat
                    BY <1>3, <1>4, <1>7, <4>2
                <5>3. r[i + 1] >= B(i)
                    BY <3>2, <4>3, <5>2
                <5>4. r[i + 1] >= L(i + 1) + R(i + 1)
                    BY <5>1, <5>2, <5>3
                <5> QED BY <5>2, <5>4
            <4>5. B(i) = L(i + 1)
                BY <1>7, <4>2, <4>4
            <4>6. Due(i + 1)
                <5>1. down[i + 1] < down[i]
                    BY <1>2, <4>2
                <5> QED BY <4>2, <4>4, <5>1
            <4>7. PICK j \in (i + 1)..n : L(i + 1) + R(i + 1) + s[j] - s[i + 1] = D(j)
                BY <4>6
            <4>8. j \in S /\ j \in i..n
                BY <1>2
            <4>9. L(i) + R(i) + s[j] - s[i] = D(j)
                <5>1. /\ L(i) \in Int /\ R(i) \in Int /\ s[i] \in Int /\ s[j] \in Int
                      /\ s[i + 1] \in Int /\ R(i + 1) \in Int /\ D(j) \in Int
                    BY <1>3, <1>4, <1>7, <4>2, <4>8
                <5>2. L(i) + R(i) = L(i + 1)
                    BY <3>2, <4>5
                <5>3. L(i) + R(i) + R(i + 1) + s[j] - s[i + 1] = D(j)
                    BY <4>7, <5>2
                <5> QED BY <4>3, <5>1, <5>3, SMTT(30)
            <4> QED BY <4>8, <4>9
        <3> QED BY <1>7, <3>1, <3>2
    <2> HIDE DEF S, down, Due
    <2>2. Good = S
        <3>1. Inherited(Good, S, n, down)
            BY <1>2, <1>11, <2>1 DEF Inherited
        <3> HIDE DEF Good
        <3> QED BY <3>1, RankInduction
    <2> QED BY <2>2
<1>16. ASSUME NEW i \in S, f[i] < A(i)
      PROVE  \E j \in i..n : f[i] + s[j] - s[i] + R(i) = D(j)
    <2>1. f[i] = o[i].at
        BY <1>3, <1>4, <1>6, <1>12, <1>16
    <2>2. r[i] >= L(i)
        BY <1>3, <1>4, <1>6, <1>7, <1>16, <2>1
    <2>3. f[i] = L(i)
        BY <1>7, <2>1, <2>2
    <2>4. PICK j \in i..n : L(i) + R(i) + s[j] - s[i] = D(j)
        BY <1>15, <2>2
    <2>5. j \in S
        BY <1>2
    <2>6. f[i] + s[j] - s[i] + R(i) = D(j)
        <3>1. f[i] \in Int /\ s[i] \in Int /\ s[j] \in Int /\ R(i) \in Int /\ D(j) \in Int
            BY <1>3, <1>4, <2>5
        <3> QED BY <2>3, <2>4, <3>1
    <2> QED BY <2>6
<1>17. f \in [S -> Int]
    BY <1>1 DEF IsFirstAvailable, n
<1> QED BY <1>13, <1>14, <1>16, <1>17 DEF n, R, A, D

(* A chain goes from smaller numbers to larger ones, so a task is on it    *)
(* once, and what is above a task on it comes next.                        *)
LEMMA ChainAscends ==
    ASSUME IsProject, up \in Ups, NEW c, NEW t, Upward(c, t)
    PROVE  \A i, j \in 1..Len(c) : i < j => c[i] < c[j]
<1> DEFINE n == Len(c)
           S == 1..n
           rank == [i \in S |-> i]
           Good == {j \in S : \A i \in S : i < j => c[i] < c[j]}
<1>1. n \in Nat /\ \A i \in S : c[i] \in AllTasks
    BY DEF Upward
<1>2. AllTasks \subseteq Nat
    BY DEF AllTasks
<1>3. ASSUME NEW j \in S, j # 1 PROVE j - 1 \in S /\ c[j - 1] < c[j]
    <2>1. j - 1 \in 1..(n - 1) /\ j - 1 \in S /\ (j - 1) + 1 = j
        BY <1>1, <1>3
    <2>2. c[j] = up[c[j - 1]]
        BY <2>1 DEF Upward
    <2>3. c[j - 1] \in AllTasks /\ c[j] \in AllTasks
        BY <1>1, <2>1
    <2>4. c[j - 1] # Project
        BY <2>2, <2>3 DEF IsProject
    <2> QED BY <2>1, <2>2, <2>3, <2>4 DEF IsProject
<1> HIDE DEF n
<1>4. \A j \in S : (\A k \in S : rank[k] < rank[j] => k \in Good) => j \in Good
    <2> SUFFICES ASSUME NEW j \in S, \A k \in S : rank[k] < rank[j] => k \in Good,
                        NEW i \in S, i < j
                 PROVE  c[i] < c[j]
        OBVIOUS
    <2>1. j # 1 /\ j \in Nat /\ i \in Nat
        BY <1>1
    <2>2. j - 1 \in S /\ c[j - 1] < c[j]
        BY <1>3, <2>1
    <2>3. CASE i = j - 1
        BY <2>2, <2>3
    <2>4. CASE i < j - 1
        <3>1. rank[j - 1] < rank[j]
            BY <2>1, <2>2
        <3>2. c[i] < c[j - 1]
            BY <2>2, <2>4, <3>1
        <3>3. c[i] \in Nat /\ c[j - 1] \in Nat /\ c[j] \in Nat
            BY <1>1, <1>2, <2>2
        <3> QED BY <2>2, <3>2, <3>3
    <2> QED BY <2>1, <2>3, <2>4
<1>5. rank \in [S -> 0..n] /\ Good \subseteq S
    BY <1>1
<1>6. Good = S
    <2> HIDE DEF Good, S, rank
    <2>1. Inherited(Good, S, n, rank)
        BY <1>1, <1>4, <1>5 DEF Inherited
    <2> QED BY <2>1, RankInduction
<1> QED BY <1>6 DEF n

(* A task of a chain has one place on it.                                  *)
LEMMA PlacesOnChains ==
    ASSUME IsProject, up \in Ups, NEW l \in Leaves, NEW t, t \in ToSet(Chain(l))
    PROVE  /\ Position(t, l) \in 1..Len(Chain(l)) /\ Chain(l)[Position(t, l)] = t
           /\ \A i \in 1..Len(Chain(l)) : Chain(l)[i] = t => Position(t, l) = i
<1> DEFINE c == Chain(l)
<1>1. l \in AllTasks
    BY DEF Leaves, Reached
<1>2. Upward(c, l)
    BY <1>1, ChainIsUpward
<1>3. c \in Seq(AllTasks) /\ DOMAIN c = 1..Len(c)
    BY <1>2 DEF Upward
<1>4. \E i \in DOMAIN c : c[i] = t
    BY <1>3 DEF ToSet
<1>5. Position(t, l) \in DOMAIN c /\ c[Position(t, l)] = t
    <2> HIDE DEF c
    <2> QED BY <1>4 DEF Position, c
<1>6. ASSUME NEW i \in 1..Len(c), c[i] = t PROVE Position(t, l) = i
    <2> DEFINE p == Position(t, l)
    <2>1. p \in 1..Len(c) /\ p \in Int /\ i \in Int
        BY <1>3, <1>5
    <2>2. \A k \in 1..Len(c) : c[k] \in Int
        <3>1. AllTasks \subseteq Int
            BY DEF AllTasks
        <3> HIDE DEF c
        <3>2. \A k \in 1..Len(c) : c[k] \in AllTasks
            BY <1>3
        <3> QED BY <3>1, <3>2
    <2>3. \A j, k \in 1..Len(c) : j < k => c[j] < c[k]
        BY <1>2, ChainAscends
    <2> HIDE DEF p, c
    <2>4. ~ (p < i) /\ ~ (i < p)
        BY <1>5, <1>6, <2>1, <2>2, <2>3 DEF p
    <2> QED BY <2>1, <2>4 DEF p
<1> QED BY <1>3, <1>5, <1>6

(* A child is one place before its parent on every chain it is on.         *)
LEMMA ParentIsNext ==
    ASSUME IsProject, up \in Ups, NEW l \in Leaves, NEW t \in AllTasks, NEW u \in Children(t),
           u \in ToSet(Chain(l))
    PROVE  t \in ToSet(Chain(l)) /\ Position(t, l) = Position(u, l) + 1
<1> DEFINE c == Chain(l)
           p == Position(u, l)
<1>1. l \in AllTasks
    BY DEF Leaves, Reached
<1>2. Upward(c, l)
    BY <1>1, ChainIsUpward
<1>3. p \in 1..Len(c) /\ c[p] = u /\ up[u] = t
    BY PlacesOnChains DEF Children
<1>4. t # NoTask
    BY DEF IsProject
<1>5. Len(c) \in Nat /\ c[Len(c)] \in AllTasks /\ up[c[Len(c)]] = NoTask
    BY <1>2 DEF Upward
<1> HIDE DEF c, p
<1>6. p \in 1..(Len(c) - 1)
    <2>1. p # Len(c)
        BY <1>3, <1>4, <1>5
    <2> QED BY <1>3, <1>5, <2>1
<1>7. p + 1 \in 1..Len(c) /\ c[p + 1] = t
    BY <1>2, <1>3, <1>5, <1>6 DEF Upward
<1>8. t \in ToSet(c)
    <2>1. p + 1 \in DOMAIN c
        BY <1>2, <1>7 DEF Upward
    <2> QED BY <1>7, <2>1 DEF ToSet
<1> QED BY <1>7, <1>8, PlacesOnChains DEF c, p

(* Where the passes put the tasks of a project.                            *)
LEMMA ChainsFit ==
    ASSUME IsProject, ChainTypeOK, NEW l \in Leaves, NEW c, c = Chain(l), NEW f, f = FirstAvailable(c)
    PROVE  /\ c \in Seq(AllTasks) /\ DOMAIN c = 1..Len(c)
           /\ f \in [1..Len(c) -> Int]
           /\ \A i, j \in 1..Len(c) : i <= j => f[i] + Remaining(c[i]) <= attr[c[j]].ddl
           /\ \A i, j \in 1..Len(c) : i < j => f[i] + Remaining(c[i]) <= f[j]
           /\ \A i \in 1..Len(c) : f[i] < Alone(c[i]) =>
                 \E j \in i..Len(c) :
                    f[i] + WorkUpTo(c)[j] - WorkUpTo(c)[i] + Remaining(c[i]) = attr[c[j]].ddl
<1>1. l \in AllTasks
    BY DEF Leaves, Reached
<1>2. Upward(c, l)
    BY <1>1, ChainIsUpward DEF ChainTypeOK
<1>3. c \in Seq(AllTasks) /\ DOMAIN c = 1..Len(c) /\ Len(c) >= 1
    BY <1>2 DEF Upward
<1>4. Never \in Int
    BY DEF IsProject
<1> QED BY <1>3, <1>4, PassesFit, SMTT(30)

(* So deadlines are kept, and nothing begins early without need.           *)
LEMMA DeadlinesFit ==
    ASSUME IsProject, ChainTypeOK
    PROVE  FitsDeadlines
<1>1. KeepsDeadlines
    <2> SUFFICES ASSUME NEW l \in Leaves, NEW i \in DOMAIN Chain(l), NEW j \in DOMAIN Chain(l), i <= j
                 PROVE  LET c == Chain(l)
                            f == FirstAvailable(c)
                        IN  /\ f[i] + Remaining(c[i]) <= attr[c[j]].ddl
                            /\ i < j => f[i] + Remaining(c[i]) <= f[j]
        BY DEF KeepsDeadlines
    <2> QED BY ChainsFit
<1>2. EarlyOnlyForDeadline
    <2> SUFFICES ASSUME NEW l \in Leaves, NEW i \in DOMAIN Chain(l),
                        FirstAvailable(Chain(l))[i] < Alone(Chain(l)[i])
                 PROVE  LET c == Chain(l)
                            f == FirstAvailable(c)
                        IN  \E j \in i..Len(c) :
                               f[i] + WorkUpTo(c)[j] - WorkUpTo(c)[i] + Remaining(c[i]) = attr[c[j]].ddl
        BY DEF EarlyOnlyForDeadline, WorkUpTo
    <2> QED BY ChainsFit
<1> QED BY <1>1, <1>2 DEF FitsDeadlines

\* Where the passes put a task on a chain, and what of all its chains counts.
TimeOn(t, l) == FirstAvailable(Chain(l))[Position(t, l)]
TimesOn(t) == {Now} \cup {TimeOn(t, l) : l \in OnChains(t)}
RanksOn(t) == {Position(t, l) - 1 : l \in OnChains(t)}

(* On each of its chains a task has a place and a time.                    *)
LEMMA OnTheirChains ==
    ASSUME IsProject, ChainTypeOK, NEW v \in AllTasks, NEW l \in OnChains(v)
    PROVE  /\ l \in Leaves /\ Position(v, l) \in 1..Len(Chain(l)) /\ Chain(l)[Position(v, l)] = v
           /\ Len(Chain(l)) \in Nat /\ TimeOn(v, l) \in Int
<1>0. up \in Ups
    BY DEF ChainTypeOK
<1>1. l \in Leaves /\ v \in ToSet(Chain(l))
    BY DEF OnChains
<1>2. Position(v, l) \in 1..Len(Chain(l)) /\ Chain(l)[Position(v, l)] = v
    BY <1>0, <1>1, PlacesOnChains
<1>3. FirstAvailable(Chain(l)) \in [1..Len(Chain(l)) -> Int] /\ Chain(l) \in Seq(AllTasks)
    BY <1>1, ChainsFit
<1> QED BY <1>1, <1>2, <1>3 DEF TimeOn

(* The greatest of its places and of its times are some of them.           *)
LEMMA GreatestOnChains ==
    ASSUME IsProject, ChainTypeOK, NEW v \in AllTasks, OnChains(v) # {}
    PROVE  /\ Max(RanksOn(v)) \in RanksOn(v) /\ \A r \in RanksOn(v) : Max(RanksOn(v)) >= r
           /\ Max(TimesOn(v)) \in TimesOn(v) /\ \A a \in TimesOn(v) : Max(TimesOn(v)) >= a
           /\ RanksOn(v) \subseteq Int /\ TimesOn(v) \subseteq Int
<1>1. IsFiniteSet(OnChains(v))
    <2>1. OnChains(v) \subseteq 1..Project /\ IsFiniteSet(1..Project)
        BY FS_Interval DEF OnChains, Leaves, Reached, AllTasks, IsProject
    <2> QED BY <2>1, FS_Subset
<1>2. RanksOn(v) \subseteq Int /\ TimesOn(v) \subseteq Int
    <2>1. Now \in Int
        BY DEF IsProject
    <2>2. \A l \in OnChains(v) : Position(v, l) - 1 \in Int
        BY OnTheirChains
    <2> QED BY OnTheirChains, <2>1, <2>2 DEF RanksOn, TimesOn
<1>3. IsFiniteSet(RanksOn(v))
    <2> DEFINE g == [l \in OnChains(v) |-> Position(v, l) - 1]
    <2>1. IsFiniteSet({g[l] : l \in OnChains(v)})
        <3> HIDE DEF g
        <3> QED BY <1>1, ImageOfFinite
    <2>2. {g[l] : l \in OnChains(v)} = RanksOn(v)
        BY DEF RanksOn
    <2> QED BY <2>1, <2>2
<1>4. IsFiniteSet(TimesOn(v))
    <2> DEFINE g == [l \in OnChains(v) |-> TimeOn(v, l)]
    <2>1. IsFiniteSet({g[l] : l \in OnChains(v)})
        <3> HIDE DEF g
        <3> QED BY <1>1, ImageOfFinite
    <2>2. {g[l] : l \in OnChains(v)} = {TimeOn(v, l) : l \in OnChains(v)}
        OBVIOUS
    <2>3. IsFiniteSet({Now})
        BY FS_Singleton
    <2> QED BY <2>1, <2>2, <2>3, FS_Union DEF TimesOn
<1>5. RanksOn(v) # {} /\ TimesOn(v) # {}
    BY DEF RanksOn, TimesOn
<1> QED BY <1>2, <1>3, <1>4, <1>5, MaxIsGreatest

(* A parent is above its child on every chain of the child, so its rank    *)
(* and its time are not less.                                              *)
LEMMA ParentsRankAbove ==
    ASSUME IsProject, ChainTypeOK
    PROVE  RankedByTree
<1> SUFFICES ASSUME NEW t \in DOMAIN CandidatesNow, NEW u \in CandidatesNow[t].children
             PROVE  /\ CandidatesNow[u].rank < CandidatesNow[t].rank
                    /\ CandidatesNow[u].avail <= CandidatesNow[t].avail
    BY DEF RankedByTree
<1>1. t \in AllTasks /\ u \in Children(t) /\ u \in AllTasks /\ OnChains(u) # {} /\ OnChains(t) # {}
    BY DEF CandidatesNow, Children
<1>2. \A v \in {t, u} : CandidatesNow[v].avail = Max(TimesOn(v)) /\ CandidatesNow[v].rank = Max(RanksOn(v))
    BY <1>1 DEF CandidatesNow, TimesOn, TimeOn, RanksOn
<1>3. up \in Ups
    BY DEF ChainTypeOK
<1>4. \A l \in OnChains(u) : l \in OnChains(t) /\ Position(t, l) = Position(u, l) + 1
    BY <1>1, <1>3, ParentIsNext DEF OnChains
<1>5. Max(RanksOn(u)) < Max(RanksOn(t))
    <2>1. PICK l \in OnChains(u) : Max(RanksOn(u)) = Position(u, l) - 1
        BY <1>1, GreatestOnChains DEF RanksOn
    <2>2. Position(t, l) - 1 \in RanksOn(t)
        BY <1>4 DEF RanksOn
    <2>3. Max(RanksOn(t)) >= Position(t, l) - 1
        BY <1>1, GreatestOnChains, <2>2
    <2>4. Position(t, l) - 1 \in Int /\ Max(RanksOn(t)) \in Int /\ Position(u, l) \in Int
        <3>1. Position(u, l) \in 1..Len(Chain(l)) /\ Len(Chain(l)) \in Nat
            BY <1>1, OnTheirChains
        <3>2. Max(RanksOn(t)) \in Int /\ Position(t, l) - 1 \in Int
            BY <1>1, GreatestOnChains, <2>2
        <3> QED BY <3>1, <3>2
    <2>5. Position(t, l) = Position(u, l) + 1
        BY <1>4
    <2> QED BY <2>1, <2>3, <2>4, <2>5
<1>6. Max(TimesOn(u)) <= Max(TimesOn(t))
    <2>1. Max(TimesOn(u)) \in TimesOn(u) /\ Max(TimesOn(u)) \in Int /\ Max(TimesOn(t)) \in Int
        BY <1>1, GreatestOnChains
    <2>2. CASE Max(TimesOn(u)) = Now
        <3>1. Now \in TimesOn(t)
            BY DEF TimesOn
        <3> QED BY <1>1, GreatestOnChains, <2>1, <2>2, <3>1
    <2>3. ASSUME NEW l \in OnChains(u), Max(TimesOn(u)) = TimeOn(u, l)
          PROVE  Max(TimesOn(u)) <= Max(TimesOn(t))
        <3> DEFINE c == Chain(l)
                   f == FirstAvailable(c)
                   p == Position(u, l)
                   q == Position(t, l)
        <3>1. q = p + 1 /\ l \in OnChains(t)
            BY <1>4
        <3>2. /\ l \in Leaves /\ p \in 1..Len(c) /\ q \in 1..Len(c) /\ Len(c) \in Nat /\ c[p] = u
              /\ f[p] \in Int /\ f[q] \in Int
            BY <1>1, OnTheirChains, <3>1 DEF TimeOn
        <3>3. Remaining(u) \in Nat
            BY <1>1, NumbersOfTask
        <3>4. f[p] + Remaining(c[p]) <= f[q]
            <4>1. p < q
                BY <3>1, <3>2
            <4> QED BY <3>2, <4>1, ChainsFit
        <3>5. f[q] \in TimesOn(t)
            BY <3>1 DEF TimesOn, TimeOn
        <3>6. Max(TimesOn(t)) >= f[q]
            BY <1>1, GreatestOnChains, <3>5
        <3>7. Max(TimesOn(u)) = f[p]
            BY <2>3 DEF TimeOn
        <3> HIDE DEF c, f, p, q
        <3> QED BY <2>1, <3>2, <3>3, <3>4, <3>6, <3>7
    <2>4. \E l \in OnChains(u) : Max(TimesOn(u)) = Now \/ Max(TimesOn(u)) = TimeOn(u, l)
        BY <1>1, <2>1 DEF TimesOn
    <2> QED BY <2>2, <2>3, <2>4
<1> QED BY <1>1, <1>2, <1>5, <1>6

(* What the user sets keeps the tasks of their kind.                       *)
LEMMA ChainsStayTyped ==
    ASSUME IsProject, ChainTypeOK, [ChainNext]_chainVars
    PROVE  ChainTypeOK'
<1>1. CASE UNCHANGED chainVars
    BY <1>1 DEF ChainTypeOK, chainVars
<1>2. ASSUME NEW t \in AllTasks, NEW new, Set(t, new),
             new \in [start : Int, wait : Int, pending : BOOLEAN, done : BOOLEAN,
                      ddl : {d \in Int : d <= Never}, est : Nat, act : Nat]
      PROVE  ChainTypeOK'
    BY <1>2 DEF Set, ChainTypeOK, Attributes
<1> DEFINE Kind == [start : Int, wait : Int, pending : BOOLEAN, done : BOOLEAN,
                    ddl : {d \in Int : d <= Never}, est : Nat, act : Nat]
<1>3. ASSUME NEW t \in AllTasks PROVE attr[t] \in Kind
    BY DEF ChainTypeOK, Attributes
<1>4. /\ \A s \in Starts \cup Waits \cup Deadlines : s \in Int
      /\ \A e \in Estimates \cup Works : e \in Nat
      /\ \A d \in Deadlines \cup {Never} : d \in {e \in Int : e <= Never}
    BY DEF IsProject
<1>5. ASSUME NEW t \in AllTasks, NEW s \in Starts, SetStart(t, s) PROVE ChainTypeOK'
    <2>1. [attr[t] EXCEPT !.start = s] \in Kind
        BY <1>3, <1>4
    <2> QED BY <1>2, <1>5, <2>1 DEF SetStart
<1>6. ASSUME NEW t \in AllTasks, NEW w \in Waits, Defer(t, w) PROVE ChainTypeOK'
    <2>1. [attr[t] EXCEPT !.wait = w, !.pending = TRUE, !.done = FALSE] \in Kind
        BY <1>3, <1>4
    <2> QED BY <1>2, <1>6, <2>1 DEF Defer
<1>7. ASSUME NEW t \in AllTasks, NEW d \in Deadlines \cup {Never}, SetDeadline(t, d) PROVE ChainTypeOK'
    <2>1. [attr[t] EXCEPT !.ddl = d] \in Kind
        BY <1>3, <1>4
    <2> QED BY <1>2, <1>7, <2>1 DEF SetDeadline
<1>8. ASSUME NEW t \in AllTasks, NEW e \in Estimates, SetEstimate(t, e) PROVE ChainTypeOK'
    <2>1. [attr[t] EXCEPT !.est = e] \in Kind
        BY <1>3, <1>4
    <2> QED BY <1>2, <1>8, <2>1 DEF SetEstimate
<1>9. ASSUME NEW t \in AllTasks, NEW w \in Works, SetActual(t, w) PROVE ChainTypeOK'
    <2>1. [attr[t] EXCEPT !.act = w] \in Kind
        BY <1>3, <1>4
    <2> QED BY <1>2, <1>9, <2>1 DEF SetActual
<1>10. ASSUME NEW t \in AllTasks, Complete(t) PROVE ChainTypeOK'
    <2>1. [attr[t] EXCEPT !.done = TRUE, !.pending = FALSE] \in Kind
        BY <1>3
    <2> QED BY <1>2, <1>10, <2>1 DEF Complete
<1> QED BY <1>1, <1>5, <1>6, <1>7, <1>8, <1>9, <1>10 DEF ChainNext

(* To begin with they are tasks.                                           *)
LEMMA ChainsBegin ==
    ASSUME IsProject, ChainInit
    PROVE  ChainTypeOK
<1>1. Never \in Int /\ Starts \subseteq Int /\ Estimates \subseteq Nat
    BY DEF IsProject
<1>2. attr \in Attributes
    BY <1>1 DEF ChainInit, Attributes
<1> QED BY <1>2 DEF ChainInit, ChainTypeOK

(* Whatever the user sets, and however long the chains of a project are: a *)
(* task that begins when it can is finished by its deadline and by all     *)
(* above it, it begins before its own time only when a deadline would be   *)
(* missed otherwise, and its parent ranks above it and follows it.         *)
THEOREM TimesFitProject == IsProject => (ChainSpec => [](FitsDeadlines /\ RankedByTree))
<1>1. ASSUME IsProject PROVE ChainInit => ChainTypeOK
    BY <1>1, ChainsBegin
<1>2. ASSUME IsProject PROVE ChainTypeOK /\ [ChainNext]_chainVars => ChainTypeOK'
    BY <1>2, ChainsStayTyped
<1>3. ASSUME IsProject PROVE ChainTypeOK => FitsDeadlines /\ RankedByTree
    BY <1>3, DeadlinesFit, ParentsRankAbove
<1>4. ASSUME IsProject PROVE ChainSpec => [](FitsDeadlines /\ RankedByTree)
    <2>1. ChainInit => ChainTypeOK
        BY <1>1, <1>4
    <2>2. ChainTypeOK /\ [ChainNext]_chainVars => ChainTypeOK'
        BY <1>2, <1>4
    <2>3. ChainTypeOK => FitsDeadlines /\ RankedByTree
        BY <1>3, <1>4
    <2> QED BY <2>1, <2>2, <2>3, PTL DEF ChainSpec
<1> QED BY <1>4

-----------------------------------------------------------------------------
(***************************************************************************)
(* Plans                                                                   *)
(***************************************************************************)
(* Of two tuples of five numbers one is before the other at the first      *)
(* place where they differ.                                                *)
LEMMA FiveKeys ==
    ASSUME NEW a, NEW b, NEW a1, NEW a2, NEW a3, NEW a4, NEW a5, NEW b1, NEW b2, NEW b3, NEW b4, NEW b5,
           a = <<a1, a2, a3, a4, a5>>, b = <<b1, b2, b3, b4, b5>>,
           \/ a1 < b1
           \/ a1 = b1 /\ a2 < b2
           \/ a1 = b1 /\ a2 = b2 /\ a3 < b3
           \/ a1 = b1 /\ a2 = b2 /\ a3 = b3 /\ a4 < b4
           \/ a1 = b1 /\ a2 = b2 /\ a3 = b3 /\ a4 = b4 /\ a5 < b5
    PROVE  \E i \in 1..5 : a[i] < b[i] /\ \A j \in 1..(i - 1) : a[j] = b[j]
<1>1. /\ a[1] = a1 /\ a[2] = a2 /\ a[3] = a3 /\ a[4] = a4 /\ a[5] = a5
      /\ b[1] = b1 /\ b[2] = b2 /\ b[3] = b3 /\ b[4] = b4 /\ b[5] = b5
    OBVIOUS
<1>2. CASE a1 < b1
    <2>1. a[1] < b[1] /\ \A j \in 1..(1 - 1) : a[j] = b[j]
        BY <1>1, <1>2
    <2> QED BY <2>1
<1>3. CASE a1 = b1 /\ a2 < b2
    <2>1. a[2] < b[2] /\ \A j \in 1..(2 - 1) : a[j] = b[j]
        BY <1>1, <1>3
    <2> QED BY <2>1
<1>4. CASE a1 = b1 /\ a2 = b2 /\ a3 < b3
    <2>1. a[3] < b[3] /\ \A j \in 1..(3 - 1) : a[j] = b[j]
        <3>1. \A j \in 1..(3 - 1) : j = 1 \/ j = 2
            OBVIOUS
        <3> QED BY <1>1, <1>4, <3>1
    <2> QED BY <2>1
<1>5. CASE a1 = b1 /\ a2 = b2 /\ a3 = b3 /\ a4 < b4
    <2>1. a[4] < b[4] /\ \A j \in 1..(4 - 1) : a[j] = b[j]
        <3>1. \A j \in 1..(4 - 1) : j = 1 \/ j = 2 \/ j = 3
            OBVIOUS
        <3> QED BY <1>1, <1>5, <3>1
    <2> QED BY <2>1
<1>6. CASE a1 = b1 /\ a2 = b2 /\ a3 = b3 /\ a4 = b4 /\ a5 < b5
    <2>1. a[5] < b[5] /\ \A j \in 1..(5 - 1) : a[j] = b[j]
        <3>1. \A j \in 1..(5 - 1) : j = 1 \/ j = 2 \/ j = 3 \/ j = 4
            OBVIOUS
        <3> QED BY <1>1, <1>6, <3>1
    <2> QED BY <2>1
<1> QED BY <1>2, <1>3, <1>4, <1>5, <1>6

\* A plan for some of them.
IsPlanFor(c, p) ==
    /\ DOMAIN p \subseteq DOMAIN c
    /\ \A t \in DOMAIN p : /\ p[t].hours \subseteq Int /\ IsFiniteSet(p[t].hours) /\ p[t].end \in Int
                           /\ c[t].work > 0 => p[t].hours # {}

(* Finitely many hours are taken.                                          *)
LEMMA TakenIsFinite ==
    ASSUME NEW c, NEW p, IsFiniteSet(DOMAIN c), IsPlanFor(c, p)
    PROVE  IsFiniteSet(Taken(p)) /\ Taken(p) \subseteq Int /\ Cardinality(Taken(p)) \in Nat
<1> DEFINE H == {p[t].hours : t \in DOMAIN p}
           f == [t \in DOMAIN p |-> p[t].hours]
<1>1. IsFiniteSet(DOMAIN p)
    BY FS_Subset DEF IsPlanFor
<1>2. IsFiniteSet(H)
    <2>1. IsFiniteSet({f[t] : t \in DOMAIN p})
        <3> HIDE DEF f
        <3> QED BY <1>1, ImageOfFinite
    <2>2. {f[t] : t \in DOMAIN p} = H
        OBVIOUS
    <2> QED BY <2>1, <2>2
<1>3. \A h \in H : IsFiniteSet(h) /\ h \subseteq Int
    BY DEF IsPlanFor
<1>4. Taken(p) = UNION H
    BY DEF Taken
<1> HIDE DEF H
<1>5. IsFiniteSet(UNION H)
    BY <1>2, <1>3, FS_UNION
<1> QED BY <1>3, <1>4, <1>5, FS_CardinalityType

\* At an hour no segment is under way.
Quiet(p, h) == \A t \in DOMAIN p : ~({h - 1, h} \subseteq p[t].hours)

(* Between is the first hour from a given one on at which no segment is    *)
(* under way: not all hours up to there are taken.                         *)
LEMMA BetweenIsLeast ==
    ASSUME NEW p, IsFiniteSet(Taken(p)), Cardinality(Taken(p)) \in Nat, NEW from \in Int
    PROVE  /\ Between(p, from) \in Int /\ Between(p, from) >= from /\ Quiet(p, Between(p, from))
           /\ \A h \in Int : h >= from /\ Quiet(p, h) => Between(p, from) <= h
<1> DEFINE n == Cardinality(Taken(p))
           H == from..(from + n)
           B == {h \in H : \A t \in DOMAIN p : ~({h - 1, h} \subseteq p[t].hours)}
<1>1. IsFiniteSet(H) /\ Cardinality(H) = n + 1
    <2>1. from + n \in Int /\ ~ (from > from + n) /\ (from + n) - from + 1 = n + 1
        OBVIOUS
    <2> HIDE DEF n
    <2> QED BY <2>1, FS_Interval
<1>2. PICK h \in H : h \notin Taken(p)
    <2> SUFFICES ASSUME H \subseteq Taken(p) PROVE FALSE
        OBVIOUS
    <2>1. Cardinality(H) <= n
        <3> HIDE DEF H
        <3> QED BY FS_Subset
    <2> HIDE DEF n, H
    <2> QED BY <1>1, <2>1 DEF n
<1>3. h \in B
    BY <1>2 DEF Taken
<1>4. IsFiniteSet(B) /\ B \subseteq H /\ H \subseteq Int
    <2>1. B \subseteq H
        OBVIOUS
    <2>2. H \subseteq Int
        OBVIOUS
    <2> HIDE DEF B, H
    <2> QED BY <1>1, <2>1, <2>2, FS_Subset
<1> DEFINE m == Min(B)
<1>5. m \in B /\ \A g \in B : m <= g
    <2> HIDE DEF B, H
    <2> QED BY <1>3, <1>4, MinIsLeast
<1>6. Between(p, from) = m
    BY DEF Between
<1> HIDE DEF m
<1>7. m \in H /\ Quiet(p, m)
    BY <1>5 DEF Quiet
<1>8. m \in Int /\ m >= from /\ m <= from + n
    BY <1>7
<1>9. ASSUME NEW g \in Int, g >= from, Quiet(p, g) PROVE m <= g
    <2>1. CASE g \in H
        <3>1. g \in B
            BY <1>9, <2>1 DEF Quiet
        <3> HIDE DEF B
        <3> QED BY <1>5, <3>1
    <2>2. CASE g \notin H
        <3>1. n \in Int /\ g > from + n
            BY <1>9, <2>2
        <3> HIDE DEF n
        <3> QED BY <1>8, <3>1
    <2> QED BY <2>1, <2>2
<1> QED BY <1>6, <1>7, <1>8, <1>9

(* Wherever the work of a task goes, it is in finitely many hours, and in  *)
(* some if there is any.                                                   *)
LEMMA HoursAreTimes ==
    ASSUME NEW p, IsFiniteSet(Taken(p)), Cardinality(Taken(p)) \in Nat,
           NEW from \in Int, NEW work \in Nat
    PROVE  /\ IsFiniteSet(InPieces(p, from, work)) /\ InPieces(p, from, work) \subseteq Int
           /\ IsFiniteSet(InOnePiece(p, from, work)) /\ InOnePiece(p, from, work) \subseteq Int
           /\ work > 0 => InPieces(p, from, work) # {} /\ InOnePiece(p, from, work) # {}
<1> DEFINE T == Taken(p)
           n == Cardinality(Taken(p))
           last == from + work * (n + 1)
           B == {b \in from..last : (b..(b + work - 1)) \cap T = {}}
<1>1. work * (n + 1) \in Nat
    <2> HIDE DEF n
    <2>1. n \in Nat
        BY DEF n
    <2> QED BY <2>1
<1>2. IsFiniteSet(InPieces(p, from, work)) /\ InPieces(p, from, work) \subseteq Int
    <2> DEFINE free == from..(from + work + n)
    <2>1. from + work + n \in Int
        OBVIOUS
    <2>2. IsFiniteSet(free) /\ free \subseteq Int
        <3> HIDE DEF n
        <3> QED BY <2>1, FS_Interval
    <2>3. InPieces(p, from, work) \subseteq free
        BY DEF InPieces
    <2> HIDE DEF free
    <2> QED BY <2>2, <2>3, FS_Subset
<1>3. PICK b \in Int : b \in B
    <2>1. CASE work = 0
        <3>1. from \in from..last /\ from..(from + work - 1) = {}
            BY <1>1, <2>1
        <3> QED BY <3>1
    <2>2. CASE work # 0
        <3>1. work > 0
            BY <2>2
        <3>2. \E b \in from..last : (b..(b + work - 1)) \cap T = {}
            <4> HIDE DEF T
            <4>1. IsFiniteSet(T) /\ n = Cardinality(T)
                BY DEF T
            <4> HIDE DEF n
            <4> QED BY <3>1, <4>1, SomeBlockIsFree
        <3> QED BY <1>1, <3>2
    <2> QED BY <2>1, <2>2
<1>4. IsFiniteSet(B) /\ B \subseteq Int
    <2>1. last \in Int
        BY <1>1
    <2> HIDE DEF last
    <2>2. IsFiniteSet(from..last) /\ from..last \subseteq Int
        BY <2>1, FS_Interval
    <2>3. B \subseteq from..last
        OBVIOUS
    <2> HIDE DEF B
    <2> QED BY <2>2, <2>3, FS_Subset
<1>5. Min(B) \in Int
    <2> HIDE DEF B
    <2> QED BY <1>3, <1>4, MinIsLeast
<1>6. InOnePiece(p, from, work) = Min(B)..(Min(B) + work - 1)
    BY DEF InOnePiece
<1> HIDE DEF B
<1>7. IsFiniteSet(InOnePiece(p, from, work)) /\ InOnePiece(p, from, work) \subseteq Int
    BY <1>5, <1>6, FS_Interval
<1>8. work > 0 => InOnePiece(p, from, work) # {}
    BY <1>5, <1>6
<1>9. ASSUME work > 0 PROVE InPieces(p, from, work) # {}
    <2> DEFINE H == from..(from + work + n)
               free == H \ T
    <2>1. IsFiniteSet(H) /\ H \subseteq Int /\ Cardinality(H) > n
        <3>1. from + work + n \in Int /\ ~(from > from + work + n)
              /\ (from + work + n) - from + 1 > n
            BY <1>9
        <3> HIDE DEF n
        <3> QED BY <3>1, FS_Interval
    <2> HIDE DEF H
    <2>2. free # {}
        <3> SUFFICES ASSUME H \subseteq T PROVE FALSE
            OBVIOUS
        <3>1. Cardinality(H) <= n
            <4> HIDE DEF n, T
            <4> QED BY FS_Subset DEF n, T
        <3>2. Cardinality(H) \in Nat
            BY <2>1, FS_CardinalityType
        <3> HIDE DEF n
        <3> QED BY <2>1, <3>1, <3>2 DEF n
    <2>3. IsFiniteSet(free) /\ free \subseteq Int
        BY <2>1, FS_Difference
    <2> HIDE DEF free
    <2>4. Min(free) \in free /\ \A g \in free : Min(free) <= g
        BY <2>2, <2>3, MinIsLeast
    <2>5. {g \in free : g < Min(free)} = {}
        <3>1. ASSUME NEW g \in free, g < Min(free) PROVE FALSE
            <4>1. Min(free) \in Int /\ g \in Int /\ Min(free) <= g
                BY <2>3, <2>4
            <4> QED BY <3>1, <4>1
        <3> QED BY <3>1
    <2>6. Cardinality({g \in free : g < Min(free)}) < work
        BY <1>9, <2>5, FS_EmptySet
    <2>7. InPieces(p, from, work) = {h \in free : Cardinality({g \in free : g < h}) < work}
        BY DEF InPieces, free, H
    <2> QED BY <2>4, <2>6, <2>7
<1> QED BY <1>2, <1>7, <1>8, <1>9

(* The next task: there is one whose children are all done, since a task   *)
(* of the least rank waits for nobody, and the order of the tasks is total. *)
LEMMA NextTaskIsReady ==
    ASSUME NEW c, ArePlannable(c), NEW done, done \subseteq DOMAIN c,
           done # DOMAIN c
    PROVE  LET t == NextTask(c, done)
           IN  /\ t \in DOMAIN c \ done /\ c[t].children \subseteq done
               /\ \A u \in DOMAIN c \ (done \cup {t}) : c[u].children \subseteq done => SoonerIn(c, t, u)
<1> DEFINE rest == DOMAIN c \ done
           ready == {t \in rest : c[t].children \subseteq done}
           IsNext(t) == t \in ready /\ \A u \in ready \ {t} : SoonerIn(c, t, u)
<1>1. IsFiniteSet(rest) /\ rest # {}
    BY FS_Difference DEF ArePlannable
<1>2. \A t \in DOMAIN c : /\ c[t].ddl \in Int /\ c[t].prio \in Int /\ c[t].avail \in Int
                         /\ c[t].rank \in Int /\ t \in Int
    BY DEF ArePlannable, Candidate
<1>3. PICK t \in rest : \A u \in rest : c[t].rank <= c[u].rank
    <2> DEFINE k == [u \in rest |-> c[u].rank]
               R == {k[u] : u \in rest}
    <2>1. IsFiniteSet(R)
        <3> HIDE DEF rest, k
        <3> QED BY <1>1, ImageOfFinite
    <2>2. R # {} /\ R \subseteq Int
        BY <1>1, <1>2
    <2>3. PICK r \in R : \A s \in R : r <= s
        <3> HIDE DEF R
        <3> QED BY <2>1, <2>2, LeastOfFinite
    <2> QED BY <2>3
<1>4. t \in ready
    <2> SUFFICES ASSUME NEW u \in c[t].children, u \notin done PROVE FALSE
        OBVIOUS
    <2>1. u \in rest /\ c[u].rank < c[t].rank /\ c[t].rank <= c[u].rank
        BY <1>3 DEF ArePlannable, Candidate
    <2> QED BY <1>2, <2>1
<1>5. \E u : IsNext(u)
    <2> DEFINE k == [v \in ready |-> c[v].ddl]
               l == [v \in ready |-> -c[v].prio]
               m == [v \in ready |-> c[v].avail]
               n == [v \in ready |-> c[v].rank]
    <2>1. IsFiniteSet(ready) /\ ready # {} /\ ready \subseteq Int
        <3>1. ready \subseteq rest /\ ready \subseteq Int
            BY <1>2
        <3> HIDE DEF ready, rest
        <3> QED BY <1>1, <1>4, <3>1, FS_Subset
    <2>2. k \in [ready -> Int] /\ l \in [ready -> Int] /\ m \in [ready -> Int] /\ n \in [ready -> Int]
        BY <1>2
    <2>3. PICK u \in ready : \A v \in ready \ {u} : Precedes(k, l, m, n, u, v)
        <3> HIDE DEF ready, k, l, m, n
        <3>1. ToOrder(ready, k, l, m, n)
            BY <2>1, <2>2 DEF ToOrder
        <3> QED BY <3>1, LeastInOrder
    <2>4. ASSUME NEW v \in ready \ {u} PROVE SoonerIn(c, u, v)
        <3> DEFINE a == KeyIn(c, u)
                   b == KeyIn(c, v)
        <3>1. a = <<k[u], l[u], m[u], n[u], u>> /\ b = <<k[v], l[v], m[v], n[v], v>>
            BY DEF KeyIn
        <3> HIDE DEF a, b, k, l, m, n, ready
        <3>0. Precedes(k, l, m, n, u, v)
            BY <2>3
        <3>2. \E i \in 1..5 : a[i] < b[i] /\ \A j \in 1..(i - 1) : a[j] = b[j]
            BY <3>0, <3>1, FiveKeys DEF Precedes
        <3> QED BY <3>2 DEF SoonerIn, a, b
    <2> QED BY <2>4
<1>6. NextTask(c, done) = CHOOSE u : IsNext(u)
    BY DEF NextTask
<1>7. IsNext(NextTask(c, done))
    <2> HIDE DEF IsNext
    <2> QED BY <1>5, <1>6
<1> QED BY <1>7

(* Where a task goes that comes after its children.                        *)
LEMMA PlannedIsTyped ==
    ASSUME NEW c, ArePlannable(c), NEW p, IsPlanFor(c, p),
           NEW t \in DOMAIN c, c[t].children \subseteq DOMAIN p, NEW now \in Int
    PROVE  LET new == Planned(c, p, t, now)
           IN  /\ new.hours \subseteq Int /\ IsFiniteSet(new.hours) /\ new.end \in Int
               /\ c[t].work > 0 => new.hours # {}
<1> DEFINE E == {p[u].end : u \in c[t].children}
           first == Max({c[t].avail, now} \cup E)
           from == Between(p, first)
           hours == IF c[t].atomic THEN InOnePiece(p, from, c[t].work)
                    ELSE InPieces(p, from, c[t].work)
<1>1. IsFiniteSet(Taken(p)) /\ Cardinality(Taken(p)) \in Nat
    BY TakenIsFinite DEF ArePlannable
<1>2. c[t].avail \in Int /\ c[t].work \in Nat
    BY DEF ArePlannable, Candidate
<1>3. first \in Int
    <2> DEFINE f == [u \in c[t].children |-> p[u].end]
    <2>1. E \subseteq Int
        BY DEF IsPlanFor
    <2>2. IsFiniteSet(E)
        <3>1. c[t].children \subseteq DOMAIN c
            BY DEF ArePlannable, Candidate
        <3>2. IsFiniteSet(c[t].children)
            BY <3>1, FS_Subset DEF ArePlannable
        <3>3. IsFiniteSet({f[u] : u \in c[t].children})
            <4> HIDE DEF f
            <4> QED BY <3>2, ImageOfFinite
        <3>4. {f[u] : u \in c[t].children} = E
            OBVIOUS
        <3> QED BY <3>3, <3>4
    <2>3. IsFiniteSet({c[t].avail, now})
        <3>1. IsFiniteSet({now} \cup {c[t].avail})
            BY FS_Singleton, FS_AddElement
        <3>2. {now} \cup {c[t].avail} = {c[t].avail, now}
            OBVIOUS
        <3> QED BY <3>1, <3>2
    <2> HIDE DEF E
    <2>4. IsFiniteSet({c[t].avail, now} \cup E)
        BY <2>2, <2>3, FS_Union
    <2> DEFINE A == {c[t].avail, now} \cup E
    <2>5. A \subseteq Int /\ A # {}
        BY <1>2, <2>1
    <2> HIDE DEF A
    <2>6. Max(A) \in A
        BY <2>4, <2>5, MaxIsGreatest DEF A
    <2> QED BY <2>5, <2>6 DEF A
<1> HIDE DEF first
<1>4. from \in Int
    BY <1>1, <1>3, BetweenIsLeast
<1> HIDE DEF from
<1>5. hours \subseteq Int /\ IsFiniteSet(hours) /\ (c[t].work > 0 => hours # {})
    <2>1. /\ IsFiniteSet(InPieces(p, from, c[t].work)) /\ InPieces(p, from, c[t].work) \subseteq Int
          /\ IsFiniteSet(InOnePiece(p, from, c[t].work)) /\ InOnePiece(p, from, c[t].work) \subseteq Int
          /\ c[t].work > 0 => /\ InPieces(p, from, c[t].work) # {}
                             /\ InOnePiece(p, from, c[t].work) # {}
        BY <1>1, <1>2, <1>4, HoursAreTimes
    <2> QED BY <2>1
<1>6. /\ Planned(c, p, t, now).hours = hours
      /\ Planned(c, p, t, now).end = IF hours = {} THEN from ELSE Max(hours) + 1
    BY DEF Planned, from, first
<1> HIDE DEF hours
<1>7. hours # {} => Max(hours) \in hours
    BY <1>5, MaxIsGreatest
<1>8. Planned(c, p, t, now).end \in Int
    <2>1. CASE hours = {}
        BY <1>4, <1>6, <2>1
    <2>2. CASE hours # {}
        <3>1. Max(hours) \in Int
            BY <1>5, <1>7, <2>2
        <3> QED BY <1>6, <2>2, <3>1
    <2> QED BY <2>1, <2>2
<1> QED BY <1>5, <1>6, <1>8

\* The plan of the first tasks and of the next one.
AndNext(c, now, p) ==
    LET t == NextTask(c, DOMAIN p)
    IN  [u \in DOMAIN p \cup {t} |-> IF u = t THEN Planned(c, p, t, now) ELSE p[u]]

(* The function that PlansOf chooses exists.                               *)
LEMMA PlansFollow ==
    ASSUME NEW c, NEW now, NEW N \in Nat, N = Cardinality(DOMAIN c)
    PROVE  LET ps == PlansOf(c, now)
           IN  ps[0] = << >> /\ \A n \in 1..N : ps[n] = AndNext(c, now, ps[n - 1])
<1> DEFINE Value(g, n) == IF n = 0 THEN << >> ELSE AndNext(c, now, g[n - 1])
           RightTo(g, m) == \A n \in 0..N : n <= m => g[n] = Value(g, n)
           Lengths == {m \in Nat : \E g : g = [n \in 0..N |-> g[n]] /\ RightTo(g, m)}
           IsPlan(g) == g = [n \in 0..N |-> Value(g, n)]
<1>1. 0 \in Lengths
    <2> DEFINE g == [n \in 0..N |-> << >>]
    <2>1. g = [n \in 0..N |-> g[n]]
        OBVIOUS
    <2>2. RightTo(g, 0)
        OBVIOUS
    <2> HIDE DEF g, RightTo
    <2> QED BY <2>1, <2>2
<1>2. ASSUME NEW m \in Lengths PROVE m + 1 \in Lengths
    <2>1. PICK g : g = [n \in 0..N |-> g[n]] /\ RightTo(g, m)
        OBVIOUS
    <2> DEFINE h == [n \in 0..N |-> IF n <= m THEN g[n] ELSE Value(g, n)]
    <2>2. ASSUME NEW n \in 0..N, n <= m + 1 PROVE h[n] = Value(h, n)
        <3>1. CASE n = 0
            BY <3>1, <2>1
        <3>2. CASE n # 0
            <4>1. n - 1 \in 0..N /\ n - 1 <= m
                BY <2>2, <3>2
            <4>2. h[n - 1] = g[n - 1]
                BY <4>1
            <4>3. h[n] = Value(g, n)
                BY <2>1
            <4> QED BY <4>2, <4>3, <3>2
        <3> QED BY <3>1, <3>2
    <2>3. h = [n \in 0..N |-> h[n]] /\ RightTo(h, m + 1)
        BY <2>2
    <2>4. m + 1 \in Nat
        OBVIOUS
    <2> HIDE DEF h, RightTo
    <2> QED BY <2>3, <2>4
<1>3. Lengths = Nat
    <2>1. Lengths \in SUBSET Nat
        OBVIOUS
    <2> HIDE DEF Lengths
    <2> QED BY <1>1, <1>2, <2>1, NaturalsByStep
<1>4. PICK g : g = [n \in 0..N |-> g[n]] /\ RightTo(g, N)
    BY <1>3
<1>5. IsPlan(g)
    <2>1. \A n \in 0..N : g[n] = Value(g, n)
        BY <1>4
    <2> HIDE DEF Value
    <2> QED BY <1>4, <2>1
<1>6. PlansOf(c, now) = CHOOSE r : IsPlan(r)
    BY DEF PlansOf, AndNext
<1>7. IsPlan(CHOOSE r : IsPlan(r))
    <2> HIDE DEF IsPlan
    <2> QED BY <1>5
<1>8. PICK ps : ps = PlansOf(c, now) /\ IsPlan(ps)
    <2> HIDE DEF IsPlan
    <2> QED BY <1>6, <1>7
<1>9. \A n \in 0..N : ps[n] = Value(ps, n)
    <2> HIDE DEF Value
    <2> QED BY <1>8
<1> QED BY <1>8, <1>9

(* Task by task there is a plan, for one more task each time.              *)
LEMMA PlanOfIsPlan ==
    ASSUME NEW c, ArePlannable(c), NEW now \in Int
    PROVE  IsPlanFor(c, PlanOf(c, now))
<1> DEFINE N == Cardinality(DOMAIN c)
           ps == PlansOf(c, now)
           IsStep(n) == IsPlanFor(c, ps[n]) /\ IsFiniteSet(DOMAIN ps[n]) /\ Cardinality(DOMAIN ps[n]) = n
           Good == {n \in Nat : n <= N => IsStep(n)}
<1>0. N \in Nat
    BY FS_CardinalityType DEF ArePlannable
<1>1. ps[0] = << >> /\ \A n \in 1..N : ps[n] = AndNext(c, now, ps[n - 1])
    BY <1>0, PlansFollow
<1> HIDE DEF N, ps
<1>2. 0 \in Good
    <2>1. DOMAIN ps[0] = {}
        BY <1>1
    <2> QED BY <2>1, FS_EmptySet DEF IsPlanFor
<1>3. ASSUME NEW n \in Good PROVE n + 1 \in Good
    <2> SUFFICES ASSUME n + 1 <= N PROVE IsStep(n + 1)
        OBVIOUS
    <2> DEFINE p == ps[n]
               t == NextTask(c, DOMAIN p)
               new == Planned(c, p, t, now)
    <2>1. n \in Nat /\ n < N /\ IsStep(n)
        BY <1>0
    <2>2. ps[n + 1] = [u \in DOMAIN p \cup {t} |-> IF u = t THEN new ELSE p[u]]
        <3>1. n + 1 \in 1..N /\ (n + 1) - 1 = n
            BY <1>0, <2>1
        <3>2. ps[n + 1] = AndNext(c, now, p)
            BY <1>1, <3>1
        <3> QED BY <3>2 DEF AndNext
    <2>3. DOMAIN p \subseteq DOMAIN c /\ DOMAIN p # DOMAIN c
        BY <2>1 DEF IsPlanFor, N
    <2> HIDE DEF p
    <2>4. t \in DOMAIN c \ DOMAIN p /\ c[t].children \subseteq DOMAIN p
        BY <2>3, NextTaskIsReady
    <2> HIDE DEF t
    <2>5. /\ new.hours \subseteq Int /\ IsFiniteSet(new.hours) /\ new.end \in Int
          /\ c[t].work > 0 => new.hours # {}
        BY <2>1, <2>4, PlannedIsTyped DEF p
    <2> HIDE DEF new
    <2>6. IsPlanFor(c, ps[n + 1])
        <3>1. \A u \in DOMAIN p : /\ p[u].hours \subseteq Int /\ IsFiniteSet(p[u].hours) /\ p[u].end \in Int
                                  /\ c[u].work > 0 => p[u].hours # {}
            BY <2>1 DEF IsPlanFor, p
        <3> QED BY <2>2, <2>3, <2>4, <2>5, <3>1 DEF IsPlanFor
    <2>7. IsFiniteSet(DOMAIN p \cup {t}) /\ Cardinality(DOMAIN p \cup {t}) = n + 1
        BY <2>1, <2>4, FS_AddElement, SMTT(30) DEF p
    <2> QED BY <2>2, <2>6, <2>7
<1>4. Good = Nat
    <2>1. Good \in SUBSET Nat
        OBVIOUS
    <2> HIDE DEF Good
    <2> QED BY <1>2, <1>3, <2>1, NaturalsByStep
<1>5. IsStep(N)
    BY <1>0, <1>4
<1> QED BY <1>5 DEF PlanOf, N, ps

(* What the candidates are made of is a plannable set of tasks.            *)
LEMMA TasksAreFinite ==
    ASSUME IsProject, NEW S, S \subseteq AllTasks
    PROVE  IsFiniteSet(S) /\ S \subseteq Int
<1>1. IsFiniteSet(AllTasks) /\ AllTasks \subseteq Int
    BY FS_Interval DEF IsProject, AllTasks
<1> QED BY <1>1, FS_Subset

\* What the days of flattening and packing plan is what a schedule can plan.
LEMMA ToPlanIsPlannable ==
    ASSUME AreDays, ChainTypeOK
    PROVE  ArePlannable(ToPlan) /\ DOMAIN ToPlan \subseteq AllTasks
<1>1. IsProject /\ \A t \in AllTasks : Priority[t] \in Int
    BY DEF AreDays
<1>2. DOMAIN ToPlan = DOMAIN CandidatesNow /\ DOMAIN CandidatesNow \subseteq AllTasks
    BY DEF ToPlan, CandidatesNow
<1>3. ASSUME NEW t \in DOMAIN CandidatesNow
      PROVE  /\ t \in AllTasks /\ OnChains(t) # {}
             /\ CandidatesNow[t].avail \in Int /\ CandidatesNow[t].rank \in Int
             /\ CandidatesNow[t].work \in Nat /\ CandidatesNow[t].ddl \in Int
             /\ CandidatesNow[t].children \subseteq DOMAIN CandidatesNow
    <2>1. t \in AllTasks /\ OnChains(t) # {}
        BY DEF CandidatesNow
    <2>2. /\ CandidatesNow[t].avail = Max(TimesOn(t)) /\ CandidatesNow[t].rank = Max(RanksOn(t))
          /\ CandidatesNow[t].work = PlannedWork(t) /\ CandidatesNow[t].ddl = attr[t].ddl
          /\ CandidatesNow[t].children = {u \in Children(t) : OnChains(u) # {}}
        BY <2>1 DEF CandidatesNow, TimesOn, TimeOn, RanksOn
    <2>3. CandidatesNow[t].avail \in Int /\ CandidatesNow[t].rank \in Int
        BY <1>1, <2>1, <2>2, GreatestOnChains
    <2>4. CandidatesNow[t].work \in Nat
        <3>1. attr[t].est \in Nat /\ attr[t].act \in Nat
            BY <2>1 DEF ChainTypeOK, Attributes
        <3> QED BY <2>2, <3>1 DEF PlannedWork, Larger
    <2>5. CandidatesNow[t].ddl \in Int
        BY <2>1, <2>2, NumbersOfTask
    <2>6. CandidatesNow[t].children \subseteq DOMAIN CandidatesNow
        BY <2>2 DEF CandidatesNow, Children
    <2> QED BY <2>1, <2>3, <2>4, <2>5, <2>6
<1>4. RankedByTree
    BY <1>1, ParentsRankAbove
<1>5. ASSUME NEW t \in DOMAIN ToPlan
      PROVE  /\ ToPlan[t] = [avail |-> CandidatesNow[t].avail, work |-> CandidatesNow[t].work,
                             children |-> CandidatesNow[t].children, ddl |-> CandidatesNow[t].ddl,
                             rank |-> CandidatesNow[t].rank, prio |-> Priority[t], atomic |-> t \in Atomic]
             /\ (t \in Atomic) \in BOOLEAN
    BY <1>2 DEF ToPlan
<1>6. ASSUME NEW t \in DOMAIN ToPlan PROVE ToPlan[t] \in Candidate(DOMAIN ToPlan)
    <2> DEFINE c == CandidatesNow[t]
               whole == t \in Atomic
    <2>1. c.children \in SUBSET DOMAIN ToPlan /\ Priority[t] \in Int
        BY <1>1, <1>2, <1>3
    <2>2. c.avail \in Int /\ c.rank \in Int /\ c.work \in Nat /\ c.ddl \in Int
        BY <1>2, <1>3
    <2>3. whole \in BOOLEAN
        OBVIOUS
    <2>4. ToPlan[t] = [avail |-> c.avail, work |-> c.work, children |-> c.children, ddl |-> c.ddl,
                       rank |-> c.rank, prio |-> Priority[t], atomic |-> whole]
        BY <1>5
    <2> HIDE DEF c, whole
    <2> QED BY <2>1, <2>2, <2>3, <2>4 DEF Candidate
<1>7. ASSUME NEW t \in DOMAIN ToPlan
      PROVE  /\ ToPlan[t].children \subseteq DOMAIN ToPlan
             /\ \A u \in ToPlan[t].children : ToPlan[u].rank < ToPlan[t].rank
    <2>1. ToPlan[t].children = CandidatesNow[t].children /\ ToPlan[t].children \subseteq DOMAIN ToPlan
        BY <1>2, <1>3, <1>5
    <2>2. \A u \in DOMAIN ToPlan : ToPlan[u].rank = CandidatesNow[u].rank
        BY <1>5
    <2> QED BY <1>2, <1>4, <2>1, <2>2 DEF RankedByTree
<1>8. IsFiniteSet(DOMAIN ToPlan) /\ DOMAIN ToPlan \subseteq Int
    BY <1>1, <1>2, TasksAreFinite
<1> QED BY <1>2, <1>6, <1>7, <1>8 DEF ArePlannable

(* Tasks that have to wait longer can be planned as well.                  *)
LEMMA PlanWithIsPlan ==
    ASSUME AreDays, ArePlannable(drawn), NEW given, \A t \in DOMAIN given : given[t] \in Int
    PROVE  IsPlanFor(drawn, PlanWith(given))
<1> DEFINE c == [t \in DOMAIN drawn |->
                    IF t \in DOMAIN given THEN [drawn[t] EXCEPT !.avail = Larger(given[t], Now)]
                    ELSE drawn[t]]
<1>1. IsProject /\ Now \in Int
    BY DEF AreDays, IsProject
<1>2. ASSUME NEW t \in DOMAIN drawn
      PROVE  /\ c[t] \in Candidate(DOMAIN drawn) /\ c[t].children = drawn[t].children
             /\ c[t].rank = drawn[t].rank /\ c[t].work = drawn[t].work
    <2>1. drawn[t] \in Candidate(DOMAIN drawn)
        BY DEF ArePlannable
    <2>2. CASE t \in DOMAIN given
        <3>1. Larger(given[t], Now) \in Int
            BY <1>1, <2>2 DEF Larger
        <3>2. c[t] = [drawn[t] EXCEPT !.avail = Larger(given[t], Now)]
            BY <2>2
        <3> QED BY <2>1, <3>1, <3>2 DEF Candidate
    <2>3. CASE t \notin DOMAIN given
        BY <2>1, <2>3
    <2> QED BY <2>2, <2>3
<1>3. DOMAIN c = DOMAIN drawn
    OBVIOUS
<1> HIDE DEF c
<1>4. ArePlannable(c)
    <2>1. \A t \in DOMAIN drawn : \A u \in drawn[t].children :
             u \in DOMAIN drawn /\ drawn[u].rank < drawn[t].rank
        BY DEF ArePlannable, Candidate
    <2>2. IsFiniteSet(DOMAIN c) /\ DOMAIN c \subseteq Int
        BY <1>3 DEF ArePlannable
    <2> QED BY <1>2, <1>3, <2>1, <2>2 DEF ArePlannable
<1>5. IsPlanFor(c, PlanOf(c, Now))
    BY <1>1, <1>4, PlanOfIsPlan
<1>6. PlanWith(given) = PlanOf(c, Now)
    BY DEF PlanWith, c
<1> QED BY <1>2, <1>3, <1>5, <1>6 DEF IsPlanFor

(* The first task of a plan in the order of flattening: there is one.      *)
LEMMA FirstToFlatten ==
    ASSUME AreDays, ChainTypeOK, ArePlannable(drawn), DOMAIN drawn \subseteq AllTasks,
           IsPlanFor(drawn, plan),
           NEW S, S \subseteq DOMAIN plan, S # {}
    PROVE  First(S, LAMBDA u : FlattenKey(u)) \in S
<1> DEFINE IsFirst(t) == t \in S /\ \A u \in S \ {t} : Earlier(FlattenKey(t), FlattenKey(u))
<1>1. IsProject /\ \A t \in AllTasks : Priority[t] \in Int
    BY DEF AreDays
<1>2. S \subseteq AllTasks
    BY DEF IsPlanFor, ArePlannable
<1>3. \A t \in S : /\ drawn[t].rank \in Int /\ attr[t].ddl \in Int /\ Priority[t] \in Int
                   /\ StartIn(plan, t) \in Int
    <2> TAKE t \in S
    <2>1. t \in DOMAIN drawn /\ t \in AllTasks /\ t \in DOMAIN plan
        BY <1>2 DEF IsPlanFor
    <2>2. drawn[t].rank \in Int
        BY <2>1 DEF ArePlannable, Candidate
    <2>3. attr[t].ddl \in Int
        BY <2>1, NumbersOfTask
    <2>4. plan[t].hours \subseteq Int /\ IsFiniteSet(plan[t].hours) /\ plan[t].end \in Int
        BY <2>1 DEF IsPlanFor
    <2>5. StartIn(plan, t) \in Int
        BY <2>4, MinIsLeast DEF StartIn
    <2> QED BY <1>1, <2>1, <2>2, <2>3, <2>5
<1> DEFINE k == [t \in S |-> -drawn[t].rank]
           l == [t \in S |-> -attr[t].ddl]
           m == [t \in S |-> Priority[t]]
           n == [t \in S |-> -StartIn(plan, t)]
<1>4. IsFiniteSet(S) /\ S \subseteq Int
    BY <1>1, <1>2, TasksAreFinite
<1>5. k \in [S -> Int] /\ l \in [S -> Int] /\ m \in [S -> Int] /\ n \in [S -> Int]
    BY <1>3
<1>6. PICK t \in S : \A u \in S \ {t} : Precedes(k, l, m, n, t, u)
    <2> HIDE DEF k, l, m, n
    <2>1. ToOrder(S, k, l, m, n)
        BY <1>4, <1>5 DEF ToOrder
    <2> QED BY <2>1, LeastInOrder
<1>7. ASSUME NEW u \in S \ {t} PROVE Earlier(FlattenKey(t), FlattenKey(u))
    <2> DEFINE a == FlattenKey(t)
               b == FlattenKey(u)
    <2>1. a = <<k[t], l[t], m[t], n[t], t>> /\ b = <<k[u], l[u], m[u], n[u], u>>
        BY DEF FlattenKey
    <2>2. Len(a) = 5
        BY <2>1
    <2> HIDE DEF a, b, k, l, m, n
    <2>3. Precedes(k, l, m, n, t, u)
        BY <1>6
    <2>4. \E i \in 1..5 : a[i] < b[i] /\ \A j \in 1..(i - 1) : a[j] = b[j]
        BY <2>1, <2>3, FiveKeys DEF Precedes
    <2> QED BY <2>2, <2>4 DEF Earlier, a, b
<1>8. IsFirst(t)
    BY <1>7
<1>9. First(S, LAMBDA u : FlattenKey(u)) = CHOOSE v : IsFirst(v)
    BY DEF First
<1>10. IsFirst(CHOOSE v : IsFirst(v))
    <2> HIDE DEF IsFirst
    <2> QED BY <1>8
<1> QED BY <1>9, <1>10

(* A segment is a run of hours, and the hour after it is none.             *)
LEMMA SegmentIsRun ==
    ASSUME NEW hours, hours \subseteq Int, IsFiniteSet(hours), NEW s \in Segments(hours)
    PROVE  /\ s.from \in Int /\ s.to \in Int /\ s.from < s.to /\ s.to \notin hours
           /\ \A h \in Int : s.from <= h /\ h < s.to => h \in hours
<1>1. PICK a \in hours :
         /\ a - 1 \notin hours
         /\ s = [from |-> a, to |-> Min({b \in (a + 1)..(Max(hours) + 1) : b \notin hours})]
    BY DEF Segments
<1> DEFINE m == Max(hours)
           B == {b \in (a + 1)..(m + 1) : b \notin hours}
           z == Min(B)
<1>2. m \in hours /\ m \in Int /\ \A h \in hours : h <= m
    BY <1>1, MaxIsGreatest
<1>3. s.from = a /\ s.to = z /\ a \in Int
    BY <1>1
<1> HIDE DEF m
<1>4. a <= m /\ m + 1 \notin hours
    BY <1>2, <1>3
<1>5. m + 1 \in B
    BY <1>2, <1>3, <1>4
<1>6. IsFiniteSet(B) /\ B \subseteq Int
    <2>1. IsFiniteSet((a + 1)..(m + 1)) /\ (a + 1)..(m + 1) \subseteq Int
        <3>1. a + 1 \in Int /\ m + 1 \in Int
            BY <1>2, <1>3
        <3> QED BY <3>1, FS_Interval
    <2>2. B \subseteq (a + 1)..(m + 1)
        OBVIOUS
    <2> HIDE DEF B
    <2> QED BY <2>1, <2>2, FS_Subset
<1>7. z \in B /\ \A b \in B : z <= b
    <2> HIDE DEF B
    <2> QED BY <1>5, <1>6, MinIsLeast
<1>8. z \in Int /\ z > a /\ z <= m + 1 /\ z \notin hours
    BY <1>2, <1>3, <1>6, <1>7
<1>9. ASSUME NEW h \in Int, a <= h, h < z PROVE h \in hours
    <2>1. CASE h = a
        BY <1>1, <2>1
    <2>2. CASE h # a
        <3> SUFFICES ASSUME h \notin hours PROVE FALSE
            OBVIOUS
        <3>1. h \in (a + 1)..(m + 1)
            <4> HIDE DEF z
            <4> QED BY <1>2, <1>3, <1>8, <1>9, <2>2
        <3>2. h \in B
            BY <3>1
        <3>3. z <= h
            BY <1>7, <3>2
        <3> HIDE DEF z
        <3> QED BY <1>8, <1>9, <3>3
    <2> QED BY <2>1, <2>2
<1> HIDE DEF z
<1> QED BY <1>3, <1>8, <1>9

(* Every hour is in one.                                                   *)
LEMMA SegmentsCover ==
    ASSUME NEW hours, hours \subseteq Int, IsFiniteSet(hours), NEW h \in hours
    PROVE  \E s \in Segments(hours) : s.from <= h /\ h < s.to
<1> DEFINE A == {x \in hours : x <= h /\ x..h \subseteq hours}
           a == Min(A)
           s == [from |-> a, to |-> Min({b \in (a + 1)..(Max(hours) + 1) : b \notin hours})]
<1>1. h \in A
    <2>1. h \in Int /\ h..h = {h}
        OBVIOUS
    <2> QED BY <2>1
<1>2. IsFiniteSet(A) /\ A \subseteq Int
    <2>1. A \subseteq hours
        OBVIOUS
    <2> HIDE DEF A
    <2> QED BY <2>1, FS_Subset
<1>3. a \in A /\ \A x \in A : a <= x
    <2> HIDE DEF A
    <2> QED BY <1>1, <1>2, MinIsLeast
<1>4. a \in hours /\ a \in Int /\ a <= h /\ a..h \subseteq hours /\ h \in Int
    BY <1>2, <1>3
<1>5. a - 1 \notin hours
    <2> SUFFICES ASSUME a - 1 \in hours PROVE FALSE
        OBVIOUS
    <2> HIDE DEF a
    <2>1. \A x \in (a - 1)..h : x = a - 1 \/ x \in a..h
        BY <1>4
    <2>2. a - 1 <= h /\ (a - 1)..h \subseteq hours
        BY <1>4, <2>1
    <2>3. a - 1 \in A
        BY <2>2
    <2>4. a <= a - 1
        BY <1>3, <2>3
    <2> QED BY <1>4, <2>4
<1>6. s \in Segments(hours)
    <2> HIDE DEF a
    <2> QED BY <1>4, <1>5 DEF Segments
<1>7. s.from = a
    OBVIOUS
<1> HIDE DEF s, a
<1>8. s.to \in Int /\ s.to > a /\ s.to \notin hours
    BY <1>6, <1>7, SegmentIsRun
<1>9. h < s.to
    <2> SUFFICES ASSUME s.to <= h PROVE FALSE
        BY <1>4, <1>8
    <2>1. s.to \in a..h
        BY <1>4, <1>8
    <2> QED BY <1>4, <1>8, <2>1
<1> QED BY <1>4, <1>6, <1>7, <1>9

(* The first segment of a task begins with its first hour.                 *)
LEMMA FirstSegment ==
    ASSUME NEW hours, hours \subseteq Int, IsFiniteSet(hours), hours # {}
    PROVE  \E s \in Segments(hours) : s.from = Min(hours)
<1> DEFINE a == Min(hours)
           s == [from |-> a, to |-> Min({b \in (a + 1)..(Max(hours) + 1) : b \notin hours})]
<1>1. a \in hours /\ a \in Int /\ \A h \in hours : a <= h
    BY MinIsLeast
<1>2. a - 1 \notin hours
    <2> HIDE DEF a
    <2> QED BY <1>1
<1>3. s \in Segments(hours)
    <2> HIDE DEF a
    <2> QED BY <1>1, <1>2 DEF Segments
<1> QED BY <1>3

(* Days are in order, and a day's first hour is on it.                     *)
LEMMA DaysOfFlattening ==
    ASSUME AreDays, NEW d \in Today..(Today + Horizon)
    PROVE  /\ d \in Int /\ NextDay(d) \in Int /\ NextDay(d) > d
           /\ StartOf(NextDay(d)) \in Int /\ DayOf(StartOf(NextDay(d))) = NextDay(d)
<1>1. /\ DayLength \in Nat \ {0} /\ Horizon \in Nat /\ OverflowDay \in Int /\ OverflowDay > Horizon
      /\ Now \in Int
    BY DEF AreDays, IsProject
<1>2. Today \in Int
    BY <1>1, DayAndSlot DEF Today, DayOf
<1>3. d \in Int /\ NextDay(d) \in Int /\ NextDay(d) > d
    BY <1>1, <1>2 DEF NextDay
<1>4. \A e \in Int : StartOf(e) \in Int /\ DayOf(StartOf(e)) = e
    <2> TAKE e \in Int
    <2>1. 0 \in HoursOfDay
        BY <1>1 DEF HoursOfDay
    <2>2. e * DayLength \in Int /\ e * DayLength + 0 = e * DayLength
        BY <1>1
    <2>3. (e * DayLength + 0) \div DayLength = e
        BY <1>1, <2>1, SlotOfDay
    <2> QED BY <2>2, <2>3 DEF StartOf, DayOf
<1> QED BY <1>3, <1>4

\* Flattening at work: what it plans are tasks and times.
AreFlattened ==
    /\ ChainTypeOK /\ ArePlannable(drawn) /\ DOMAIN drawn \subseteq AllTasks /\ IsPlanFor(drawn, plan)
    /\ \A t \in DOMAIN before : before[t].end \in Int
    /\ \A t \in DOMAIN over : over[t] \in Int

\* And nothing is late in its plan that was not as late to begin with.
FlattenInv ==
    /\ job \in {"idle", "flatten"} => AreFlattened
    /\ job = "flatten" => fresh /\ NoLater(before, plan)

(* What is no later than a plan that is no later than another is no later  *)
(* than that one.                                                          *)
LEMMA LatenessIsTransitive ==
    ASSUME ChainTypeOK, NEW p, NEW q, NEW r,
           \A t \in DOMAIN p : p[t].end \in Int,
           IsPlanFor(drawn, q), IsPlanFor(drawn, r), DOMAIN drawn \subseteq AllTasks,
           NoLater(p, q), NoLater(q, r)
    PROVE  NoLater(p, r)
<1> SUFFICES ASSUME NEW t \in DOMAIN r, r[t].end > attr[t].ddl
             PROVE  t \in DOMAIN p /\ r[t].end <= p[t].end
    BY DEF NoLater
<1>1. t \in AllTasks /\ attr[t].ddl \in Int /\ r[t].end \in Int
    BY NumbersOfTask DEF IsPlanFor
<1>2. t \in DOMAIN q /\ r[t].end <= q[t].end
    BY DEF NoLater
<1>3. q[t].end \in Int /\ q[t].end > attr[t].ddl
    BY <1>1, <1>2 DEF IsPlanFor
<1>4. t \in DOMAIN p /\ q[t].end <= p[t].end
    BY <1>2, <1>3 DEF NoLater
<1>5. p[t].end \in Int
    BY <1>4
<1> QED BY <1>1, <1>2, <1>3, <1>4, <1>5

(* A turn of flattening keeps what is late as it was, and what it moves it *)
(* moves to a later day.                                                   *)
LEMMA TurnIsSound ==
    ASSUME AreDays, FlattenInv, FlattenTurn
    PROVE  FlattenInv' /\ MovesOn
<1> DEFINE d == Min(Overloaded)
           t == First(Movable(d), LAMBDA u : FlattenKey(u))
           day == NextDay(d)
<1>1. /\ job = "flatten" /\ AreFlattened /\ fresh /\ NoLater(before, plan)
      /\ UNCHANGED <<up, attr, drawn, fresh, job, queue, before, packed>>
      /\ Overloaded # {} /\ Relieve(d)
    BY DEF FlattenTurn, FlattenInv
<1>2. d \in Overloaded /\ d \in Today..(Today + Horizon) /\ d \notin blocked
    <2>1. Today \in Int /\ Horizon \in Nat
        BY DayAndSlot DEF AreDays, IsProject, Today, DayOf
    <2>2. IsFiniteSet(Today..(Today + Horizon)) /\ Today..(Today + Horizon) \subseteq Int
        BY <2>1, FS_Interval
    <2>3. Overloaded \subseteq Today..(Today + Horizon)
        BY DEF Overloaded
    <2>4. IsFiniteSet(Overloaded) /\ Overloaded \subseteq Int
        BY <2>2, <2>3, FS_Subset
    <2>5. d \in Overloaded
        BY <1>1, <2>4, MinIsLeast
    <2> QED BY <2>5 DEF Overloaded
<1> HIDE DEF d
<1>3. CASE Movable(d) = {}
    <2>1. blocked' = blocked \cup {d} /\ UNCHANGED <<over, plan>>
        BY <1>1, <1>3 DEF Relieve
    <2>2. blocked' # blocked
        BY <1>2, <2>1
    <2>3. FlattenInv'
        BY <1>1, <2>1 DEF FlattenInv, AreFlattened, ChainTypeOK, ArePlannable, IsPlanFor, NoLater
    <2> QED BY <2>2, <2>3 DEF MovesOn
<1>4. CASE Movable(d) # {}
    <2>1. over' = With(over, t, StartOf(day)) /\ UNCHANGED blocked /\ plan' = PlanWith(over')
        BY <1>1, <1>4 DEF Relieve
    <2>2. t \in Movable(d)
        <3>1. Movable(d) \subseteq DOMAIN plan
            BY DEF Movable
        <3> QED BY <1>1, <1>4, <3>1, FirstToFlatten DEF AreFlattened
    <2> HIDE DEF t
    <2>3. /\ t \in DOMAIN plan /\ Touches(t, d) /\ OnDay(plan, t, d)
          /\ NoLater(plan, PlanWith(With(over, t, StartOf(day))))
        BY <2>2 DEF Movable
    <2>4. day \in Int /\ day > d /\ d \in Int /\ StartOf(day) \in Int /\ DayOf(StartOf(day)) = day
        BY <1>2, DaysOfFlattening
    <2> HIDE DEF day
    <2>5. /\ DOMAIN over' = DOMAIN over \cup {t} /\ over'[t] = StartOf(day)
          /\ \A u \in DOMAIN over \ {t} : over'[u] = over[u]
        BY <2>1 DEF With
    <2>6. \A u \in DOMAIN over' : over'[u] \in Int
        BY <1>1, <2>4, <2>5 DEF AreFlattened
    <2>7. IsPlanFor(drawn, PlanWith(over'))
        <3> DEFINE given == over'
        <3>1. \A u \in DOMAIN given : given[u] \in Int
            BY <2>6
        <3> HIDE DEF given
        <3>2. IsPlanFor(drawn, PlanWith(given))
            BY <1>1, <3>1, PlanWithIsPlan DEF AreFlattened
        <3> QED BY <3>2 DEF given
    <2>8. NoLater(plan, plan')
        BY <2>1, <2>3
    <2>9. NoLater(before, plan')
        <3> DEFINE new == plan'
        <3>1. IsPlanFor(drawn, new) /\ NoLater(plan, new)
            BY <2>1, <2>7, <2>8
        <3> HIDE DEF new
        <3>2. NoLater(before, new)
            BY <1>1, <3>1, LatenessIsTransitive DEF AreFlattened, ArePlannable
        <3> QED BY <3>2 DEF new
    <2>10. IsPlanFor(drawn, plan')
        BY <2>1, <2>7
    <2>11. FlattenInv'
        <3>1. AreFlattened'
            BY <1>1, <2>6, <2>10 DEF AreFlattened, ChainTypeOK, ArePlannable, IsPlanFor
        <3>2. fresh' /\ NoLater(before, plan)'
            BY <1>1, <2>9 DEF NoLater
        <3> QED BY <3>1, <3>2 DEF FlattenInv
    <2>12. DayOf(StartIn(plan, t)) = d
        <3>1. plan[t].hours \subseteq Int /\ IsFiniteSet(plan[t].hours)
            BY <1>1, <2>3 DEF AreFlattened, IsPlanFor
        <3>2. plan[t].hours # {}
            BY <2>3 DEF Touches, Segments
        <3>3. PICK s \in Segments(plan[t].hours) : s.from = Min(plan[t].hours)
            BY <3>1, <3>2, FirstSegment
        <3> QED BY <2>3, <3>2, <3>3 DEF OnDay, StartIn
    <2>13. MovesOn
        BY <2>4, <2>5, <2>12 DEF MovesOn
    <2> QED BY <2>11, <2>13
<1> QED BY <1>3, <1>4

(* Every step of the program keeps the invariant of flattening and, as far *)
(* as it is a turn of it, moves on.                                        *)
LEMMA StepsFlatten ==
    ASSUME AreDays, FlattenInv, [PlanNext]_planVars
    PROVE  FlattenInv' /\ (MovesOn \/ UNCHANGED planVars)
<1>1. CASE UNCHANGED planVars
    <2>1. FlattenInv'
        BY <1>1 DEF planVars, FlattenInv, AreFlattened, ChainTypeOK, ArePlannable, IsPlanFor, NoLater
    <2> QED BY <1>1, <2>1
<1>2. CASE GetSchedule
    <2>1. job # "flatten" /\ UNCHANGED <<up, attr, job, over, before>>
        BY <1>2 DEF GetSchedule, FlattenInv
    <2>2. ASSUME job = "idle" PROVE AreFlattened'
        <3>1. AreFlattened /\ drawn' = ToPlan /\ plan' = PlanOf(drawn', Now)
            BY <1>2, <2>2 DEF GetSchedule, FlattenInv
        <3>2. ArePlannable(ToPlan) /\ DOMAIN ToPlan \subseteq AllTasks /\ Now \in Int
            BY <3>1, ToPlanIsPlannable DEF AreFlattened, AreDays, IsProject
        <3>3. IsPlanFor(ToPlan, PlanOf(ToPlan, Now))
            BY <3>2, PlanOfIsPlan
        <3>4. ArePlannable(drawn') /\ DOMAIN drawn' \subseteq AllTasks /\ IsPlanFor(drawn', plan')
            BY <3>1, <3>2, <3>3
        <3>5. ArePlannable(drawn)' /\ IsPlanFor(drawn, plan)'
            BY <3>4 DEF ArePlannable, IsPlanFor
        <3> QED BY <2>1, <3>1, <3>4, <3>5 DEF AreFlattened, ChainTypeOK
    <2> QED BY <2>1, <2>2 DEF FlattenInv, MovesOn
<1>3. CASE StartFlatten
    <2>1. /\ AreFlattened /\ fresh /\ job = "idle" /\ before' = plan
          /\ UNCHANGED <<up, attr, drawn, plan, fresh, over>>
        BY <1>3 DEF StartFlatten, FlattenInv
    <2>2. AreFlattened'
        BY <2>1 DEF AreFlattened, ChainTypeOK, ArePlannable, IsPlanFor
    <2>3. NoLater(plan, plan)
        BY <2>1 DEF NoLater, AreFlattened, IsPlanFor
    <2>4. fresh' /\ NoLater(before, plan)'
        BY <2>1, <2>3 DEF NoLater
    <2> QED BY <2>1, <2>2, <2>4 DEF FlattenInv, MovesOn
<1>4. CASE FlattenTurn
    BY <1>4, TurnIsSound
<1>5. CASE SaveFlattened
    BY <1>5 DEF SaveFlattened, FlattenInv, MovesOn
<1>6. CASE StartPack
    BY <1>6 DEF StartPack, FlattenInv, MovesOn
<1>7. CASE PackNext
    BY <1>7 DEF PackNext, FlattenInv, MovesOn
<1> QED BY <1>1, <1>2, <1>3, <1>4, <1>5, <1>6, <1>7 DEF PlanNext

(* To begin with there is no plan and nothing is moved.                    *)
LEMMA FlatteningBegins ==
    ASSUME AreDays, PlanInit
    PROVE  FlattenInv
<1>1. /\ up \in Ups /\ attr \in Attributes /\ job = "idle"
      /\ DOMAIN over = {} /\ DOMAIN drawn = {} /\ DOMAIN plan = {} /\ DOMAIN before = {}
    BY DEF PlanInit, AreDays
<1> QED BY <1>1, FS_EmptySet DEF FlattenInv, AreFlattened, ChainTypeOK, ArePlannable, IsPlanFor

(* However many tasks and days there are and however full the days: no     *)
(* move of flattening makes a task late that was not as late before, and   *)
(* every turn gives up a day or puts a task off to a later one.            *)
THEOREM FlattenIsSound == AreDays => (PlanSpec => []NothingNewIsLate /\ MovesForward)
<1>1. ASSUME AreDays PROVE PlanInit => FlattenInv
    BY <1>1, FlatteningBegins
<1>2. ASSUME AreDays PROVE PlanSpec => []NothingNewIsLate /\ MovesForward
    <2>1. PlanInit => FlattenInv
        BY <1>1, <1>2
    <2>2. FlattenInv /\ [PlanNext]_planVars => FlattenInv' /\ [MovesOn]_planVars
        BY <1>2, StepsFlatten
    <2>3. FlattenInv => NothingNewIsLate
        BY DEF FlattenInv, NothingNewIsLate
    <2> QED BY <2>1, <2>2, <2>3, PTL DEF PlanSpec, MovesForward
<1> QED BY <1>2

-----------------------------------------------------------------------------
(***************************************************************************)
(* The hours of a task in a plan                                           *)
(***************************************************************************)
\* The hours of a task, in one piece or not, and where it can begin.
HoursFrom(p, from, work, whole) == IF whole THEN InOnePiece(p, from, work) ELSE InPieces(p, from, work)
IsRoom(p, work, whole, b) == IF whole THEN (b..(b + work - 1)) \cap Taken(p) = {} ELSE b \notin Taken(p)

(* Which hours the pieces are: until there are enough of them.             *)
LEMMA PiecesAre ==
    ASSUME NEW p, IsFiniteSet(Taken(p)), Cardinality(Taken(p)) \in Nat,
           NEW from \in Int, NEW work \in Nat, NEW h \in Int
    PROVE  h \in InPieces(p, from, work) <=>
               /\ h >= from /\ h \notin Taken(p)
               /\ Cardinality((from..(h - 1)) \ Taken(p)) < work
<1> DEFINE T == Taken(p)
           n == Cardinality(Taken(p))
           free == (from..(from + work + n)) \ T
           gone == (from..(h - 1)) \ T
<1>1. h \in InPieces(p, from, work) <=> h \in free /\ Cardinality({g \in free : g < h}) < work
    BY DEF InPieces
<1>2. h \in from..(from + work + n) => {g \in free : g < h} = gone
    <2> SUFFICES ASSUME h \in from..(from + work + n) PROVE {g \in free : g < h} = gone
        OBVIOUS
    <2>1. \A g \in from..(from + work + n) : g < h <=> g \in from..(h - 1)
        <3> HIDE DEF n
        <3>1. n \in Int
            BY DEF n
        <3> QED BY <3>1
    <2>2. \A g \in from..(h - 1) : g \in from..(from + work + n)
        <3> HIDE DEF n
        <3>1. n \in Int
            BY DEF n
        <3> QED BY <3>1
    <2> HIDE DEF T
    <2> QED BY <2>1, <2>2
<1>3. ASSUME h > from + work + n PROVE Cardinality(gone) >= work
    <2> DEFINE I == from..(h - 1)
    <2>1. IsFiniteSet(I) /\ Cardinality(I) = h - from
        <3>1. ~(from > h - 1) /\ h - 1 \in Int /\ (h - 1) - from + 1 = h - from
            <4> HIDE DEF n
            <4>1. n \in Nat
                BY DEF n
            <4> QED BY <1>3, <4>1
        <3> QED BY <3>1, FS_Interval
    <2> HIDE DEF I
    <2>2. IsFiniteSet(I \cap T) /\ Cardinality(I \cap T) <= n
        <3>1. I \cap T \in SUBSET T
            OBVIOUS
        <3> QED BY <3>1, FS_Subset
    <2>3. Cardinality(I \ T) = Cardinality(I) - Cardinality(I \cap T)
        BY <2>1, FS_Difference
    <2>4. Cardinality(I \cap T) \in Nat
        BY <2>2, FS_CardinalityType
    <2>5. gone = I \ T
        BY DEF I
    <2> HIDE DEF n, gone, T
    <2>6. n \in Nat
        BY DEF n
    <2> QED BY <1>3, <2>1, <2>2, <2>3, <2>4, <2>5, <2>6
<1>4. IsFiniteSet(gone) /\ Cardinality(gone) \in Nat
    <2>1. h - 1 \in Int
        OBVIOUS
    <2> QED BY <2>1, FS_Interval, FS_Difference, FS_CardinalityType
<1>5. n \in Nat /\ (h \in free <=> h >= from /\ h <= from + work + n /\ h \notin T)
    OBVIOUS
<1> DEFINE Many == Cardinality(gone)
<1>9. Many \in Nat /\ (h > from + work + n => Many >= work)
    BY <1>3, <1>4
<1>10. h \in InPieces(p, from, work) <=> h >= from /\ h \notin T /\ Many < work
    <2>1. CASE h <= from + work + n /\ h >= from
        <3>1. h \in from..(from + work + n)
            <4> HIDE DEF n
            <4> QED BY <2>1, <1>5
        <3>2. {g \in free : g < h} = gone
            BY <1>2, <3>1
        <3> HIDE DEF n, free, gone, T
        <3> QED BY <1>1, <1>5, <2>1, <3>2
    <2> HIDE DEF n, free, gone, T, Many
    <2>2. CASE h > from + work + n
        BY <1>1, <1>9, <1>5, <2>2
    <2>3. CASE h < from
        BY <1>1, <1>5, <2>3
    <2> QED BY <1>5, <2>1, <2>2, <2>3
<1> QED BY <1>10

(* The work of a task begins at the first room for it.                     *)
LEMMA BeginsInRoom ==
    ASSUME NEW p, IsFiniteSet(Taken(p)), Cardinality(Taken(p)) \in Nat,
           NEW from \in Int, NEW work \in Nat, work > 0, NEW whole \in BOOLEAN
    PROVE  LET x == Min(HoursFrom(p, from, work, whole))
           IN  /\ x \in Int /\ x >= from /\ IsRoom(p, work, whole, x) /\ x \notin Taken(p)
               /\ \A b \in Int : b >= from /\ IsRoom(p, work, whole, b) => x <= b
               /\ whole => HoursFrom(p, from, work, whole) = x..(x + work - 1)
<1> DEFINE T == Taken(p)
           H == HoursFrom(p, from, work, whole)
           x == Min(H)
<1>0. IsFiniteSet(H) /\ H \subseteq Int /\ H # {}
    BY HoursAreTimes DEF HoursFrom
<1>1. x \in H /\ x \in Int /\ \A h \in H : x <= h
    <2> HIDE DEF H
    <2> QED BY <1>0, MinIsLeast
<1>2. CASE whole
    <2> DEFINE n == Cardinality(Taken(p))
               last == from + work * (n + 1)
               B == {b \in from..last : (b..(b + work - 1)) \cap T = {}}
               m == Min(B)
    <2>1. last \in Int
        <3>1. work * (n + 1) \in Int
            <4> HIDE DEF n
            <4>1. n \in Nat
                BY DEF n
            <4> QED BY <4>1
        <3> QED BY <3>1
    <2>2. \E b \in from..last : (b..(b + work - 1)) \cap T = {}
        <3>1. IsFiniteSet(T)
            OBVIOUS
        <3> HIDE DEF T
        <3> QED BY <3>1, SomeBlockIsFree DEF T
    <2>3. IsFiniteSet(B) /\ B \subseteq Int /\ B # {} /\ B \subseteq from..last
        <3>1. B \subseteq from..last /\ B # {}
            BY <2>2
        <3>2. IsFiniteSet(from..last) /\ from..last \subseteq Int
            <4> HIDE DEF last
            <4> QED BY <2>1, FS_Interval
        <3> HIDE DEF B, last
        <3> QED BY <3>1, <3>2, FS_Subset
    <2>4. m \in B /\ \A b \in B : m <= b
        <3> HIDE DEF B
        <3> QED BY <2>3, MinIsLeast
    <2>5. H = m..(m + work - 1)
        BY <1>2 DEF HoursFrom, InOnePiece
    <2>6. m \in from..last /\ (m..(m + work - 1)) \cap T = {} /\ m \in Int /\ m >= from /\ m <= last
        <3>1. m \in from..last /\ (m..(m + work - 1)) \cap T = {}
            BY <2>4
        <3> HIDE DEF m, last
        <3> QED BY <2>1, <3>1
    <2>7. ASSUME NEW b \in Int, b >= from, (b..(b + work - 1)) \cap T = {} PROVE m <= b
        <3>1. CASE b \in from..last
            <4>1. b \in B
                BY <2>7, <3>1
            <4> HIDE DEF m, B
            <4> QED BY <2>4, <4>1
        <3>2. CASE b \notin from..last
            <4> HIDE DEF m, last
            <4> QED BY <2>1, <2>6, <2>7, <3>2
        <3> QED BY <3>1, <3>2
    <2> HIDE DEF m, B, last
    <2>8. x = m
        <3>1. m \in H
            BY <2>5, <2>6
        <3>2. x >= m
            BY <1>1, <2>5, <2>6
        <3> HIDE DEF x
        <3> QED BY <1>1, <2>6, <3>1, <3>2
    <2>9. x \notin T
        <3>1. m \in m..(m + work - 1)
            BY <2>6
        <3> QED BY <2>6, <2>8, <3>1
    <2> HIDE DEF x, T
    <2> QED BY <1>1, <1>2, <2>5, <2>6, <2>7, <2>8, <2>9 DEF IsRoom, x, H, T
<1>3. CASE ~whole
    <2>1. H = InPieces(p, from, work)
        BY <1>3 DEF HoursFrom
    <2>2. x >= from /\ x \notin T /\ Cardinality((from..(x - 1)) \ T) < work
        <3> HIDE DEF H
        <3> QED BY <1>1, <2>1, PiecesAre
    <2>3. ASSUME NEW b \in Int, b >= from, b \notin T PROVE x <= b
        <3> SUFFICES ASSUME b < x PROVE FALSE
            BY <1>1
        <3> HIDE DEF x
        <3>1. (from..(b - 1)) \ T \subseteq (from..(x - 1)) \ T
            BY <1>1
        <3>2. IsFiniteSet((from..(x - 1)) \ T)
            <4>1. x - 1 \in Int
                BY <1>1
            <4> QED BY <4>1, FS_Interval, FS_Difference
        <3>3. /\ Cardinality((from..(b - 1)) \ T) <= Cardinality((from..(x - 1)) \ T)
              /\ Cardinality((from..(b - 1)) \ T) \in Nat /\ Cardinality((from..(x - 1)) \ T) \in Nat
            BY <3>1, <3>2, FS_Subset, FS_CardinalityType
        <3>4. Cardinality((from..(b - 1)) \ T) < work
            <4> DEFINE k == Cardinality((from..(b - 1)) \ T)
                       l == Cardinality((from..(x - 1)) \ T)
            <4>1. k <= l /\ k \in Nat /\ l \in Nat /\ l < work
                BY <2>2, <3>3
            <4> HIDE DEF k, l
            <4>2. k < work
                BY <4>1
            <4> QED BY <4>2 DEF k
        <3>5. b \in H
            BY <2>1, <2>3, <3>4, PiecesAre
        <3> QED BY <1>1, <3>5
    <2> HIDE DEF x, T
    <2> QED BY <1>1, <1>3, <2>2, <2>3 DEF IsRoom, x, H, T
<1> QED BY <1>2, <1>3

(* Beginning to look for room later finds the same one when nothing is     *)
(* passed over.                                                            *)
LEMMA SameHours ==
    ASSUME NEW p, IsFiniteSet(Taken(p)), Cardinality(Taken(p)) \in Nat,
           NEW from \in Int, NEW later \in Int, NEW work \in Nat, work > 0, NEW whole \in BOOLEAN,
           from <= later, later <= Min(HoursFrom(p, from, work, whole))
    PROVE  HoursFrom(p, later, work, whole) = HoursFrom(p, from, work, whole)
<1> DEFINE T == Taken(p)
           x == Min(HoursFrom(p, from, work, whole))
           y == Min(HoursFrom(p, later, work, whole))
<1>1. /\ x \in Int /\ x >= from /\ IsRoom(p, work, whole, x) /\ x \notin T
      /\ \A b \in Int : b >= from /\ IsRoom(p, work, whole, b) => x <= b
    BY BeginsInRoom
<1>2. /\ y \in Int /\ y >= later /\ IsRoom(p, work, whole, y)
      /\ \A b \in Int : b >= later /\ IsRoom(p, work, whole, b) => y <= b
    BY BeginsInRoom
<1>3. x = y
    <2>1. x <= y
        <3> HIDE DEF x, y
        <3> QED BY <1>1, <1>2
    <2>2. y <= x
        <3>1. x >= later
            BY <1>1
        <3> HIDE DEF x, y
        <3> QED BY <1>1, <1>2, <3>1
    <2> HIDE DEF x, y
    <2> QED BY <1>1, <1>2, <2>1, <2>2
<1>4. CASE whole
    <2>1. /\ HoursFrom(p, from, work, whole) = x..(x + work - 1)
          /\ HoursFrom(p, later, work, whole) = y..(y + work - 1)
        BY <1>4, BeginsInRoom
    <2> HIDE DEF x, y
    <2> QED BY <1>3, <2>1
<1>5. CASE ~whole
    <2>1. \A g \in Int : g >= from /\ g < later => g \in T
        <3> SUFFICES ASSUME NEW g \in Int, g >= from, g < later, g \notin T PROVE FALSE
            OBVIOUS
        <3>1. x <= g
            BY <1>1, <1>5 DEF IsRoom
        <3>2. later <= x
            OBVIOUS
        <3> HIDE DEF x
        <3> QED BY <1>1, <3>1, <3>2
    <2>2. ASSUME NEW h \in Int, h \notin T PROVE (from..(h - 1)) \ T = (later..(h - 1)) \ T
        <3> HIDE DEF T
        <3>1. \A g \in from..(h - 1) : g \notin T => g \in later..(h - 1)
            BY <2>1
        <3>2. \A g \in later..(h - 1) : g \in from..(h - 1)
            OBVIOUS
        <3> QED BY <3>1, <3>2
    <2>3. ASSUME NEW h \in Int PROVE h \in InPieces(p, from, work) <=> h \in InPieces(p, later, work)
        <3>1. h \in InPieces(p, from, work) <=>
                  h >= from /\ h \notin T /\ Cardinality((from..(h - 1)) \ T) < work
            BY PiecesAre
        <3>2. h \in InPieces(p, later, work) <=>
                  h >= later /\ h \notin T /\ Cardinality((later..(h - 1)) \ T) < work
            BY PiecesAre
        <3>3. h \notin T => (h >= from <=> h >= later)
            BY <2>1
        <3> HIDE DEF T
        <3> QED BY <2>2, <3>1, <3>2, <3>3
    <2>4. InPieces(p, from, work) \subseteq Int /\ InPieces(p, later, work) \subseteq Int
        BY HoursAreTimes
    <2> QED BY <1>5, <2>3, <2>4 DEF HoursFrom
<1> QED BY <1>4, <1>5

(* And they are not more than its work.                                    *)
LEMMA HoursAreWork ==
    ASSUME NEW p, IsFiniteSet(Taken(p)), Cardinality(Taken(p)) \in Nat,
           NEW from \in Int, NEW work \in Nat, work > 0, NEW whole \in BOOLEAN
    PROVE  Cardinality(HoursFrom(p, from, work, whole)) <= work
<1> DEFINE T == Taken(p)
           H == HoursFrom(p, from, work, whole)
           m == Max(H)
<1>0. IsFiniteSet(H) /\ H \subseteq Int /\ H # {}
    BY HoursAreTimes DEF HoursFrom
<1>1. CASE whole
    <2>1. PICK x \in Int : H = x..(x + work - 1)
        BY <1>1, BeginsInRoom
    <2> DEFINE z == x + work - 1
    <2>2. z \in Int /\ ~(x > z) /\ z - x + 1 = work /\ H = x..z
        BY <2>1
    <2> HIDE DEF H, z
    <2>3. Cardinality(x..z) = work
        BY <2>2, FS_Interval
    <2> QED BY <2>2, <2>3 DEF H
<1>2. CASE ~whole
    <2>1. m \in H /\ m \in Int /\ \A h \in H : h <= m
        <3> HIDE DEF H
        <3> QED BY <1>0, MaxIsGreatest
    <2>2. H = InPieces(p, from, work)
        BY <1>2 DEF HoursFrom
    <2> DEFINE F == (from..(m - 1)) \ T
    <2> HIDE DEF H, m, T
    <2>3. Cardinality(F) < work
        BY <2>1, <2>2, PiecesAre DEF T
    <2>4. \A h \in H : h >= from /\ h \notin T
        BY <1>0, <2>2, PiecesAre DEF T
    <2>5. H \ {m} \subseteq F
        <3> SUFFICES ASSUME NEW h \in H, h # m PROVE h \in F
            OBVIOUS
        <3>1. h \in Int /\ h <= m /\ h >= from /\ h \notin T
            BY <1>0, <2>1, <2>4
        <3> QED BY <2>1, <3>1
    <2>6. IsFiniteSet(F) /\ Cardinality(F) \in Nat
        <3>1. m - 1 \in Int
            BY <2>1
        <3> QED BY <3>1, FS_Interval, FS_Difference, FS_CardinalityType
    <2>7. /\ Cardinality(H \ {m}) <= Cardinality(F) /\ Cardinality(H \ {m}) = Cardinality(H) - 1
          /\ Cardinality(H) \in Nat
        <3> HIDE DEF F
        <3> QED BY <1>0, <2>1, <2>5, <2>6, FS_Subset, FS_RemoveElement, FS_CardinalityType
    <2> DEFINE k == Cardinality(H)
               l == Cardinality(F)
    <2>8. k - 1 <= l /\ k \in Nat /\ l \in Nat /\ l < work
        BY <2>3, <2>6, <2>7
    <2> HIDE DEF k, l
    <2>9. k <= work
        BY <2>8
    <2> QED BY <2>9 DEF k, H
<1> QED BY <1>1, <1>2

-----------------------------------------------------------------------------
(***************************************************************************)
(* The turns of planning, when one task is available at another hour       *)
(***************************************************************************)
(* What comes sooner: place by place.                                      *)
LEMMA SoonerIs ==
    ASSUME NEW c, ArePlannable(c), NEW t \in DOMAIN c, NEW u \in DOMAIN c
    PROVE  SoonerIn(c, t, u) <=>
              \/ c[t].ddl < c[u].ddl
              \/ c[t].ddl = c[u].ddl /\ c[t].prio > c[u].prio
              \/ c[t].ddl = c[u].ddl /\ c[t].prio = c[u].prio /\ c[t].avail < c[u].avail
              \/ /\ c[t].ddl = c[u].ddl /\ c[t].prio = c[u].prio /\ c[t].avail = c[u].avail
                 /\ c[t].rank < c[u].rank
              \/ /\ c[t].ddl = c[u].ddl /\ c[t].prio = c[u].prio /\ c[t].avail = c[u].avail
                 /\ c[t].rank = c[u].rank /\ t < u
<1>1. \A v \in {t, u} : /\ c[v].ddl \in Int /\ c[v].prio \in Int /\ c[v].avail \in Int
                       /\ c[v].rank \in Int /\ v \in Int
    BY DEF ArePlannable, Candidate
<1> DEFINE a == KeyIn(c, t)
           b == KeyIn(c, u)
<1>2. /\ a = <<c[t].ddl, -c[t].prio, c[t].avail, c[t].rank, t>>
      /\ b = <<c[u].ddl, -c[u].prio, c[u].avail, c[u].rank, u>>
    BY DEF KeyIn
<1>3. /\ a[1] = c[t].ddl /\ a[2] = -c[t].prio /\ a[3] = c[t].avail /\ a[4] = c[t].rank /\ a[5] = t
      /\ b[1] = c[u].ddl /\ b[2] = -c[u].prio /\ b[3] = c[u].avail /\ b[4] = c[u].rank /\ b[5] = u
    BY <1>2
<1>4. SoonerIn(c, t, u) <=> \E i \in 1..5 : a[i] < b[i] /\ \A j \in 1..(i - 1) : a[j] = b[j]
    BY DEF SoonerIn
<1> HIDE DEF a, b
<1> DEFINE First1 == c[t].ddl < c[u].ddl
           Then2 == c[t].ddl = c[u].ddl /\ -c[t].prio < -c[u].prio
           Then3 == c[t].ddl = c[u].ddl /\ -c[t].prio = -c[u].prio /\ c[t].avail < c[u].avail
           Then4 == c[t].ddl = c[u].ddl /\ -c[t].prio = -c[u].prio /\ c[t].avail = c[u].avail
                    /\ c[t].rank < c[u].rank
           Then5 == c[t].ddl = c[u].ddl /\ -c[t].prio = -c[u].prio /\ c[t].avail = c[u].avail
                    /\ c[t].rank = c[u].rank /\ t < u
<1>5. ASSUME First1 \/ Then2 \/ Then3 \/ Then4 \/ Then5 PROVE SoonerIn(c, t, u)
    <2>1. \E i \in 1..5 : a[i] < b[i] /\ \A j \in 1..(i - 1) : a[j] = b[j]
        BY <1>2, <1>5, FiveKeys
    <2> QED BY <1>4, <2>1
<1>6. ASSUME NEW i \in 1..5, a[i] < b[i], \A j \in 1..(i - 1) : a[j] = b[j]
      PROVE  First1 \/ Then2 \/ Then3 \/ Then4 \/ Then5
    <2>1. i = 1 \/ i = 2 \/ i = 3 \/ i = 4 \/ i = 5
        OBVIOUS
    <2>2. CASE i = 1
        BY <1>3, <1>6, <2>2
    <2>3. CASE i = 2
        <3>1. a[1] = b[1]
            BY <1>6, <2>3
        <3> QED BY <1>3, <1>6, <2>3, <3>1
    <2>4. CASE i = 3
        <3>1. a[1] = b[1] /\ a[2] = b[2]
            BY <1>6, <2>4
        <3> QED BY <1>3, <1>6, <2>4, <3>1
    <2>5. CASE i = 4
        <3>1. a[1] = b[1] /\ a[2] = b[2] /\ a[3] = b[3]
            BY <1>6, <2>5
        <3> QED BY <1>3, <1>6, <2>5, <3>1
    <2>6. CASE i = 5
        <3>1. a[1] = b[1] /\ a[2] = b[2] /\ a[3] = b[3] /\ a[4] = b[4]
            BY <1>6, <2>6
        <3> QED BY <1>3, <1>6, <2>6, <3>1
    <2> QED BY <2>1, <2>2, <2>3, <2>4, <2>5, <2>6
<1>7. SoonerIn(c, t, u) <=> First1 \/ Then2 \/ Then3 \/ Then4 \/ Then5
    BY <1>4, <1>5, <1>6
<1> QED BY <1>1, <1>7

(* No two tasks each come sooner than the other.                           *)
LEMMA SoonerIsStrict ==
    ASSUME NEW c, ArePlannable(c), NEW t \in DOMAIN c, NEW u \in DOMAIN c
    PROVE  ~(SoonerIn(c, t, u) /\ SoonerIn(c, u, t))
<1>1. \A v \in {t, u} : /\ c[v].ddl \in Int /\ c[v].prio \in Int /\ c[v].avail \in Int
                       /\ c[v].rank \in Int /\ v \in Int
    BY DEF ArePlannable, Candidate
<1> QED BY <1>1, SoonerIs

\* A plan after the turn of its next task.
IsTurn(c, now, p, q, t) ==
    /\ t = NextTask(c, DOMAIN p) /\ t \in DOMAIN c \ DOMAIN p /\ c[t].children \subseteq DOMAIN p
    /\ q = [u \in DOMAIN p \cup {t} |-> IF u = t THEN Planned(c, p, t, now) ELSE p[u]]

\* Plans one turn after the other.
AreTurns(c, now, n, ps) ==
    /\ ps[0] = << >>
    /\ \A i \in 0..n : IsPlanFor(c, ps[i]) /\ IsFiniteSet(DOMAIN ps[i]) /\ Cardinality(DOMAIN ps[i]) = i
    /\ \A i \in 0..(n - 1) : IsTurn(c, now, ps[i], ps[i + 1], NextTask(c, DOMAIN ps[i]))
    /\ DOMAIN ps[n] = DOMAIN c

(* The plans of the first tasks are made so, and the last is of all tasks. *)
LEMMA PlansAreTurns ==
    ASSUME NEW c, ArePlannable(c), NEW now \in Int
    PROVE  Cardinality(DOMAIN c) \in Nat /\ AreTurns(c, now, Cardinality(DOMAIN c), PlansOf(c, now))
<1> DEFINE N == Cardinality(DOMAIN c)
           ps == PlansOf(c, now)
           IsStep(n) == IsPlanFor(c, ps[n]) /\ IsFiniteSet(DOMAIN ps[n]) /\ Cardinality(DOMAIN ps[n]) = n
           Good == {n \in Nat : n <= N => IsStep(n)}
<1>0. N \in Nat
    BY FS_CardinalityType DEF ArePlannable
<1>1. ps[0] = << >> /\ \A n \in 1..N : ps[n] = AndNext(c, now, ps[n - 1])
    BY <1>0, PlansFollow
<1> HIDE DEF N, ps
<1>2. 0 \in Good
    <2>1. DOMAIN ps[0] = {}
        BY <1>1
    <2> QED BY <2>1, FS_EmptySet DEF IsPlanFor
<1>3. ASSUME NEW n \in Nat, n < N, IsStep(n)
      PROVE  IsTurn(c, now, ps[n], ps[n + 1], NextTask(c, DOMAIN ps[n])) /\ IsStep(n + 1)
    <2> DEFINE p == ps[n]
               t == NextTask(c, DOMAIN p)
               new == Planned(c, p, t, now)
    <2>2. ps[n + 1] = [u \in DOMAIN p \cup {t} |-> IF u = t THEN new ELSE p[u]]
        <3>1. n + 1 \in 1..N /\ (n + 1) - 1 = n
            BY <1>0, <1>3
        <3>2. ps[n + 1] = AndNext(c, now, p)
            BY <1>1, <3>1
        <3> QED BY <3>2 DEF AndNext
    <2>3. DOMAIN p \subseteq DOMAIN c /\ DOMAIN p # DOMAIN c
        BY <1>3 DEF IsPlanFor, N
    <2> HIDE DEF p
    <2>4. t \in DOMAIN c \ DOMAIN p /\ c[t].children \subseteq DOMAIN p
        BY <2>3, NextTaskIsReady
    <2>8. IsTurn(c, now, p, ps[n + 1], t)
        BY <2>2, <2>4 DEF IsTurn
    <2> HIDE DEF t
    <2>5. /\ new.hours \subseteq Int /\ IsFiniteSet(new.hours) /\ new.end \in Int
          /\ c[t].work > 0 => new.hours # {}
        BY <1>3, <2>4, PlannedIsTyped DEF p
    <2> HIDE DEF new
    <2>6. IsPlanFor(c, ps[n + 1])
        <3>1. \A u \in DOMAIN p : /\ p[u].hours \subseteq Int /\ IsFiniteSet(p[u].hours) /\ p[u].end \in Int
                                  /\ c[u].work > 0 => p[u].hours # {}
            BY <1>3 DEF IsPlanFor, p
        <3> QED BY <2>2, <2>3, <2>4, <2>5, <3>1 DEF IsPlanFor
    <2>7. IsFiniteSet(DOMAIN p \cup {t}) /\ Cardinality(DOMAIN p \cup {t}) = n + 1
        <3>1. IsFiniteSet(DOMAIN p) /\ Cardinality(DOMAIN p) = n
            BY <1>3 DEF p
        <3> QED BY <3>1, <2>4, FS_AddElement
    <2> QED BY <2>2, <2>6, <2>7, <2>8 DEF p, t
<1>4. \A n \in Good : n + 1 \in Good
    <2> SUFFICES ASSUME NEW n \in Good, n + 1 <= N PROVE IsStep(n + 1)
        OBVIOUS
    <2>1. n \in Nat /\ n < N /\ IsStep(n)
        BY <1>0
    <2> QED BY <1>3, <2>1
<1>5. Good = Nat
    <2>1. Good \in SUBSET Nat
        OBVIOUS
    <2> HIDE DEF Good
    <2> QED BY <1>2, <1>4, <2>1, NaturalsByStep
<1>6. \A n \in 0..N : IsStep(n)
    <2>1. \A n \in 0..N : n \in Good /\ n <= N
        BY <1>0, <1>5
    <2> QED BY <2>1
<1>7. \A n \in 0..(N - 1) : IsTurn(c, now, ps[n], ps[n + 1], NextTask(c, DOMAIN ps[n]))
    <2> TAKE n \in 0..(N - 1)
    <2>1. n \in Nat /\ n < N /\ n \in 0..N
        BY <1>0
    <2> QED BY <1>3, <1>6, <2>1
<1>8. DOMAIN ps[N] = DOMAIN c
    <2>1. IsStep(N)
        BY <1>0, <1>6
    <2>2. DOMAIN ps[N] \in SUBSET DOMAIN c /\ IsFiniteSet(DOMAIN c)
        BY <2>1 DEF IsPlanFor, ArePlannable
    <2> QED BY <2>1, <2>2, FS_Subset DEF N
<1>9. ps[0] = << >>
    BY <1>1
<1> QED BY <1>0, <1>6, <1>7, <1>8, <1>9 DEF AreTurns, N, ps

\* A plan that has the other one in it.
Extends(q, p) == DOMAIN p \subseteq DOMAIN q /\ \A u \in DOMAIN p : q[u] = p[u]

(* What is planned stays as it is.                                         *)
LEMMA PlansGrow ==
    ASSUME NEW c, NEW now, NEW N \in Nat, NEW ps, AreTurns(c, now, N, ps),
           NEW i \in 0..N, NEW j \in 0..N, i <= j
    PROVE  Extends(ps[j], ps[i])
<1> DEFINE Keeps(m) == DOMAIN ps[i] \subseteq DOMAIN ps[m] /\ \A u \in DOMAIN ps[i] : ps[m][u] = ps[i][u]
           Good == {m \in Nat : i <= m /\ m <= N => Keeps(m)}
<1>1. 0 \in Good
    <2> SUFFICES ASSUME i <= 0 PROVE Keeps(0)
        OBVIOUS
    <2>1. i = 0
        OBVIOUS
    <2> QED BY <2>1
<1>2. ASSUME NEW m \in Good PROVE m + 1 \in Good
    <2> SUFFICES ASSUME i <= m + 1, m + 1 <= N PROVE Keeps(m + 1)
        OBVIOUS
    <2>1. CASE i = m + 1
        BY <2>1
    <2>2. CASE i # m + 1
        <3>1. Keeps(m) /\ m \in 0..(N - 1)
            BY <2>2
        <3> DEFINE t == NextTask(c, DOMAIN ps[m])
        <3>2. IsTurn(c, now, ps[m], ps[m + 1], t)
            BY <3>1 DEF AreTurns
        <3>3. t \notin DOMAIN ps[m]
              /\ ps[m + 1] = [u \in DOMAIN ps[m] \cup {t} |-> IF u = t THEN Planned(c, ps[m], t, now) ELSE ps[m][u]]
            BY <3>2 DEF IsTurn
        <3> HIDE DEF t
        <3> QED BY <3>1, <3>3
    <2> QED BY <2>1, <2>2
<1>3. Good = Nat
    <2>1. Good \in SUBSET Nat
        OBVIOUS
    <2> HIDE DEF Good
    <2> QED BY <1>1, <1>2, <2>1, NaturalsByStep
<1>4. j \in Good
    BY <1>3
<1> QED BY <1>4 DEF Extends

\* The turn of a task is the one after the first k.
HasTurn(c, now, n, ps, t, k) ==
    /\ t \notin DOMAIN ps[k] /\ t = NextTask(c, DOMAIN ps[k])
    /\ t \in DOMAIN ps[k + 1] /\ ps[k + 1][t] = Planned(c, ps[k], t, now)
    /\ ps[n][t] = Planned(c, ps[k], t, now)

(* Every task has its turn.                                                *)
LEMMA EveryTurnComes ==
    ASSUME NEW c, NEW now, NEW N \in Nat, NEW ps, AreTurns(c, now, N, ps), NEW t \in DOMAIN c
    PROVE  \E k \in 0..(N - 1) : HasTurn(c, now, N, ps, t, k)
<1> DEFINE Done == {n \in Nat : n <= N /\ t \in DOMAIN ps[n]}
<1>1. N \in Done
    BY DEF AreTurns
<1>2. PICK n \in Done : \A m \in Done : n <= m
    <2>1. Done \in SUBSET Nat /\ Done # {}
        BY <1>1
    <2> HIDE DEF Done
    <2> QED BY <2>1, LeastNatural
<1>3. n # 0
    BY DEF AreTurns
<1> DEFINE k == n - 1
<1>4. k \in 0..(N - 1) /\ k + 1 = n /\ k \notin Done
    BY <1>2, <1>3
<1>5. t \notin DOMAIN ps[k]
    BY <1>4
<1> HIDE DEF k
<1> DEFINE u == NextTask(c, DOMAIN ps[k])
<1>6. IsTurn(c, now, ps[k], ps[k + 1], u)
    BY <1>4 DEF AreTurns
<1>7. ps[k + 1] = [v \in DOMAIN ps[k] \cup {u} |-> IF v = u THEN Planned(c, ps[k], u, now) ELSE ps[k][v]]
    BY <1>6 DEF IsTurn
<1>8. t \in DOMAIN ps[k + 1]
    BY <1>4
<1> HIDE DEF u
<1>9. t = u
    BY <1>5, <1>7, <1>8
<1>10. ps[k + 1][t] = Planned(c, ps[k], t, now)
    BY <1>7, <1>8, <1>9
<1>11. ps[N][t] = ps[k + 1][t]
    <2>1. k + 1 \in 0..N /\ N \in 0..N /\ k + 1 <= N
        BY <1>4
    <2> DEFINE i == k + 1
    <2>2. i \in 0..N /\ N \in 0..N /\ i <= N /\ t \in DOMAIN ps[i]
        BY <1>8, <2>1
    <2> HIDE DEF i
    <2>3. Extends(ps[N], ps[i])
        BY <2>2, PlansGrow
    <2>4. ps[N][t] = ps[i][t]
        BY <2>2, <2>3 DEF Extends
    <2> QED BY <2>4 DEF i
<1> QED BY <1>4, <1>5, <1>8, <1>9, <1>10, <1>11 DEF HasTurn, u

\* Candidates that differ in when a task, and what is above it, is available.
Retimed(c, e, t, above) ==
    /\ DOMAIN e = DOMAIN c /\ t \in DOMAIN c /\ above \subseteq DOMAIN c \ {t} /\ c[t].children = {}
    /\ \A b \in above : c[b].children \cap (above \cup {t}) # {}
    /\ \A u \in DOMAIN c : /\ e[u].work = c[u].work /\ e[u].children = c[u].children
                           /\ e[u].ddl = c[u].ddl /\ e[u].rank = c[u].rank
                           /\ e[u].prio = c[u].prio /\ e[u].atomic = c[u].atomic
    /\ \A u \in DOMAIN c \ (above \cup {t}) : e[u].avail = c[u].avail

(* Whether one of two other tasks comes sooner is the same.                *)
LEMMA SoonerIsTheSame ==
    ASSUME NEW c, NEW e, NEW t, NEW above, ArePlannable(c), ArePlannable(e), Retimed(c, e, t, above),
           NEW u \in DOMAIN c \ (above \cup {t}), NEW v \in DOMAIN c \ (above \cup {t})
    PROVE  SoonerIn(c, u, v) <=> SoonerIn(e, u, v)
<1>1. /\ u \in DOMAIN c /\ v \in DOMAIN c /\ u \in DOMAIN e /\ v \in DOMAIN e
      /\ \A w \in {u, v} : /\ e[w].ddl = c[w].ddl /\ e[w].prio = c[w].prio /\ e[w].avail = c[w].avail
                          /\ e[w].rank = c[w].rank
    BY DEF Retimed
<1> QED BY <1>1, SoonerIs

(* What is next is the same if no task changes places with the one that is *)
(* available at another time, as long as that one is not planned.          *)
LEMMA SameNext ==
    ASSUME NEW c, NEW e, NEW t, NEW above, ArePlannable(c), ArePlannable(e), Retimed(c, e, t, above),
           NEW done, done \subseteq DOMAIN c, t \notin done, done \cap above = {},
           NEW next, next = NextTask(c, done),
           \A v \in DOMAIN c \ (above \cup {t}) :
              IF next = t THEN SoonerIn(c, t, v) => SoonerIn(e, t, v) ELSE SoonerIn(c, v, t) => SoonerIn(e, v, t)
    PROVE  next \notin above /\ NextTask(e, done) = next
<1> DEFINE other == NextTask(e, done)
<1>1. done # DOMAIN c /\ DOMAIN e = DOMAIN c /\ t \in DOMAIN c
    BY DEF Retimed
<1>2. /\ next \in DOMAIN c \ done /\ c[next].children \subseteq done
      /\ \A u \in DOMAIN c \ (done \cup {next}) : c[u].children \subseteq done => SoonerIn(c, next, u)
    BY <1>1, NextTaskIsReady
<1>3. /\ other \in DOMAIN c \ done /\ e[other].children \subseteq done
      /\ \A u \in DOMAIN c \ (done \cup {other}) : e[u].children \subseteq done => SoonerIn(e, other, u)
    BY <1>1, NextTaskIsReady
<1> HIDE DEF other
<1>4. \A u \in DOMAIN c : e[u].children = c[u].children
    BY DEF Retimed
<1>5. \A b \in above : ~(c[b].children \subseteq done)
    <2> TAKE b \in above
    <2>1. c[b].children \cap (above \cup {t}) # {}
        BY DEF Retimed
    <2> QED BY <2>1
<1>6. next \notin above /\ other \notin above
    BY <1>2, <1>3, <1>4, <1>5
<1>7. CASE other # next
    <2>1. SoonerIn(c, next, other)
        BY <1>2, <1>3, <1>4, <1>7
    <2>2. SoonerIn(e, other, next)
        BY <1>2, <1>3, <1>4, <1>7
    <2>3. SoonerIn(e, next, other)
        <3>1. CASE next = t
            BY <1>3, <1>6, <1>7, <2>1, <3>1
        <3>2. CASE next # t /\ other = t
            BY <1>2, <1>6, <1>7, <2>1, <3>2
        <3>3. CASE next # t /\ other # t
            <4>1. next \in DOMAIN c \ (above \cup {t}) /\ other \in DOMAIN c \ (above \cup {t})
                BY <1>2, <1>3, <1>6, <3>3
            <4> QED BY <2>1, <4>1, SoonerIsTheSame
        <3> QED BY <3>1, <3>2, <3>3
    <2>4. next \in DOMAIN e /\ other \in DOMAIN e
        BY <1>1, <1>2, <1>3
    <2> QED BY <2>2, <2>3, <2>4, SoonerIsStrict
<1> QED BY <1>6, <1>7 DEF other

(* So the plans are the same until it has its turn.                        *)
LEMMA SameUntilTurn ==
    ASSUME NEW c, NEW e, NEW t, NEW above, ArePlannable(c), ArePlannable(e), Retimed(c, e, t, above),
           NEW now, NEW N \in Nat, NEW ps, NEW qs, AreTurns(c, now, N, ps), AreTurns(e, now, N, qs),
           \A v \in DOMAIN c \ (above \cup {t}) : SoonerIn(c, v, t) => SoonerIn(e, v, t),
           NEW k \in 0..(N - 1), t \notin DOMAIN ps[k]
    PROVE  qs[k] = ps[k] /\ DOMAIN ps[k] \cap above = {}
<1> DEFINE Same(n) == qs[n] = ps[n] /\ DOMAIN ps[n] \cap above = {}
           Good == {n \in Nat : n <= k => Same(n)}
<1>1. 0 \in Good
    BY DEF AreTurns
<1>2. ASSUME NEW n \in Good PROVE n + 1 \in Good
    <2> SUFFICES ASSUME n + 1 <= k PROVE Same(n + 1)
        OBVIOUS
    <2> DEFINE p == ps[n]
               u == NextTask(c, DOMAIN p)
               v == NextTask(e, DOMAIN p)
    <2>1. n \in 0..(N - 1) /\ n \in 0..N /\ n + 1 \in 0..N /\ n <= k /\ n + 1 <= k /\ k \in 0..N
        OBVIOUS
    <2>2. qs[n] = p /\ DOMAIN p \cap above = {}
        BY <2>1
    <2>3. IsTurn(c, now, p, ps[n + 1], u) /\ IsTurn(e, now, p, qs[n + 1], v) /\ IsPlanFor(c, p)
        <3>1. IsTurn(e, now, qs[n], qs[n + 1], NextTask(e, DOMAIN qs[n]))
            BY <2>1 DEF AreTurns
        <3>2. IsTurn(c, now, ps[n], ps[n + 1], NextTask(c, DOMAIN ps[n])) /\ IsPlanFor(c, ps[n])
            BY <2>1 DEF AreTurns
        <3> QED BY <2>2, <3>1, <3>2
    <2>4. DOMAIN ps[n + 1] \subseteq DOMAIN ps[k] /\ DOMAIN p \subseteq DOMAIN ps[k]
        <3> DEFINE m == n + 1
        <3>1. m \in 0..N /\ m <= k
            BY <2>1
        <3> HIDE DEF m
        <3>2. Extends(ps[k], ps[m])
            BY <2>1, <3>1, PlansGrow
        <3>3. Extends(ps[k], ps[n])
            BY <2>1, PlansGrow
        <3> QED BY <3>2, <3>3 DEF Extends, m
    <2> HIDE DEF p
    <2>5. /\ ps[n + 1] = [w \in DOMAIN p \cup {u} |-> IF w = u THEN Planned(c, p, u, now) ELSE p[w]]
          /\ u \in DOMAIN c \ DOMAIN p
        BY <2>3 DEF IsTurn
    <2>6. qs[n + 1] = [w \in DOMAIN p \cup {v} |-> IF w = v THEN Planned(e, p, v, now) ELSE p[w]]
        BY <2>3 DEF IsTurn
    <2> HIDE DEF u, v
    <2>7. u # t /\ t \notin DOMAIN p
        BY <2>4, <2>5
    <2>8. u \notin above /\ v = u
        <3>1. DOMAIN p \subseteq DOMAIN c
            BY <2>3 DEF IsPlanFor
        <3>2. u = NextTask(c, DOMAIN p)
            BY DEF u
        <3>3. u \notin above /\ NextTask(e, DOMAIN p) = u
            BY <2>2, <2>7, <3>1, <3>2, SameNext
        <3> QED BY <3>3 DEF v
    <2>9. /\ e[u].avail = c[u].avail /\ e[u].work = c[u].work /\ e[u].children = c[u].children
          /\ e[u].atomic = c[u].atomic
        <3>1. u \in DOMAIN c \ (above \cup {t}) /\ u \in DOMAIN c
            BY <2>5, <2>7, <2>8
        <3> QED BY <3>1 DEF Retimed
    <2>10. Planned(e, p, u, now) = Planned(c, p, u, now)
        BY <2>9 DEF Planned
    <2> QED BY <2>2, <2>5, <2>6, <2>8, <2>10
<1>3. Good = Nat
    <2>1. Good \in SUBSET Nat
        OBVIOUS
    <2> HIDE DEF Good
    <2> QED BY <1>1, <1>2, <2>1, NaturalsByStep
<1>4. k \in Good /\ k <= k
    BY <1>3
<1> QED BY <1>4

(* A task that waits for no other begins where there is room from the time *)
(* on that it is available.                                                *)
LEMMA PlannedAlone ==
    ASSUME NEW c, ArePlannable(c), NEW p, IsPlanFor(c, p), NEW t \in DOMAIN c, NEW now \in Int,
           c[t].children = {}, c[t].work > 0
    PROVE  /\ Larger(c[t].avail, now) \in Int /\ c[t].work \in Nat /\ c[t].atomic \in BOOLEAN
           /\ Planned(c, p, t, now).hours =
                 HoursFrom(p, Between(p, Larger(c[t].avail, now)), c[t].work, c[t].atomic)
<1> DEFINE a == c[t].avail
           S == {a, now} \cup {p[u].end : u \in c[t].children}
<1>1. a \in Int /\ c[t].work \in Nat /\ c[t].atomic \in BOOLEAN
    BY DEF ArePlannable, Candidate
<1>2. S = {a, now}
    OBVIOUS
<1> HIDE DEF a
<1>3. Max({a, now}) = Larger(a, now)
    <2>1. IsFiniteSet({a, now})
        <3>1. IsFiniteSet({now} \cup {a})
            BY FS_Singleton, FS_AddElement
        <3>2. {now} \cup {a} = {a, now}
            OBVIOUS
        <3> QED BY <3>1, <3>2
    <2>2. Max({a, now}) \in {a, now} /\ \A y \in {a, now} : Max({a, now}) >= y
        BY <1>1, <2>1, MaxIsGreatest
    <2> QED BY <1>1, <2>2 DEF Larger
<1>4. Planned(c, p, t, now).hours =
          IF c[t].atomic THEN InOnePiece(p, Between(p, Max(S)), c[t].work)
          ELSE InPieces(p, Between(p, Max(S)), c[t].work)
    BY DEF Planned, a
<1>5. Larger(a, now) \in Int
    BY <1>1 DEF Larger
<1> QED BY <1>1, <1>2, <1>3, <1>4, <1>5 DEF HoursFrom, a

\* A task with work that waits for no other is tried at another time.
IsTried(c, e, t, above, now) ==
    /\ ArePlannable(c) /\ ArePlannable(e) /\ Retimed(c, e, t, above) /\ now \in Int
    /\ c[t].work > 0 /\ c[t].avail <= e[t].avail

(* If it is available later, it begins no sooner: it has its turn no       *)
(* sooner, and there is no room then that there was not.                   *)
LEMMA LaterBeginsLater ==
    ASSUME NEW c, NEW e, NEW t, NEW above, NEW now, IsTried(c, e, t, above, now)
    PROVE  StartIn(PlanOf(c, now), t) <= StartIn(PlanOf(e, now), t)
<1>0. /\ ArePlannable(c) /\ ArePlannable(e) /\ Retimed(c, e, t, above) /\ now \in Int
      /\ c[t].work > 0 /\ c[t].avail <= e[t].avail
      /\ DOMAIN e = DOMAIN c /\ t \in DOMAIN c /\ t \in DOMAIN e /\ c[t].children = {}
    BY DEF IsTried, Retimed
<1>1. /\ e[t].work = c[t].work /\ e[t].children = {} /\ e[t].atomic = c[t].atomic
      /\ e[t].ddl = c[t].ddl /\ e[t].prio = c[t].prio /\ e[t].rank = c[t].rank
      /\ c[t].avail \in Int /\ e[t].avail \in Int
    BY <1>0 DEF Retimed, ArePlannable, Candidate
<1>2. PICK N \in Nat, ps \in {PlansOf(c, now)}, qs \in {PlansOf(e, now)} :
          /\ AreTurns(c, now, N, ps) /\ AreTurns(e, now, N, qs)
          /\ PlanOf(c, now) = ps[N] /\ PlanOf(e, now) = qs[N]
    <2>1. Cardinality(DOMAIN c) \in Nat
        BY <1>0, PlansAreTurns
    <2>2. AreTurns(c, now, Cardinality(DOMAIN c), PlansOf(c, now))
        BY <1>0, PlansAreTurns
    <2>3. AreTurns(e, now, Cardinality(DOMAIN e), PlansOf(e, now))
        BY <1>0, PlansAreTurns
    <2> QED BY <1>0, <2>1, <2>2, <2>3 DEF PlanOf
<1>2a. AreTurns(c, now, N, ps)
    BY <1>2
<1>2b. AreTurns(e, now, N, qs)
    BY <1>2
<1>3. ASSUME NEW v \in DOMAIN c \ (above \cup {t}) PROVE SoonerIn(c, v, t) => SoonerIn(e, v, t)
    <2>1. /\ v \in DOMAIN c /\ v \in DOMAIN e /\ e[v].ddl = c[v].ddl /\ e[v].prio = c[v].prio
          /\ e[v].avail = c[v].avail /\ e[v].rank = c[v].rank
        BY <1>0 DEF Retimed
    <2>2. /\ c[v].avail \in Int /\ c[v].ddl \in Int /\ c[v].prio \in Int /\ c[v].rank \in Int
        BY <1>0, <2>1 DEF ArePlannable, Candidate
    <2> QED BY <1>0, <1>1, <2>1, <2>2, SoonerIs
<1>5a. PICK k \in 0..(N - 1) : HasTurn(c, now, N, ps, t, k)
    BY <1>0, <1>2a, EveryTurnComes
<1>5. t \notin DOMAIN ps[k] /\ ps[N][t] = Planned(c, ps[k], t, now)
    BY <1>5a DEF HasTurn
<1>6a. PICK j \in 0..(N - 1) : HasTurn(e, now, N, qs, t, j)
    BY <1>0, <1>2b, EveryTurnComes
<1>6. t \in DOMAIN qs[j + 1] /\ qs[N][t] = Planned(e, qs[j], t, now)
    BY <1>6a DEF HasTurn
<1>7. qs[k] = ps[k]
    BY <1>0, <1>2a, <1>2b, <1>3, <1>5, SameUntilTurn
<1>8. k <= j
    <2> SUFFICES ASSUME j < k PROVE FALSE
        BY <1>2
    <2> DEFINE m == j + 1
    <2>1. m \in 0..N /\ k \in 0..N /\ m <= k
        BY <1>2
    <2> HIDE DEF m
    <2>2. Extends(qs[k], qs[m])
        BY <1>2b, <2>1, PlansGrow
    <2> QED BY <1>5, <1>6, <1>7, <2>2 DEF Extends, m
<1> DEFINE p == ps[k]
           q == qs[j]
<1>9. IsPlanFor(c, p) /\ IsPlanFor(e, q)
    <2>1. k \in 0..N /\ j \in 0..N
        BY <1>2
    <2> QED BY <1>2, <2>1 DEF AreTurns
<1>10. DOMAIN p \subseteq DOMAIN q /\ \A u \in DOMAIN p : q[u] = p[u]
    <2>1. k \in 0..N /\ j \in 0..N
        BY <1>2
    <2>2. Extends(qs[j], qs[k])
        BY <1>2b, <1>8, <2>1, PlansGrow
    <2> QED BY <1>7, <2>2 DEF Extends
<1> DEFINE w == c[t].work
           whole == c[t].atomic
           a == Larger(c[t].avail, now)
           b == Larger(e[t].avail, now)
           f == Between(p, a)
           g == Between(q, b)
           x == Min(HoursFrom(p, f, w, whole))
           y == Min(HoursFrom(q, g, w, whole))
<1>11. /\ a \in Int /\ b \in Int /\ w \in Nat /\ w > 0 /\ whole \in BOOLEAN
       /\ ps[N][t].hours = HoursFrom(p, f, w, whole) /\ qs[N][t].hours = HoursFrom(q, g, w, whole)
    <2>1. /\ a \in Int /\ w \in Nat /\ whole \in BOOLEAN
          /\ Planned(c, p, t, now).hours = HoursFrom(p, f, w, whole)
        BY <1>0, <1>9, PlannedAlone
    <2>2. /\ b \in Int
          /\ Planned(e, q, t, now).hours = HoursFrom(q, Between(q, Larger(e[t].avail, now)), e[t].work, e[t].atomic)
        <3>1. e[t].work > 0
            BY <1>0, <1>1
        <3> HIDE DEF q
        <3> QED BY <1>0, <1>1, <1>9, <3>1, PlannedAlone
    <2> QED BY <1>0, <1>1, <1>5, <1>6, <2>1, <2>2
<1>12. a <= b
    BY <1>0, <1>1 DEF Larger
<1>13. /\ IsFiniteSet(Taken(p)) /\ Cardinality(Taken(p)) \in Nat
       /\ IsFiniteSet(Taken(q)) /\ Cardinality(Taken(q)) \in Nat
    <2> HIDE DEF p, q
    <2> QED BY <1>0, <1>9, TakenIsFinite DEF ArePlannable
<1> HIDE DEF p, q, w, whole, a, b
<1>14. f \in Int /\ g \in Int /\ f <= g
    <2>1. f \in Int /\ \A h \in Int : h >= a /\ Quiet(p, h) => f <= h
        BY <1>11, <1>13, BetweenIsLeast
    <2>2. g \in Int /\ g >= b /\ Quiet(q, g)
        BY <1>11, <1>13, BetweenIsLeast
    <2>3. Quiet(p, g)
        BY <1>10, <2>2 DEF Quiet
    <2> HIDE DEF f, g
    <2> QED BY <1>11, <1>12, <2>1, <2>2, <2>3
<1> HIDE DEF f, g
<1>15. x <= y
    <2>1. \A r \in Int : r >= f /\ IsRoom(p, w, whole, r) => x <= r
        BY <1>11, <1>13, <1>14, BeginsInRoom
    <2>2. y \in Int /\ y >= g /\ IsRoom(q, w, whole, y)
        BY <1>11, <1>13, <1>14, BeginsInRoom
    <2>3. Taken(p) \subseteq Taken(q)
        BY <1>10 DEF Taken
    <2>4. IsRoom(p, w, whole, y)
        BY <2>2, <2>3 DEF IsRoom
    <2> HIDE DEF x, y
    <2> QED BY <1>14, <2>1, <2>2, <2>4
<1>16. HoursFrom(p, f, w, whole) # {} /\ HoursFrom(q, g, w, whole) # {}
    BY <1>11, <1>13, <1>14, HoursAreTimes DEF HoursFrom
<1> QED BY <1>2, <1>11, <1>15, <1>16 DEF StartIn

(* If it is available before it began, and no task changes places with it, *)
(* it is planned for the same hours.                                       *)
LEMMA KeepsItsHours ==
    ASSUME NEW c, NEW e, NEW t, NEW above, NEW now, IsTried(c, e, t, above, now),
           now <= c[t].avail, e[t].avail <= StartIn(PlanOf(c, now), t),
           \A v \in DOMAIN c \ (above \cup {t}) :
              /\ SoonerIn(c, v, t) => SoonerIn(e, v, t)
              /\ SoonerIn(c, t, v) => SoonerIn(e, t, v)
    PROVE  PlanOf(e, now)[t].hours = PlanOf(c, now)[t].hours
<1>0. /\ ArePlannable(c) /\ ArePlannable(e) /\ Retimed(c, e, t, above) /\ now \in Int
      /\ c[t].work > 0 /\ c[t].avail <= e[t].avail
      /\ DOMAIN e = DOMAIN c /\ t \in DOMAIN c /\ t \in DOMAIN e /\ c[t].children = {}
    BY DEF IsTried, Retimed
<1>1. /\ e[t].work = c[t].work /\ e[t].children = {} /\ e[t].atomic = c[t].atomic
      /\ c[t].avail \in Int /\ e[t].avail \in Int
    BY <1>0 DEF Retimed, ArePlannable, Candidate
<1>2. PICK N \in Nat, ps \in {PlansOf(c, now)}, qs \in {PlansOf(e, now)} :
          /\ AreTurns(c, now, N, ps) /\ AreTurns(e, now, N, qs)
          /\ PlanOf(c, now) = ps[N] /\ PlanOf(e, now) = qs[N]
    <2>1. Cardinality(DOMAIN c) \in Nat
        BY <1>0, PlansAreTurns
    <2>2. AreTurns(c, now, Cardinality(DOMAIN c), PlansOf(c, now))
        BY <1>0, PlansAreTurns
    <2>3. AreTurns(e, now, Cardinality(DOMAIN e), PlansOf(e, now))
        BY <1>0, PlansAreTurns
    <2> QED BY <1>0, <2>1, <2>2, <2>3 DEF PlanOf
<1>2a. AreTurns(c, now, N, ps)
    BY <1>2
<1>2b. AreTurns(e, now, N, qs)
    BY <1>2
<1>5a. PICK k \in 0..(N - 1) : HasTurn(c, now, N, ps, t, k)
    BY <1>0, <1>2a, EveryTurnComes
<1>5. /\ t \notin DOMAIN ps[k] /\ t = NextTask(c, DOMAIN ps[k])
      /\ ps[N][t] = Planned(c, ps[k], t, now)
    BY <1>5a DEF HasTurn
<1>7. qs[k] = ps[k] /\ DOMAIN ps[k] \cap above = {}
    <2>1. \A v \in DOMAIN c \ (above \cup {t}) : SoonerIn(c, v, t) => SoonerIn(e, v, t)
        OBVIOUS
    <2>2. k \in 0..(N - 1) /\ t \notin DOMAIN ps[k]
        BY <1>5
    <2>3. ArePlannable(c) /\ ArePlannable(e) /\ Retimed(c, e, t, above)
        BY <1>0
    <2> HIDE DEF AreTurns, ArePlannable, Retimed, SoonerIn
    <2> QED BY <1>2a, <1>2b, <2>1, <2>2, <2>3, SameUntilTurn
<1> DEFINE p == ps[k]
           m == k + 1
<1>6. k \in 0..N /\ k \in 0..(N - 1) /\ m \in 0..N /\ N \in 0..N /\ m <= N
    BY <1>2
<1>8. IsPlanFor(c, p)
    BY <1>2, <1>6 DEF AreTurns
<1>9. NextTask(e, DOMAIN p) = t
    <2>1. DOMAIN p \subseteq DOMAIN c
        BY <1>8 DEF IsPlanFor
    <2> QED BY <1>0, <1>5, <1>7, <2>1, SameNext
<1>10. qs[N][t] = Planned(e, p, t, now)
    <2>1. IsTurn(e, now, qs[k], qs[k + 1], NextTask(e, DOMAIN qs[k]))
        BY <1>2, <1>6 DEF AreTurns
    <2>2. qs[m] = [u \in DOMAIN p \cup {t} |-> IF u = t THEN Planned(e, p, t, now) ELSE p[u]]
        BY <1>7, <1>9, <2>1 DEF IsTurn
    <2> HIDE DEF m
    <2>3. t \in DOMAIN qs[m] /\ qs[m][t] = Planned(e, p, t, now)
        BY <2>2
    <2>4. Extends(qs[N], qs[m])
        BY <1>2b, <1>6, PlansGrow
    <2> QED BY <2>3, <2>4 DEF Extends
<1> DEFINE w == c[t].work
           whole == c[t].atomic
           f == Between(p, c[t].avail)
           g == Between(p, e[t].avail)
           x == Min(HoursFrom(p, f, w, whole))
<1>11. /\ w \in Nat /\ w > 0 /\ whole \in BOOLEAN
       /\ ps[N][t].hours = HoursFrom(p, f, w, whole) /\ qs[N][t].hours = HoursFrom(p, g, w, whole)
    <2>1. Larger(c[t].avail, now) = c[t].avail /\ Larger(e[t].avail, now) = e[t].avail
        BY <1>0, <1>1 DEF Larger
    <2>2. /\ w \in Nat /\ whole \in BOOLEAN
          /\ Planned(c, p, t, now).hours = HoursFrom(p, Between(p, Larger(c[t].avail, now)), w, whole)
        BY <1>0, <1>8, PlannedAlone
    <2>3. Planned(e, p, t, now).hours = HoursFrom(p, Between(p, Larger(e[t].avail, now)), e[t].work, e[t].atomic)
        <3>1. e[t].work > 0
            BY <1>0, <1>1
        <3>2. IsPlanFor(e, p)
            BY <1>0, <1>8 DEF IsPlanFor, Retimed
        <3> HIDE DEF p
        <3> QED BY <1>0, <1>1, <3>1, <3>2, PlannedAlone
    <2> QED BY <1>0, <1>1, <1>5, <1>10, <2>1, <2>2, <2>3
<1>12. IsFiniteSet(Taken(p)) /\ Cardinality(Taken(p)) \in Nat
    <2> HIDE DEF p
    <2> QED BY <1>0, <1>8, TakenIsFinite DEF ArePlannable
<1> HIDE DEF p, w, whole
<1>13. /\ f \in Int /\ g \in Int /\ f <= g
       /\ \A h \in Int : h >= e[t].avail /\ Quiet(p, h) => g <= h
    <2>1. f \in Int /\ \A h \in Int : h >= c[t].avail /\ Quiet(p, h) => f <= h
        BY <1>1, <1>12, BetweenIsLeast
    <2>2. /\ g \in Int /\ g >= e[t].avail /\ Quiet(p, g)
          /\ \A h \in Int : h >= e[t].avail /\ Quiet(p, h) => g <= h
        BY <1>1, <1>12, BetweenIsLeast
    <2> HIDE DEF f, g
    <2> QED BY <1>0, <1>1, <2>1, <2>2
<1> HIDE DEF f, g
<1>14. x = StartIn(PlanOf(c, now), t)
    <2>1. HoursFrom(p, f, w, whole) # {}
        BY <1>11, <1>12, <1>13, HoursAreTimes DEF HoursFrom
    <2> QED BY <1>2, <1>11, <2>1 DEF StartIn
<1>15. g <= x
    <2>1. x \in Int /\ x \notin Taken(p)
        BY <1>11, <1>12, <1>13, BeginsInRoom
    <2>2. Quiet(p, x)
        BY <2>1 DEF Quiet, Taken
    <2>3. x >= e[t].avail
        BY <1>1, <1>14, <2>1
    <2> HIDE DEF x
    <2> QED BY <1>13, <2>1, <2>2, <2>3
<1>16. HoursFrom(p, g, w, whole) = HoursFrom(p, f, w, whole)
    BY <1>11, <1>12, <1>13, <1>15, SameHours
<1> QED BY <1>2, <1>11, <1>16

(* A task tried at a time, and then available no sooner but before it      *)
(* began, has the hours it was tried with, but for another one that it     *)
(* gives way to: of the same deadline and priority, available by then.     *)
LEMMA TrialHolds ==
    ASSUME NEW c, NEW e, NEW t, NEW above, NEW now, IsTried(c, e, t, above, now),
           now <= c[t].avail, e[t].avail <= StartIn(PlanOf(c, now), t),
           NEW from \in Int, from <= c[t].avail,
           \A u \in DOMAIN e \ {t} :
              ~(/\ e[u].ddl = e[t].ddl /\ e[u].prio = e[t].prio
                /\ from <= e[u].avail /\ e[u].avail <= e[t].avail)
    PROVE  PlanOf(e, now)[t].hours = PlanOf(c, now)[t].hours
<1>0. /\ ArePlannable(c) /\ ArePlannable(e) /\ Retimed(c, e, t, above)
      /\ c[t].avail <= e[t].avail /\ DOMAIN e = DOMAIN c /\ t \in DOMAIN c /\ t \in DOMAIN e
    BY DEF IsTried, Retimed
<1>1. /\ e[t].ddl = c[t].ddl /\ e[t].prio = c[t].prio /\ e[t].rank = c[t].rank
      /\ c[t].avail \in Int /\ e[t].avail \in Int
    BY <1>0 DEF Retimed, ArePlannable, Candidate
<1>2. ASSUME NEW v \in DOMAIN c \ (above \cup {t})
      PROVE  (SoonerIn(c, v, t) => SoonerIn(e, v, t)) /\ (SoonerIn(c, t, v) => SoonerIn(e, t, v))
    <2>1. /\ v \in DOMAIN c /\ v \in DOMAIN e /\ e[v].ddl = c[v].ddl /\ e[v].prio = c[v].prio
          /\ e[v].avail = c[v].avail /\ e[v].rank = c[v].rank
        BY <1>0 DEF Retimed
    <2>2. /\ c[v].avail \in Int /\ c[v].ddl \in Int /\ c[v].prio \in Int /\ c[v].rank \in Int
          /\ c[t].ddl \in Int /\ c[t].prio \in Int
        BY <1>0, <2>1 DEF ArePlannable, Candidate
    <2>3. c[v].ddl = c[t].ddl /\ c[v].prio = c[t].prio => c[v].avail < from \/ c[v].avail > e[t].avail
        <3>1. v \in DOMAIN e \ {t}
            BY <2>1
        <3> QED BY <1>1, <2>1, <2>2, <3>1
    <2>4. SoonerIn(c, v, t) => SoonerIn(e, v, t)
        BY <1>0, <1>1, <2>1, <2>2, <2>3, SoonerIs
    <2>5. SoonerIn(c, t, v) => SoonerIn(e, t, v)
        BY <1>0, <1>1, <2>1, <2>2, <2>3, SoonerIs
    <2> QED BY <2>4, <2>5
<1> QED BY <1>2, KeepsItsHours

-----------------------------------------------------------------------------

-----------------------------------------------------------------------------
(***************************************************************************)
(* The work of a day                                                       *)
(***************************************************************************)
\* Runs of hours that do not overlap, all of them among the given ones.
AreRuns(S, hours) ==
    /\ IsFiniteSet(S) /\ IsFiniteSet(hours)
    /\ \A s \in S : /\ s.from \in Int /\ s.to \in Int /\ s.from < s.to
                    /\ \A h \in Int : s.from <= h /\ h < s.to => h \in hours
    /\ \A r, s \in S : r = s \/ r.to <= s.from \/ s.to <= r.from

LengthOf(S) == [s \in S |-> s.to - s.from]

(* Together they are no longer than those.                                 *)
LEMMA RunsAreHours ==
    ASSUME NEW S, NEW hours, AreRuns(S, hours)
    PROVE  /\ SumOver(LengthOf(S), S) \in Int /\ SumOver(LengthOf(S), S) >= 0
           /\ SumOver(LengthOf(S), S) <= Cardinality(hours)
<1> DEFINE f == LengthOf(S)
           In(T) == {h \in hours \cap Int : \E s \in T : s.from <= h /\ h < s.to}
           Right(T) == SumOver(f, T) = Cardinality(In(T))
           Sizes == {n \in Nat : \A T \in SUBSET S : Cardinality(T) <= n => Right(T)}
<1>a. IsFiniteSet(S) /\ IsFiniteSet(hours)
    BY DEF AreRuns
<1>b. \A s \in S : /\ s.from \in Int /\ s.to \in Int /\ s.from < s.to /\ f[s] = s.to - s.from /\ f[s] \in Int
                   /\ \A h \in Int : s.from <= h /\ h < s.to => h \in hours
    BY DEF AreRuns, LengthOf
<1>c. \A r, s \in S : r = s \/ r.to <= s.from \/ s.to <= r.from
    BY DEF AreRuns
<1>d. \A T \in SUBSET S : In(T) \subseteq hours /\ IsFiniteSet(In(T)) /\ Cardinality(In(T)) \in Nat
    <2> TAKE T \in SUBSET S
    <2>1. In(T) \subseteq hours
        OBVIOUS
    <2> HIDE DEF In
    <2> QED BY <1>a, <2>1, FS_Subset, FS_CardinalityType
<1> HIDE DEF f
<1>0. \A T \in SUBSET S : IsFiniteSet(T) /\ Cardinality(T) \in Nat
    BY <1>a, FS_Subset, FS_CardinalityType
<1>1. Right({})
    <2>1. In({}) = {}
        OBVIOUS
    <2> HIDE DEF In
    <2> QED BY <2>1, SumOfNothing, FS_EmptySet
<1>2. ASSUME NEW n \in Sizes PROVE n + 1 \in Sizes
    <2> SUFFICES ASSUME NEW T \in SUBSET S, Cardinality(T) <= n + 1 PROVE Right(T)
        OBVIOUS
    <2>1. CASE T = {}
        <3> HIDE DEF Right
        <3> QED BY <1>1, <2>1
    <2>2. CASE T # {}
        <3>1. PICK x \in T : TRUE
            BY <2>2
        <3> DEFINE U == T \ {x}
                   X == x.from..(x.to - 1)
        <3>2. Cardinality(U) = Cardinality(T) - 1
            BY <1>0, <3>1, FS_RemoveElement
        <3>3. Right(U) /\ U \in SUBSET S
            <4>1. U \in SUBSET S /\ Cardinality(U) <= n
                BY <1>0, <3>2
            <4> HIDE DEF U
            <4> QED BY <4>1
        <3>4. SumOver(f, T) = f[x] + SumOver(f, U)
            BY <1>0, <1>b, SumWithout
        <3>5. /\ x \in S /\ x.from \in Int /\ x.to \in Int /\ x.from < x.to /\ f[x] = x.to - x.from
              /\ \A h \in X : h \in hours /\ h \in Int
            BY <1>b
        <3>6. IsFiniteSet(X) /\ Cardinality(X) = f[x]
            <4>1. x.to - 1 \in Int /\ ~(x.from > x.to - 1) /\ (x.to - 1) - x.from + 1 = x.to - x.from
                BY <3>5
            <4> QED BY <3>5, <4>1, FS_Interval
        <3>7. In(T) = In(U) \cup X
            <4>1. \A h \in In(T) : h \in In(U) \/ h \in X
                <5> TAKE h \in In(T)
                <5>1. PICK s \in T : s.from <= h /\ h < s.to
                    OBVIOUS
                <5>2. CASE s = x
                    <6>1. h \in Int /\ h \in X
                        BY <3>5, <5>1, <5>2
                    <6> QED BY <6>1
                <5>3. CASE s # x
                    BY <5>1, <5>3
                <5> QED BY <5>2, <5>3
            <4>2. \A h \in In(U) : h \in In(T)
                OBVIOUS
            <4>3. \A h \in X : h \in In(T)
                BY <3>5
            <4> QED BY <4>1, <4>2, <4>3
        <3>8. In(U) \cap X = {}
            <4> SUFFICES ASSUME NEW h \in In(U), h \in X PROVE FALSE
                OBVIOUS
            <4>1. PICK s \in U : s.from <= h /\ h < s.to
                OBVIOUS
            <4>2. s # x /\ s \in S
                OBVIOUS
            <4>3. s.to <= x.from \/ x.to <= s.from
                BY <1>c, <3>5, <4>2
            <4> QED BY <1>b, <3>5, <4>1, <4>2, <4>3
        <3> HIDE DEF In, X, U
        <3>9. Cardinality(In(T)) = Cardinality(In(U)) + Cardinality(X)
            <4> DEFINE a == Cardinality(In(U))
                       b == Cardinality(X)
            <4>1. Cardinality(In(T)) = a + b - Cardinality(In(U) \cap X)
                BY <1>d, <3>3, <3>6, <3>7, FS_Union
            <4>2. Cardinality(In(U) \cap X) = 0
                BY <3>8, FS_EmptySet
            <4>3. a \in Nat /\ b \in Nat
                BY <1>d, <3>3, <3>6, FS_CardinalityType
            <4> HIDE DEF a, b
            <4>4. Cardinality(In(T)) = a + b
                BY <4>1, <4>2, <4>3
            <4> QED BY <4>4 DEF a, b
        <3> QED BY <1>d, <3>3, <3>4, <3>5, <3>6, <3>9
    <2> QED BY <2>1, <2>2
<1>3. 0 \in Sizes
    <2>2. \A T \in SUBSET S : Cardinality(T) <= 0 => T = {}
        BY <1>0, FS_EmptySet
    <2> HIDE DEF Right
    <2> QED BY <1>1, <2>2
<1>4. Sizes = Nat
    <2>1. Sizes \in SUBSET Nat
        OBVIOUS
    <2> HIDE DEF Sizes
    <2> QED BY <1>2, <1>3, <2>1, NaturalsByStep
<1>5. Cardinality(S) \in Sizes /\ S \in SUBSET S /\ Cardinality(S) <= Cardinality(S)
    BY <1>0, <1>4
<1>6. Right(S)
    BY <1>5
<1>7. Cardinality(In(S)) <= Cardinality(hours) /\ Cardinality(In(S)) \in Nat
    <2> HIDE DEF In
    <2> QED BY <1>a, <1>d, FS_Subset
<1> HIDE DEF In
<1> QED BY <1>6, <1>7 DEF f

(* The segments of some hours are such runs.                               *)
LEMMA SegmentsAreRuns ==
    ASSUME NEW hours, hours \subseteq Int, IsFiniteSet(hours), NEW S, S \subseteq Segments(hours)
    PROVE  AreRuns(S, hours)
<1> DEFINE g == [a \in hours |-> [from |-> a, to |-> Min({b \in (a + 1)..(Max(hours) + 1) : b \notin hours})]]
           A == {h \in hours : h - 1 \notin hours}
<1>1. IsFiniteSet(Segments(hours))
    <2>1. IsFiniteSet(A)
        BY FS_Subset
    <2>2. Segments(hours) = {g[a] : a \in A}
        BY DEF Segments
    <2> HIDE DEF g, A
    <2> QED BY <2>1, <2>2, ImageOfFinite
<1>2. \A s \in Segments(hours) : s.from \in A /\ s = g[s.from]
    <2> SUFFICES ASSUME NEW a \in A PROVE g[a].from = a
        BY DEF Segments
    <2> QED OBVIOUS
<1> HIDE DEF g
<1>3. \A s \in Segments(hours) : /\ s.from \in Int /\ s.to \in Int /\ s.from < s.to
                                 /\ \A h \in Int : s.from <= h /\ h < s.to => h \in hours
    BY SegmentIsRun
<1>4. ASSUME NEW r \in Segments(hours), NEW s \in Segments(hours), r # s
      PROVE  r.to <= s.from \/ s.to <= r.from
    <2>1. r.from # s.from
        BY <1>2, <1>4
    <2>2. /\ r.from \in Int /\ s.from \in Int /\ r.to \in Int /\ s.to \in Int
          /\ r.from - 1 \notin hours /\ s.from - 1 \notin hours
        BY <1>2, <1>3
    <2>3. CASE r.from < s.from
        <3>1. ~(s.from - 1 < r.to)
            BY <1>3, <2>2, <2>3
        <3> QED BY <2>2, <3>1
    <2>4. CASE s.from < r.from
        <3>1. ~(r.from - 1 < s.to)
            BY <1>3, <2>2, <2>4
        <3> QED BY <2>2, <3>1
    <2> QED BY <2>1, <2>2, <2>3, <2>4
<1>5. IsFiniteSet(S)
    BY <1>1, FS_Subset
<1> QED BY <1>3, <1>4, <1>5 DEF AreRuns

LengthsOf(S) == MapThenSumSet(LAMBDA s : s.to - s.from, S)

(* The sum of some lengths is one over the function of them.               *)
LEMMA LengthsAre ==
    ASSUME NEW S
    PROVE  LengthsOf(S) = SumOver(LengthOf(S), S)
<1> DEFINE P(g) == g = [s \in SUBSET S |->
                           IF s = {} THEN 0
                           ELSE (AnyOf(s).to - AnyOf(s).from) + g[s \ {AnyOf(s)}]]
           Q(g) == Sums(g, LengthOf(S), S)
<1>1. ASSUME NEW g PROVE P(g) <=> Q(g)
    <2>1. ASSUME NEW s \in SUBSET S, s # {} PROVE LengthOf(S)[AnyOf(s)] = AnyOf(s).to - AnyOf(s).from
        BY <2>1 DEF AnyOf, LengthOf
    <2>2. \A s \in SUBSET S :
             (IF s = {} THEN 0 ELSE (AnyOf(s).to - AnyOf(s).from) + g[s \ {AnyOf(s)}])
             = (IF s = {} THEN 0 ELSE LengthOf(S)[AnyOf(s)] + g[s \ {AnyOf(s)}])
        BY <2>1
    <2> QED BY <2>2 DEF Sums
<1>2. LengthsOf(S) = (CHOOSE g : P(g))[S]
    BY DEF LengthsOf, MapThenSumSet, MapThenFoldSet, AnyOf
<1>3. SumOver(LengthOf(S), S) = (CHOOSE g : Q(g))[S]
    BY DEF SumOver, MapThenSumSet, MapThenFoldSet, Sums, AnyOf
<1>4. (CHOOSE g : P(g)) = (CHOOSE g : Q(g))
    <2> HIDE DEF P, Q
    <2> QED BY <1>1
<1> QED BY <1>2, <1>3, <1>4

\* The segments of a task on a day, and the work that each task has there.
SegmentsOn(p, t, d) == {s \in Segments(p[t].hours) : DayOf(s.from) = d}
WorkOn(p, d) == [t \in DOMAIN p |-> SumOver(LengthOf(SegmentsOn(p, t, d)), SegmentsOn(p, t, d))]

(* The work of some tasks is the sum over the function of the work of each. *)
LEMMA WorkInIs ==
    ASSUME NEW p, NEW d, NEW ts
    PROVE  WorkIn(p, d, ts) = SumOver(WorkOn(p, d), ts \cap DOMAIN p)
<1> DEFINE S == ts \cap DOMAIN p
           P(g) == g = [s \in SUBSET S |->
                           IF s = {} THEN 0
                           ELSE LengthsOf(SegmentsOn(p, AnyOf(s), d)) + g[s \ {AnyOf(s)}]]
           Q(g) == Sums(g, WorkOn(p, d), S)
<1>1. ASSUME NEW g PROVE P(g) <=> Q(g)
    <2>1. ASSUME NEW s \in SUBSET S, s # {} PROVE WorkOn(p, d)[AnyOf(s)] = LengthsOf(SegmentsOn(p, AnyOf(s), d))
        <3>1. AnyOf(s) \in DOMAIN p
            BY <2>1 DEF AnyOf
        <3>2. LengthsOf(SegmentsOn(p, AnyOf(s), d))
                 = SumOver(LengthOf(SegmentsOn(p, AnyOf(s), d)), SegmentsOn(p, AnyOf(s), d))
            BY LengthsAre
        <3> QED BY <3>1, <3>2 DEF WorkOn
    <2>2. \A s \in SUBSET S :
             (IF s = {} THEN 0 ELSE LengthsOf(SegmentsOn(p, AnyOf(s), d)) + g[s \ {AnyOf(s)}])
             = (IF s = {} THEN 0 ELSE WorkOn(p, d)[AnyOf(s)] + g[s \ {AnyOf(s)}])
        BY <2>1
    <2> QED BY <2>2 DEF Sums
<1>2. WorkIn(p, d, ts) = (CHOOSE g : P(g))[S]
    BY DEF WorkIn, LengthsOf, SegmentsOn, MapThenSumSet, MapThenFoldSet, AnyOf
<1>3. SumOver(WorkOn(p, d), S) = (CHOOSE g : Q(g))[S]
    BY DEF SumOver, MapThenSumSet, MapThenFoldSet, Sums, AnyOf
<1>4. (CHOOSE g : P(g)) = (CHOOSE g : Q(g))
    <2> HIDE DEF P, Q
    <2> QED BY <1>1
<1> QED BY <1>2, <1>3, <1>4

(* No task has more work on a day than it has hours.                       *)
LEMMA WorkIsLittle ==
    ASSUME NEW c, NEW p, IsPlanFor(c, p), NEW d, NEW t \in DOMAIN p
    PROVE  /\ WorkOn(p, d)[t] \in Int /\ WorkOn(p, d)[t] >= 0
           /\ WorkOn(p, d)[t] <= Cardinality(p[t].hours)
<1> DEFINE S == SegmentsOn(p, t, d)
<1>1. p[t].hours \subseteq Int /\ IsFiniteSet(p[t].hours) /\ S \subseteq Segments(p[t].hours)
    BY DEF IsPlanFor, SegmentsOn
<1>2. AreRuns(S, p[t].hours)
    BY <1>1, SegmentsAreRuns
<1>3. WorkOn(p, d)[t] = SumOver(LengthOf(S), S)
    BY DEF WorkOn
<1> HIDE DEF S
<1> QED BY <1>2, <1>3, RunsAreHours

(* The work of a single task.                                              *)
LEMMA WorkOfOne ==
    ASSUME NEW c, NEW p, IsPlanFor(c, p), NEW d, NEW t \in DOMAIN p
    PROVE  WorkIn(p, d, {t}) = WorkOn(p, d)[t]
<1> DEFINE f == WorkOn(p, d)
           S == {t}
<1>1. {t} \cap DOMAIN p = S /\ S \ {t} = {} /\ IsFiniteSet(S) /\ t \in S
    BY FS_Singleton
<1>2. \A x \in S : f[x] \in Int
    BY WorkIsLittle
<1> HIDE DEF f, S
<1>3. SumOver(f, S) = f[t] + SumOver(f, S \ {t}) /\ f[t] \in Int
    BY <1>1, <1>2, SumWithout
<1>4. SumOver(f, S) = f[t]
    BY <1>1, <1>3, SumOfNothing
<1> QED BY <1>1, <1>4, WorkInIs DEF f

\* A task has so much work at the most in a plan, and no other has more than before.
OnlyThisGrows(c, p, e, q, d, t, most) ==
    /\ IsFiniteSet(DOMAIN p) /\ IsPlanFor(c, p) /\ IsPlanFor(e, q) /\ DOMAIN q = DOMAIN p
    /\ t \in DOMAIN p /\ most \in Int /\ WorkIn(q, d, {t}) <= most
    /\ \A u \in DOMAIN p \ {t} : WorkIn(q, d, {u}) <= WorkIn(p, d, {u})

(* Then neither have some of them together, but for the work of that one.  *)
LEMMA OthersDoNotGrow ==
    ASSUME NEW c, NEW p, NEW e, NEW q, NEW d, NEW t, NEW most, OnlyThisGrows(c, p, e, q, d, t, most),
           NEW ts
    PROVE  /\ WorkIn(p, d, ts) \in Int /\ WorkIn(q, d, ts) \in Int
           /\ t \notin ts => WorkIn(q, d, ts) <= WorkIn(p, d, ts)
           /\ t \in ts => WorkIn(q, d, ts) <= WorkIn(p, d, ts) + most
<1> USE DEF OnlyThisGrows
<1> DEFINE S == ts \cap DOMAIN p
           f == WorkOn(p, d)
           g == WorkOn(q, d)
<1>1. \A u \in DOMAIN p : /\ f[u] \in Int /\ f[u] >= 0 /\ g[u] \in Int /\ g[u] >= 0
                          /\ WorkIn(p, d, {u}) = f[u] /\ WorkIn(q, d, {u}) = g[u]
    BY WorkIsLittle, WorkOfOne
<1>2. WorkIn(p, d, ts) = SumOver(f, S) /\ WorkIn(q, d, ts) = SumOver(g, S)
    BY WorkInIs
<1>3. IsFiniteSet(S) /\ S \subseteq DOMAIN p
    BY FS_Subset
<1>4. g[t] <= most /\ \A u \in DOMAIN p \ {t} : g[u] <= f[u]
    BY <1>1
<1> HIDE DEF f, g
<1>5. CASE t \notin ts
    <2>1. \A u \in S : g[u] \in Int /\ f[u] \in Int /\ g[u] <= f[u]
        BY <1>1, <1>4, <1>5
    <2> HIDE DEF S
    <2> QED BY <1>2, <1>3, <1>5, <2>1, SumsInOrder
<1>6. CASE t \in ts
    <2> DEFINE R == S \ {t}
    <2>1. t \in S /\ IsFiniteSet(R)
        BY <1>3, <1>6, FS_RemoveElement
    <2>2. \A u \in S : g[u] \in Int /\ f[u] \in Int
        BY <1>1
    <2>3. \A u \in R : g[u] \in Int /\ f[u] \in Int /\ g[u] <= f[u]
        BY <1>1, <1>4
    <2> HIDE DEF S
    <2>4. /\ SumOver(f, S) \in Int /\ SumOver(f, S) = f[t] + SumOver(f, R)
          /\ SumOver(g, S) \in Int /\ SumOver(g, S) = g[t] + SumOver(g, R)
        BY <1>3, <2>1, <2>2, SumWithout
    <2> HIDE DEF R
    <2>5. SumOver(f, R) \in Int /\ SumOver(g, R) \in Int /\ SumOver(g, R) <= SumOver(f, R)
        BY <2>1, <2>3, SumsInOrder
    <2>6. f[t] \in Int /\ f[t] >= 0 /\ g[t] \in Int /\ g[t] <= most
        BY <1>1, <1>4
    <2> QED BY <1>2, <1>6, <2>4, <2>5, <2>6
<1> QED BY <1>5, <1>6

-----------------------------------------------------------------------------
(***************************************************************************)
(* Packing: the trial of a task, and what is saved                         *)
(***************************************************************************)
\* The candidates as packing tries them: one is available from some hour on.
Tried(t, h) == [u \in DOMAIN drawn |-> IF u = t THEN [drawn[t] EXCEPT !.avail = h] ELSE drawn[u]]

(* They are planned like the others.                                       *)
LEMMA TriedIsPlanned ==
    ASSUME AreDays, ArePlannable(drawn), NEW t \in DOMAIN drawn, NEW h \in Int, h >= Now
    PROVE  /\ PlanWith(With(<< >>, t, h)) = PlanOf(Tried(t, h), Now)
           /\ ArePlannable(Tried(t, h)) /\ IsPlanFor(drawn, PlanOf(Tried(t, h), Now))
           /\ DOMAIN PlanOf(Tried(t, h), Now) = DOMAIN drawn
           /\ DOMAIN Tried(t, h) = DOMAIN drawn /\ Tried(t, h)[t].avail = h
           /\ \A u \in DOMAIN drawn \ {t} : Tried(t, h)[u] = drawn[u]
           /\ \A u \in DOMAIN drawn :
                 /\ Tried(t, h)[u].work = drawn[u].work /\ Tried(t, h)[u].children = drawn[u].children
                 /\ Tried(t, h)[u].ddl = drawn[u].ddl /\ Tried(t, h)[u].rank = drawn[u].rank
                 /\ Tried(t, h)[u].prio = drawn[u].prio /\ Tried(t, h)[u].atomic = drawn[u].atomic
<1> DEFINE c == Tried(t, h)
<1>1. Now \in Int /\ Larger(h, Now) = h
    BY DEF AreDays, IsProject, Larger
<1>2. \A u \in DOMAIN drawn : drawn[u] \in Candidate(DOMAIN drawn)
    BY DEF ArePlannable
<1>3. DOMAIN c = DOMAIN drawn /\ \A u \in DOMAIN drawn \ {t} : c[u] = drawn[u]
    BY DEF Tried
<1>4. c[t] = [drawn[t] EXCEPT !.avail = h]
    BY DEF Tried
<1>5. /\ c[t] \in Candidate(DOMAIN drawn) /\ c[t].avail = h
      /\ c[t].work = drawn[t].work /\ c[t].children = drawn[t].children
      /\ c[t].ddl = drawn[t].ddl /\ c[t].rank = drawn[t].rank
      /\ c[t].prio = drawn[t].prio /\ c[t].atomic = drawn[t].atomic
    BY <1>2, <1>4 DEF Candidate
<1>6. PlanWith(With(<< >>, t, h)) = PlanOf(c, Now)
    <2> DEFINE given == With(<< >>, t, h)
    <2>1. DOMAIN given = {t} /\ given[t] = h
        BY DEF With
    <2> HIDE DEF given
    <2>2. c = [u \in DOMAIN drawn |->
                  IF u \in DOMAIN given THEN [drawn[u] EXCEPT !.avail = Larger(given[u], Now)] ELSE drawn[u]]
        <3>1. \A u \in DOMAIN drawn :
                 (IF u = t THEN [drawn[t] EXCEPT !.avail = h] ELSE drawn[u])
                 = (IF u \in DOMAIN given THEN [drawn[u] EXCEPT !.avail = Larger(given[u], Now)] ELSE drawn[u])
            BY <1>1, <2>1
        <3> QED BY <3>1 DEF Tried
    <2> QED BY <2>2 DEF PlanWith, given
<1> HIDE DEF c
<1>7. ArePlannable(c)
    <2>1. IsFiniteSet(DOMAIN c) /\ DOMAIN c \subseteq Int
        BY <1>3 DEF ArePlannable
    <2>2. \A u \in DOMAIN c : c[u] \in Candidate(DOMAIN c)
        BY <1>2, <1>3, <1>5
    <2>3. \A u \in DOMAIN drawn : c[u].rank = drawn[u].rank /\ c[u].children = drawn[u].children
        BY <1>3, <1>5
    <2>4. \A u \in DOMAIN drawn : drawn[u].children \subseteq DOMAIN drawn
        BY <1>2 DEF Candidate
    <2>5. \A u \in DOMAIN c : \A v \in c[u].children : c[v].rank < c[u].rank
        BY <1>3, <2>3, <2>4 DEF ArePlannable
    <2> QED BY <2>1, <2>2, <2>5 DEF ArePlannable
<1>8. IsPlanFor(c, PlanOf(c, Now))
    BY <1>1, <1>7, PlanOfIsPlan
<1>9. IsPlanFor(drawn, PlanOf(c, Now))
    BY <1>3, <1>5, <1>8 DEF IsPlanFor
<1>10. DOMAIN PlanOf(c, Now) = DOMAIN drawn
    BY <1>1, <1>3, <1>7, PlansAreTurns DEF AreTurns, PlanOf
<1> QED BY <1>3, <1>5, <1>6, <1>7, <1>9, <1>10 DEF c

(* It begins at some hour.                                                 *)
LEMMA BeginningIsTime ==
    ASSUME NEW c, NEW p, IsPlanFor(c, p), NEW t \in DOMAIN p
    PROVE  StartIn(p, t) \in Int
<1>1. p[t].hours \subseteq Int /\ IsFiniteSet(p[t].hours) /\ p[t].end \in Int
    BY DEF IsPlanFor
<1> QED BY <1>1, MinIsLeast DEF StartIn

\* A place where a task fits when it is tried from hour h on.
IsPlace(t, d, h, x) ==
    /\ h \in Int /\ h <= EndOf(d) /\ Fits(PlanOf(Tried(t, h), Now), t, d)
    /\ x = StartIn(PlanOf(Tried(t, h), Now), t)

(* Every place that packing finds is one, from the beginning of the day on *)
(* and from the time that the task can be started.                         *)
LEMMA PlacementIs ==
    ASSUME AreDays, ArePlannable(drawn), NEW t \in DOMAIN drawn, t \in AllTasks, attr[t].start \in Int,
           NEW d \in Int, NEW x \in Placement(t, d)
    PROVE  \E h \in Int : IsPlace(t, d, h, x) /\ h >= StartOf(d) /\ h >= attr[t].start /\ h >= Now
<1> DEFINE work == drawn[t].work
           first == Max({StartOf(d), attr[t].start, Now})
           lastHour == EndOf(d)
           S == first..(lastHour + 1)
           V == SUBSET Int
           n == lastHour + 1 - first
           Value(g, h) ==
              LET p == PlanWith(With(<< >>, t, h))
              IN  IF h + work > lastHour THEN {}
                  ELSE IF t \in Atomic /\ ~FreeFrom(h, work) THEN g[h + 1]
                  ELSE IF Fits(p, t, d) THEN {StartIn(p, t)}
                  ELSE IF t \notin Atomic THEN {}
                  ELSE g[Smaller(lastHour + 1, Larger(h, StartIn(p, t)) + 1)]
           rank == [h \in S |-> lastHour + 1 - h]
           step == [y \in S \X [S -> V] |-> Value(y[2], y[1])]
           Is(g) == g = [h \in S |-> Value(g, h)]
           Later(h) == {k \in S : k > h}
<1>1. /\ Now \in Int /\ StartOf(d) \in Int /\ lastHour \in Int /\ work \in Nat
    <2>1. Now \in Int /\ DayLength \in Nat /\ NightHours \in Int
        BY DEF AreDays, IsProject
    <2>2. d * DayLength \in Int /\ (d + 1) * DayLength \in Int
        BY <2>1
    <2> QED BY <2>1, <2>2 DEF StartOf, EndOf, ArePlannable, Candidate
<1>2. first \in Int /\ first >= StartOf(d) /\ first >= attr[t].start /\ first >= Now
    <2> DEFINE T == {StartOf(d), attr[t].start, Now}
    <2>1. IsFiniteSet(T)
        <3>1. IsFiniteSet({StartOf(d)}) /\ IsFiniteSet({attr[t].start}) /\ IsFiniteSet({Now})
            BY FS_Singleton
        <3>2. IsFiniteSet({StartOf(d)} \cup {attr[t].start})
            BY <3>1, FS_Union
        <3>3. IsFiniteSet(({StartOf(d)} \cup {attr[t].start}) \cup {Now})
            BY <3>1, <3>2, FS_Union
        <3>4. T = ({StartOf(d)} \cup {attr[t].start}) \cup {Now}
            OBVIOUS
        <3> QED BY <3>3, <3>4
    <2>2. Max(T) \in T /\ \A y \in T : Max(T) >= y
        BY <1>1, <2>1, MaxIsGreatest
    <2> QED BY <1>1, <2>2
<1>3. Placement(t, d) = IF first > lastHour THEN {} ELSE (CHOOSE g : Is(g))[first]
    BY DEF Placement
<1>4. first <= lastHour
    <2> HIDE DEF first, lastHour, Is
    <2> QED BY <1>1, <1>2, <1>3
<1> HIDE DEF first, lastHour, work
<1>5. ASSUME NEW h \in S
      PROVE  LET p == PlanWith(With(<< >>, t, h))
             IN  /\ p = PlanOf(Tried(t, h), Now) /\ StartIn(p, t) \in Int
    <2>1. h \in Int /\ h >= Now
        BY <1>1, <1>2
    <2>2. /\ PlanWith(With(<< >>, t, h)) = PlanOf(Tried(t, h), Now)
          /\ IsPlanFor(drawn, PlanOf(Tried(t, h), Now)) /\ t \in DOMAIN PlanOf(Tried(t, h), Now)
        BY <2>1, TriedIsPlanned
    <2> QED BY <2>2, BeginningIsTime
<1>6. ASSUME NEW h \in S, NEW g
      PROVE  \/ Value(g, h) = {}
             \/ Value(g, h) = {StartIn(PlanOf(Tried(t, h), Now), t)} /\ Fits(PlanOf(Tried(t, h), Now), t, d) /\ h <= lastHour
             \/ \E k \in Later(h) : Value(g, h) = g[k]
    <2> DEFINE p == PlanWith(With(<< >>, t, h))
               b == StartIn(p, t)
               k == Smaller(lastHour + 1, Larger(h, b) + 1)
    <2>1. p = PlanOf(Tried(t, h), Now) /\ b \in Int
        BY <1>5
    <2>2. h \in Int /\ h >= first /\ h <= lastHour + 1
        BY <1>1, <1>2
    <2> HIDE DEF p, b
    <2>3. CASE h + work > lastHour
        BY <2>3
    <2>4. CASE h + work <= lastHour
        <3>1. h <= lastHour /\ h + 1 \in Later(h)
            BY <1>1, <1>2, <2>2, <2>4
        <3>2. k \in Later(h)
            BY <1>1, <1>2, <2>1, <2>2, <3>1 DEF Smaller, Larger
        <3> HIDE DEF k, Later
        <3>3. ~(h + work > lastHour)
            BY <1>1, <2>2, <2>4
        <3>4. Value(g, h) = IF t \in Atomic /\ ~FreeFrom(h, work) THEN g[h + 1]
                            ELSE IF Fits(p, t, d) THEN {b}
                            ELSE IF t \notin Atomic THEN {}
                            ELSE g[k]
            BY <3>3 DEF p, b, k
        <3>5. Fits(p, t, d) <=> Fits(PlanOf(Tried(t, h), Now), t, d)
            BY <2>1
        <3>6. b = StartIn(PlanOf(Tried(t, h), Now), t)
            BY <2>1 DEF b
        <3> HIDE DEF Value, k
        <3>7. \/ Value(g, h) = {}
              \/ Value(g, h) = {b} /\ Fits(p, t, d)
              \/ Value(g, h) = g[h + 1]
              \/ Value(g, h) = g[k]
            BY <3>4
        <3> HIDE DEF Later
        <3>8. {b} = {StartIn(PlanOf(Tried(t, h), Now), t)}
            BY <3>6
        <3>9. CASE Value(g, h) = {b} /\ Fits(p, t, d)
            BY <3>1, <3>5, <3>8, <3>9
        <3>10. CASE Value(g, h) = g[h + 1]
            BY <3>1, <3>10
        <3>11. CASE Value(g, h) = g[k]
            BY <3>2, <3>11
        <3> QED BY <3>7, <3>9, <3>10, <3>11
    <2>5. h + work > lastHour \/ h + work <= lastHour
        BY <1>1, <2>2
    <2> HIDE DEF Value, Later
    <2> QED BY <2>3, <2>4, <2>5
<1>7. ASSUME NEW h \in S, NEW g, NEW f, \A k \in Later(h) : g[k] = f[k] PROVE Value(g, h) = Value(f, h)
    <2> DEFINE p == PlanWith(With(<< >>, t, h))
               b == StartIn(p, t)
               k == Smaller(lastHour + 1, Larger(h, b) + 1)
    <2>1. b \in Int
        BY <1>5
    <2>2. h \in Int /\ h >= first /\ h <= lastHour + 1
        BY <1>1, <1>2
    <2> HIDE DEF p, b
    <2>3. CASE h + work > lastHour
        BY <2>3
    <2>4. CASE h + work <= lastHour
        <3>1. h <= lastHour /\ h + 1 \in Later(h)
            BY <1>1, <1>2, <2>2, <2>4
        <3>2. k \in Later(h)
            BY <1>1, <1>2, <2>1, <2>2, <3>1 DEF Smaller, Larger
        <3> HIDE DEF k, Later
        <3>3. g[h + 1] = f[h + 1] /\ g[k] = f[k]
            BY <1>7, <3>1, <3>2
        <3> QED BY <3>3 DEF p, b, k
    <2> QED BY <1>1, <2>2, <2>3, <2>4
<1> HIDE DEF Value
<1>8. n \in Nat /\ rank \in [S -> 0..n] /\ \A h \in S : \A k \in Later(h) : k \in S /\ rank[k] < rank[h]
    BY <1>1, <1>2, <1>4
<1>9. Recursion(S, V, n, rank, step)
    <2>1. step \in [S \X [S -> V] -> V]
        <3> SUFFICES ASSUME NEW h \in S, NEW g \in [S -> V] PROVE Value(g, h) \in V
            OBVIOUS
        <3>1. \A k \in Later(h) : g[k] \in V
            BY <1>8
        <3>2. {StartIn(PlanOf(Tried(t, h), Now), t)} \in V
            BY <1>5
        <3> HIDE DEF Later
        <3> QED BY <1>6, <3>1, <3>2
    <2>2. V # {}
        OBVIOUS
    <2>3. \A h \in S : \A g, f \in [S -> V] :
              (\A k \in S : rank[k] < rank[h] => g[k] = f[k]) => step[<<h, g>>] = step[<<h, f>>]
        <3> SUFFICES ASSUME NEW h \in S, NEW g \in [S -> V], NEW f \in [S -> V],
                            \A k \in S : rank[k] < rank[h] => g[k] = f[k]
                     PROVE  step[<<h, g>>] = step[<<h, f>>]
            OBVIOUS
        <3>1. \A k \in Later(h) : g[k] = f[k]
            <4> HIDE DEF S, rank, Later
            <4> QED BY <1>8
        <3>2. Value(g, h) = Value(f, h)
            BY <1>7, <3>1
        <3> QED BY <3>2
    <2> HIDE DEF S, V, rank, step, n
    <2> QED BY <1>8, <2>1, <2>2, <2>3 DEF Recursion
<1>10. PICK f \in [S -> V] : \A h \in S : f[h] = step[<<h, f>>]
    <2> HIDE DEF S, V, rank, step, n
    <2> QED BY <1>9, RecursionExists
<1>11. Is(f)
    <2>1. \A h \in S : f[h] = Value(f, h)
        <3> HIDE DEF V
        <3> QED BY <1>10
    <2> QED BY <1>10, <2>1
<1>12. PICK place : Is(place) /\ Placement(t, d) = place[first]
    <2>1. Is(CHOOSE g : Is(g))
        <3> HIDE DEF Is
        <3> QED BY <1>11
    <2> HIDE DEF Is
    <2> QED BY <1>1, <1>2, <1>3, <1>4, <2>1
<1>13. \A h \in S : place[h] = Value(place, h)
    BY <1>12
<1> DEFINE Good == {h \in S : \A y \in place[h] : \E k \in S : IsPlace(t, d, k, y)}
<1>14. \A h \in S : (\A k \in S : rank[k] < rank[h] => k \in Good) => h \in Good
    <2> SUFFICES ASSUME NEW h \in S, \A k \in S : rank[k] < rank[h] => k \in Good,
                        NEW y \in place[h]
                 PROVE  \E k \in S : IsPlace(t, d, k, y)
        OBVIOUS
    <2>1. place[h] = Value(place, h) /\ h \in Int
        BY <1>1, <1>2, <1>13
    <2>2. CASE /\ Value(place, h) = {StartIn(PlanOf(Tried(t, h), Now), t)} /\ h <= lastHour
               /\ Fits(PlanOf(Tried(t, h), Now), t, d)
        BY <2>1, <2>2 DEF IsPlace, lastHour
    <2>3. ASSUME NEW k \in Later(h), Value(place, h) = place[k] PROVE \E l \in S : IsPlace(t, d, l, y)
        <3>1. k \in S /\ rank[k] < rank[h]
            BY <1>8
        <3>2. k \in Good
            <4> HIDE DEF S, rank, Good
            <4> QED BY <3>1
        <3> QED BY <2>1, <2>3, <3>2
    <2> HIDE DEF Later, S
    <2> QED BY <1>6, <2>1, <2>2, <2>3
<1>15. Good = S
    <2>1. Good \subseteq S
        OBVIOUS
    <2> HIDE DEF Good, S, rank, n
    <2>2. Inherited(Good, S, n, rank)
        BY <1>8, <1>14, <2>1 DEF Inherited
    <2> QED BY <2>2, RankInduction
<1>16. first \in S
    BY <1>1, <1>2, <1>4
<1>17. PICK h \in S : IsPlace(t, d, h, x)
    <2>1. first \in Good
        BY <1>15, <1>16
    <2>2. x \in place[first]
        BY <1>12
    <2> HIDE DEF S
    <2> QED BY <2>1, <2>2
<1>18. h \in Int /\ h >= first
    BY <1>1, <1>2
<1> QED BY <1>1, <1>2, <1>17, <1>18

(* What is free of a day is a number.                                      *)
LEMMA CapacityIsNumber ==
    ASSUME AreDays, NEW d \in Int
    PROVE  Capacity(d) \in Int
<1> DEFINE S == {h \in Free : h >= Now /\ StartOf(d) <= h /\ h < EndOf(d)}
           T == StartOf(d)..EndOf(d)
<1>1. StartOf(d) \in Int /\ EndOf(d) \in Int
    <2>1. DayLength \in Nat /\ NightHours \in Int
        BY DEF AreDays
    <2>2. d * DayLength \in Int /\ (d + 1) * DayLength \in Int
        BY <2>1
    <2> QED BY <2>1, <2>2 DEF StartOf, EndOf
<1>2. S \subseteq T
    <2> SUFFICES ASSUME NEW h \in S PROVE h \in T
        OBVIOUS
    <2>1. h \in Int
        BY DEF AreDays
    <2> QED BY <1>1, <2>1
<1>3. IsFiniteSet(T)
    BY <1>1, FS_Interval
<1> HIDE DEF S, T
<1>4. Cardinality(S) \in Nat
    BY <1>2, <1>3, FS_Subset, FS_CardinalityType
<1>5. Larger(0, EndOf(d) - Now) \in Int
    BY <1>1 DEF Larger, AreDays, IsProject
<1>6. Capacity(d) = IF d = Today /\ Night THEN Larger(0, EndOf(d) - Now) ELSE Cardinality(S)
    BY DEF Capacity, S
<1> QED BY <1>4, <1>5, <1>6

(* And so is the work of some tasks on it.                                 *)
LEMMA WorkIsNumber ==
    ASSUME NEW c, NEW p, IsPlanFor(c, p), IsFiniteSet(DOMAIN p), NEW d, NEW ts
    PROVE  WorkIn(p, d, ts) \in Int
<1> DEFINE S == ts \cap DOMAIN p
           f == WorkOn(p, d)
<1>1. IsFiniteSet(S)
    BY FS_Subset
<1>2. \A u \in S : f[u] \in Int /\ f[u] <= f[u]
    BY WorkIsLittle
<1>3. SumOver(f, S) \in Int
    <2> HIDE DEF f, S
    <2> QED BY <1>1, <1>2, SumsInOrder
<1> QED BY <1>3, WorkInIs

\* A day of a plan has room for some work before seven tenths of it are planned.
HasLeeway(p, d, work) ==
    LET free == Capacity(d) - WorkIn(p, d, Routine)
    IN  free > 0 /\ (7 * free) \div 10 - WorkIn(p, d, AllTasks \ Routine) >= work

(* That is what packing asks for.                                          *)
LEMMA LeewayIs ==
    ASSUME AreDays, IsPlanFor(drawn, plan), IsFiniteSet(DOMAIN plan),
           NEW d \in Int, NEW work \in Nat, work > 0, Leeway(d) >= work
    PROVE  HasLeeway(plan, d, work)
<1> DEFINE free == Capacity(d) - WorkIn(plan, d, Routine)
           rest == WorkIn(plan, d, AllTasks \ Routine)
<1>1. Capacity(d) \in Int /\ WorkIn(plan, d, Routine) \in Int /\ rest \in Int
    BY CapacityIsNumber, WorkIsNumber
<1>2. free \in Int
    BY <1>1
<1>3. Leeway(d) = IF free <= 0 THEN 0 ELSE Larger(0, (7 * free) \div 10 - rest)
    BY DEF Leeway, Work
<1> HIDE DEF free, rest
<1>4. free > 0 /\ (7 * free) \div 10 - rest >= work
    BY <1>1, <1>2, <1>3 DEF Larger
<1> QED BY <1>4 DEF HasLeeway, free, rest

(* A task with so much work, and no other, leaves it below the target.     *)
LEMMA TargetIsKept ==
    ASSUME AreDays, NEW d \in Int, NEW c, NEW p, NEW e, NEW q, NEW t \in AllTasks, NEW work \in Nat,
           work > 0, HasLeeway(p, d, work), OnlyThisGrows(c, p, e, q, d, t, work)
    PROVE  10 * WorkIn(q, d, AllTasks \ Routine) <= 7 * (Capacity(d) - WorkIn(q, d, Routine))
<1> DEFINE cap == Capacity(d)
           r == WorkIn(p, d, Routine)
           r2 == WorkIn(q, d, Routine)
           w == WorkIn(p, d, AllTasks \ Routine)
           w2 == WorkIn(q, d, AllTasks \ Routine)
<1>1. cap \in Int
    BY CapacityIsNumber
<1>2. /\ r \in Int /\ r2 \in Int
      /\ t \notin Routine => r2 <= r
      /\ t \in Routine => r2 <= r + work
    BY OthersDoNotGrow
<1>3. /\ w \in Int /\ w2 \in Int
      /\ t \notin AllTasks \ Routine => w2 <= w
      /\ t \in AllTasks \ Routine => w2 <= w + work
    BY OthersDoNotGrow
<1>4. cap - r > 0 /\ (7 * (cap - r)) \div 10 - w >= work
    BY DEF HasLeeway
<1> HIDE DEF cap, r, r2, w, w2
<1>5. 10 * (w + work) <= 7 * (cap - r)
    <2> DEFINE m == 7 * (cap - r)
               k == m \div 10
    <2>1. m \in Int
        BY <1>1, <1>2
    <2> HIDE DEF m
    <2>2. k \in Int /\ 10 * k <= m
        BY <2>1
    <2>3. k - w >= work
        BY <1>4 DEF m
    <2> HIDE DEF k
    <2>4. 10 * (w + work) <= m
        BY <1>3, <2>1, <2>2, <2>3
    <2> QED BY <2>4 DEF m
<1>6. 10 * w2 <= 7 * (cap - r2)
    <2>1. CASE t \in Routine
        <3>1. w2 <= w /\ r2 <= r + work
            BY <1>2, <1>3, <2>1
        <3> QED BY <1>1, <1>2, <1>3, <1>5, <3>1
    <2>2. CASE t \notin Routine
        <3>1. w2 <= w + work /\ r2 <= r
            BY <1>2, <1>3, <2>2
        <3> QED BY <1>1, <1>2, <1>3, <1>5, <3>1
    <2> QED BY <2>1, <2>2
<1> QED BY <1>6 DEF cap, r2, w2

-----------------------------------------------------------------------------
(***************************************************************************)
(* A task that waits for another time                                      *)
(***************************************************************************)
\* A task waits for another time, and nothing else changes.
WaitsUntil(t, w) ==
    /\ IsProject /\ ChainTypeOK /\ t \in AllTasks /\ w \in Int
    /\ up' = up /\ attr' = [attr EXCEPT ![t].wait = w]

(* Everything but that time stays as it is.                                *)
LEMMA OnlyWaitChanges ==
    ASSUME NEW t, NEW w, WaitsUntil(t, w)
    PROVE  /\ ChainTypeOK'
           /\ \A u \in AllTasks :
                 /\ attr'[u].start = attr[u].start /\ attr'[u].pending = attr[u].pending
                 /\ attr'[u].done = attr[u].done /\ attr'[u].ddl = attr[u].ddl
                 /\ attr'[u].est = attr[u].est /\ attr'[u].act = attr[u].act
                 /\ attr'[u].wait = IF u = t THEN w ELSE attr[u].wait
<1> DEFINE Kind == [start : Int, wait : Int, pending : BOOLEAN, done : BOOLEAN,
                    ddl : {d \in Int : d <= Never}, est : Nat, act : Nat]
<1>1. attr \in [AllTasks -> Kind] /\ t \in AllTasks /\ w \in Int
    BY DEF WaitsUntil, ChainTypeOK, Attributes
<1>2. attr' = [attr EXCEPT ![t] = [attr[t] EXCEPT !.wait = w]]
    BY DEF WaitsUntil
<1>3. [attr[t] EXCEPT !.wait = w] \in Kind
    BY <1>1
<1>4. attr' \in [AllTasks -> Kind]
    <2> HIDE DEF Kind
    <2> QED BY <1>1, <1>2, <1>3
<1>5. ChainTypeOK'
    BY <1>4 DEF WaitsUntil, ChainTypeOK, Attributes
<1>6. ASSUME NEW u \in AllTasks
      PROVE  /\ attr'[u].start = attr[u].start /\ attr'[u].pending = attr[u].pending
             /\ attr'[u].done = attr[u].done /\ attr'[u].ddl = attr[u].ddl
             /\ attr'[u].est = attr[u].est /\ attr'[u].act = attr[u].act
             /\ attr'[u].wait = IF u = t THEN w ELSE attr[u].wait
    <2>1. CASE u = t
        <3>1. attr'[t] = [attr[t] EXCEPT !.wait = w] /\ attr[t] \in Kind
            BY <1>1, <1>2
        <3> QED BY <2>1, <3>1
    <2>2. CASE u # t
        <3>1. attr'[u] = attr[u]
            BY <1>1, <1>2, <2>2
        <3> QED BY <2>2, <3>1
    <2> QED BY <2>1, <2>2
<1> QED BY <1>5, <1>6

(* So the chains are the same ones, and what is left to do of each task.   *)
LEMMA ChainsStay ==
    ASSUME NEW t, NEW w, WaitsUntil(t, w)
    PROVE  /\ Leaves' = Leaves
           /\ \A l : Chain(l)' = Chain(l)
           /\ \A u : OnChains(u)' = OnChains(u) /\ Children(u)' = Children(u)
           /\ \A u \in AllTasks : /\ Remaining(u)' = Remaining(u) /\ PlannedWork(u)' = PlannedWork(u)
                                  /\ Limit(u)' = Limit(u)
                                  /\ u # t => Alone(u)' = Alone(u)
<1>1. up' = up
    BY DEF WaitsUntil
<1>2. \A u \in AllTasks :
         /\ attr'[u].start = attr[u].start /\ attr'[u].pending = attr[u].pending
         /\ attr'[u].done = attr[u].done /\ attr'[u].ddl = attr[u].ddl
         /\ attr'[u].est = attr[u].est /\ attr'[u].act = attr[u].act
         /\ attr'[u].wait = IF u = t THEN w ELSE attr[u].wait
    BY OnlyWaitChanges
<1>3. \A u \in AllTasks : Open(u)' <=> Open(u)
    BY <1>2 DEF Open
<1>4. \A u : Children(u)' = Children(u)
    BY <1>1 DEF Children
<1>5. Reached' = Reached
    <2> DEFINE P(r) == r = [i \in AllTasks |-> up[i] = NoTask \/ (Open(i) /\ r[up[i]])]
               Q(r) == r = [i \in AllTasks |-> up'[i] = NoTask \/ (Open(i)' /\ r[up'[i]])]
    <2>1. ASSUME NEW r PROVE P(r) <=> Q(r)
        <3>1. \A i \in AllTasks : (up[i] = NoTask \/ (Open(i) /\ r[up[i]]))
                                  = (up'[i] = NoTask \/ (Open(i)' /\ r[up'[i]]))
            BY <1>1, <1>3
        <3> QED BY <3>1
    <2>2. Reached = {u \in AllTasks : (CHOOSE r : P(r))[u]}
        BY DEF Reached
    <2>3. Reached' = {u \in AllTasks : (CHOOSE r : Q(r))[u]}
        BY DEF Reached
    <2>4. (CHOOSE r : P(r)) = (CHOOSE r : Q(r))
        <3> HIDE DEF P, Q
        <3> QED BY <2>1
    <2> QED BY <2>2, <2>3, <2>4
<1>6. Leaves' = Leaves
    <2>1. Reached \subseteq AllTasks
        BY DEF Reached
    <2>2. \A u : Children(u) \subseteq AllTasks
        BY DEF Children
    <2>3. \A u \in Reached : (Open(u)' /\ \A c \in Children(u)' : ~Open(c)')
                             <=> (Open(u) /\ \A c \in Children(u) : ~Open(c))
        BY <1>3, <1>4, <2>1, <2>2
    <2> QED BY <1>5, <2>3 DEF Leaves
<1>7. ASSUME NEW l PROVE Chain(l)' = Chain(l)
    <2> DEFINE P(r) == r = [i \in AllTasks |-> IF up[i] = NoTask THEN <<i>> ELSE <<i>> \o r[up[i]]]
               Q(r) == r = [i \in AllTasks |-> IF up'[i] = NoTask THEN <<i>> ELSE <<i>> \o r[up'[i]]]
    <2>1. ASSUME NEW r PROVE P(r) <=> Q(r)
        <3>1. \A i \in AllTasks : (IF up[i] = NoTask THEN <<i>> ELSE <<i>> \o r[up[i]])
                                  = (IF up'[i] = NoTask THEN <<i>> ELSE <<i>> \o r[up'[i]])
            BY <1>1
        <3> QED BY <3>1
    <2>2. Chain(l) = (CHOOSE r : P(r))[l]
        BY DEF Chain
    <2>3. Chain(l)' = (CHOOSE r : Q(r))[l]
        BY DEF Chain
    <2>4. (CHOOSE r : P(r)) = (CHOOSE r : Q(r))
        <3> HIDE DEF P, Q
        <3> QED BY <2>1
    <2> QED BY <2>2, <2>3, <2>4
<1>8. \A u : OnChains(u)' = OnChains(u)
    BY <1>6, <1>7 DEF OnChains
<1>9. ASSUME NEW u \in AllTasks
      PROVE  /\ Remaining(u)' = Remaining(u) /\ PlannedWork(u)' = PlannedWork(u)
             /\ Limit(u)' = Limit(u) /\ (u # t => Alone(u)' = Alone(u))
    <2>1. Remaining(u)' = Remaining(u)
        BY <1>2 DEF Remaining
    <2>2. PlannedWork(u)' = PlannedWork(u)
        BY <1>2 DEF PlannedWork
    <2>3. Limit(u)' = Limit(u)
        BY <1>2 DEF Limit
    <2>4. u # t => Alone(u)' = Alone(u)
        BY <1>2 DEF Alone
    <2> QED BY <2>1, <2>2, <2>3, <2>4
<1> QED BY <1>4, <1>6, <1>7, <1>8, <1>9

(* A task has the same place on each of them.                              *)
LEMMA PlacesStay ==
    ASSUME NEW t, NEW w, WaitsUntil(t, w), NEW u, NEW l
    PROVE  Position(u, l)' = Position(u, l)
<1> DEFINE P(i) == i \in DOMAIN Chain(l) /\ Chain(l)[i] = u
           Q(i) == i \in DOMAIN Chain(l)' /\ Chain(l)'[i] = u
<1>1. ASSUME NEW i PROVE P(i) <=> Q(i)
    BY ChainsStay
<1>2. Position(u, l) = (CHOOSE i : P(i))
    BY DEF Position
<1>3. Position(u, l)' = (CHOOSE i : Q(i))
    BY DEF Position
<1>4. (CHOOSE i : P(i)) = (CHOOSE i : Q(i))
    <2> HIDE DEF P, Q
    <2> QED BY <1>1
<1> QED BY <1>2, <1>3, <1>4

(* The passes over a chain that the task is not on come to the same times. *)
LEMMA TimesStay ==
    ASSUME NEW t, NEW w, WaitsUntil(t, w), NEW c \in Seq(AllTasks), \A i \in DOMAIN c : c[i] # t
    PROVE  FirstAvailable(c)' = FirstAvailable(c)
<1>0. DOMAIN c = 1..Len(c) /\ Len(c) \in Nat
    OBVIOUS
<1>1. \A i \in DOMAIN c : c[i] \in AllTasks
    OBVIOUS
<1>2. \A i \in DOMAIN c : /\ Alone(c[i])' = Alone(c[i]) /\ Remaining(c[i])' = Remaining(c[i])
                          /\ attr'[c[i]].ddl = attr[c[i]].ddl
    BY <1>1, ChainsStay, OnlyWaitChanges
<1>3. Rough(c)' = Rough(c)
    <2> DEFINE P(r) == r = [i \in DOMAIN c |->
                               IF i = 1 THEN Alone(c[1])
                               ELSE Larger(r[i - 1] + Remaining(c[i - 1]), Alone(c[i]))]
               Q(r) == r = [i \in DOMAIN c |->
                               IF i = 1 THEN Alone(c[1])'
                               ELSE Larger(r[i - 1] + Remaining(c[i - 1])', Alone(c[i])')]
    <2>1. ASSUME NEW r PROVE P(r) <=> Q(r)
        <3>1. ASSUME NEW i \in DOMAIN c
              PROVE  (IF i = 1 THEN Alone(c[1]) ELSE Larger(r[i - 1] + Remaining(c[i - 1]), Alone(c[i])))
                     = (IF i = 1 THEN Alone(c[1])' ELSE Larger(r[i - 1] + Remaining(c[i - 1])', Alone(c[i])'))
            <4>1. CASE i = 1
                BY <1>2, <4>1
            <4>2. CASE i # 1
                <5>1. i - 1 \in DOMAIN c
                    BY <1>0, <4>2
                <5> QED BY <1>2, <4>2, <5>1
            <4> QED BY <4>1, <4>2
        <3> QED BY <3>1
    <2>2. Rough(c) = (CHOOSE r : P(r))
        BY DEF Rough
    <2>3. Rough(c)' = (CHOOSE r : Q(r))
        BY DEF Rough
    <2>4. (CHOOSE r : P(r)) = (CHOOSE r : Q(r))
        <3> HIDE DEF P, Q
        <3> QED BY <2>1
    <2> QED BY <2>2, <2>3, <2>4
<1>4. OnTime(c)' = OnTime(c)
    <2> DEFINE rough == Rough(c)
               Before(o, i) == IF i = Len(c) THEN Never ELSE o[i + 1].before
               Latest1(o, i) == Smaller(Before(o, i), attr[c[i]].ddl) - Remaining(c[i])
               Latest2(o, i) == Smaller(Before(o, i), attr'[c[i]].ddl) - Remaining(c[i])'
               Value(z, l, b) == IF z >= l THEN [at |-> l, before |-> l] ELSE [at |-> z, before |-> b]
               P(o) == o = [i \in DOMAIN c |-> Value(rough[i], Latest1(o, i), Before(o, i))]
               Q(o) == o = [i \in DOMAIN c |-> Value(rough'[i], Latest2(o, i), Before(o, i))]
    <2>1. ASSUME NEW o PROVE P(o) <=> Q(o)
        <3>1. \A i \in DOMAIN c : Latest1(o, i) = Latest2(o, i)
            BY <1>2
        <3>2. rough' = rough
            BY <1>3
        <3> HIDE DEF Value, Latest1, Latest2, Before, rough
        <3>3. \A i \in DOMAIN c : Value(rough[i], Latest1(o, i), Before(o, i))
                                  = Value(rough'[i], Latest2(o, i), Before(o, i))
            BY <3>1, <3>2
        <3> QED BY <3>3
    <2>2. OnTime(c) = (CHOOSE o : P(o))
        BY DEF OnTime
    <2>3. OnTime(c)' = (CHOOSE o : Q(o))
        BY DEF OnTime
    <2>4. (CHOOSE o : P(o)) = (CHOOSE o : Q(o))
        <3> HIDE DEF P, Q
        <3> QED BY <2>1
    <2> QED BY <2>2, <2>3, <2>4
<1>5. FirstAvailable(c)' = FirstAvailable(c)
    <2> DEFINE ontime == OnTime(c)
               Own1(i) == Smaller(ontime[i].at, Alone(c[i]))
               Own2(i) == Smaller(ontime'[i].at, Alone(c[i])')
               P(f) == f = [i \in DOMAIN c |->
                               IF i = 1 THEN Own1(i) ELSE Larger(Own1(i), f[i - 1] + Remaining(c[i - 1]))]
               Q(f) == f = [i \in DOMAIN c |->
                               IF i = 1 THEN Own2(i) ELSE Larger(Own2(i), f[i - 1] + Remaining(c[i - 1])')]
    <2>1. ASSUME NEW f PROVE P(f) <=> Q(f)
        <3>1. \A i \in DOMAIN c : Own1(i) = Own2(i)
            BY <1>2, <1>4
        <3> HIDE DEF Own1, Own2
        <3>2. ASSUME NEW i \in DOMAIN c
              PROVE  (IF i = 1 THEN Own1(i) ELSE Larger(Own1(i), f[i - 1] + Remaining(c[i - 1])))
                     = (IF i = 1 THEN Own2(i) ELSE Larger(Own2(i), f[i - 1] + Remaining(c[i - 1])'))
            <4>1. CASE i = 1
                BY <3>1, <4>1
            <4>2. CASE i # 1
                <5>1. i - 1 \in DOMAIN c
                    BY <1>0, <4>2
                <5> QED BY <1>2, <3>1, <4>2, <5>1
            <4> QED BY <4>1, <4>2
        <3> QED BY <3>2
    <2>2. FirstAvailable(c) = (CHOOSE f : P(f))
        BY DEF FirstAvailable
    <2>3. FirstAvailable(c)' = (CHOOSE f : Q(f))
        BY DEF FirstAvailable
    <2>4. (CHOOSE f : P(f)) = (CHOOSE f : Q(f))
        <3> HIDE DEF P, Q
        <3> QED BY <2>1
    <2> QED BY <2>2, <2>3, <2>4
<1> QED BY <1>5

\* What is planned, task by task.
PlansChains ==
    /\ DOMAIN ToPlan = {u \in AllTasks : OnChains(u) # {}}
    /\ \A u \in DOMAIN ToPlan :
          /\ ToPlan[u].avail = Max(TimesOn(u)) /\ ToPlan[u].rank = Max(RanksOn(u))
          /\ ToPlan[u].work = PlannedWork(u) /\ ToPlan[u].ddl = attr[u].ddl
          /\ ToPlan[u].children = {v \in Children(u) : OnChains(v) # {}}
          /\ ToPlan[u].prio = Priority[u] /\ ToPlan[u].atomic = (u \in Atomic)

(* That is what ToPlan is.                                                 *)
LEMMA ToPlanIs == PlansChains
<1>1. DOMAIN ToPlan = DOMAIN CandidatesNow /\ DOMAIN CandidatesNow = {u \in AllTasks : OnChains(u) # {}}
    BY DEF ToPlan, CandidatesNow
<1>2. ASSUME NEW u \in DOMAIN ToPlan
      PROVE  /\ ToPlan[u].avail = Max(TimesOn(u)) /\ ToPlan[u].rank = Max(RanksOn(u))
             /\ ToPlan[u].work = PlannedWork(u) /\ ToPlan[u].ddl = attr[u].ddl
             /\ ToPlan[u].children = {v \in Children(u) : OnChains(v) # {}}
             /\ ToPlan[u].prio = Priority[u] /\ ToPlan[u].atomic = (u \in Atomic)
    <2>1. u \in DOMAIN CandidatesNow
        BY <1>1
    <2>2. /\ CandidatesNow[u].avail = Max(TimesOn(u)) /\ CandidatesNow[u].rank = Max(RanksOn(u))
          /\ CandidatesNow[u].work = PlannedWork(u) /\ CandidatesNow[u].ddl = attr[u].ddl
          /\ CandidatesNow[u].children = {v \in Children(u) : OnChains(v) # {}}
        BY <1>1, <2>1 DEF CandidatesNow, TimesOn, TimeOn, RanksOn
    <2>3. ToPlan[u] = [avail |-> CandidatesNow[u].avail, work |-> CandidatesNow[u].work,
                       children |-> CandidatesNow[u].children, ddl |-> CandidatesNow[u].ddl,
                       rank |-> CandidatesNow[u].rank, prio |-> Priority[u], atomic |-> u \in Atomic]
        BY <2>1 DEF ToPlan
    <2> QED BY <2>2, <2>3
<1> QED BY <1>1, <1>2 DEF PlansChains

(* A task that ranks lowest is a leaf, and waits for no other.             *)
LEMMA LowestIsLeaf ==
    ASSUME AreDays, ChainTypeOK, NEW t \in DOMAIN ToPlan, ToPlan[t].rank = 0
    PROVE  /\ t \in AllTasks /\ t \in Leaves /\ OnChains(t) = {t} /\ ToPlan[t].children = {}
           /\ Len(Chain(t)) \in Nat \ {0} /\ Chain(t)[1] = t /\ Position(t, t) = 1
           /\ ToPlan[t].avail = Larger(Now, TimeOn(t, t)) /\ TimeOn(t, t) \in Int /\ Now \in Int
<1>0. IsProject /\ up \in Ups
    BY DEF AreDays, ChainTypeOK
<1>1. /\ t \in AllTasks /\ OnChains(t) # {} /\ ToPlan[t].avail = Max(TimesOn(t)) /\ Max(RanksOn(t)) = 0
      /\ ToPlan[t].children = {v \in Children(t) : OnChains(v) # {}}
    BY ToPlanIs DEF PlansChains
<1>2. ASSUME NEW l \in OnChains(t)
      PROVE  /\ Position(t, l) = 1 /\ l = t /\ l \in Leaves
             /\ Len(Chain(l)) \in Nat \ {0} /\ Chain(l)[1] = t
    <2>1. Position(t, l) - 1 \in RanksOn(t)
        BY DEF RanksOn
    <2>2. Position(t, l) - 1 <= 0
        BY <1>0, <1>1, <2>1, GreatestOnChains
    <2>3. /\ l \in Leaves /\ Position(t, l) \in 1..Len(Chain(l)) /\ Chain(l)[Position(t, l)] = t
          /\ Len(Chain(l)) \in Nat
        BY <1>0, <1>1, OnTheirChains
    <2>4. Position(t, l) = 1
        BY <2>2, <2>3
    <2>5. l \in AllTasks
        BY <2>3 DEF Leaves, Reached
    <2>6. Upward(Chain(l), l)
        BY <1>0, <2>5, ChainIsUpward
    <2>7. Chain(l)[1] = l
        BY <2>6 DEF Upward
    <2> QED BY <2>3, <2>4, <2>7
<1>3. OnChains(t) = {t}
    BY <1>1, <1>2
<1>4. /\ t \in Leaves /\ Len(Chain(t)) \in Nat \ {0} /\ Chain(t)[1] = t /\ Position(t, t) = 1
    <2>1. t \in OnChains(t)
        BY <1>3
    <2> QED BY <1>2, <2>1
<1>5. ToPlan[t].children = {}
    <2> SUFFICES ASSUME NEW v \in Children(t), NEW l \in OnChains(v) PROVE FALSE
        BY <1>1
    <2>1. l \in Leaves /\ v \in ToSet(Chain(l)) /\ v \in AllTasks
        BY DEF OnChains, Children
    <2>2. t \in ToSet(Chain(l)) /\ Position(t, l) = Position(v, l) + 1
        BY <1>0, <1>1, <2>1, ParentIsNext
    <2>3. l \in OnChains(t)
        BY <2>1, <2>2 DEF OnChains
    <2>4. Position(v, l) \in 1..Len(Chain(l)) /\ Len(Chain(l)) \in Nat
        BY <1>0, <2>1, OnTheirChains
    <2> QED BY <1>2, <2>2, <2>3, <2>4
<1>6. TimeOn(t, t) \in Int /\ Now \in Int
    BY <1>0, <1>1, <1>3, OnTheirChains DEF IsProject
<1>7. ToPlan[t].avail = Larger(Now, TimeOn(t, t))
    <2> DEFINE m == Max(TimesOn(t))
    <2>1. TimesOn(t) = {Now, TimeOn(t, t)}
        BY <1>3 DEF TimesOn
    <2>2. m \in TimesOn(t) /\ \A a \in TimesOn(t) : m >= a
        BY <1>0, <1>1, GreatestOnChains
    <2> HIDE DEF m
    <2>3. m \in {Now, TimeOn(t, t)} /\ m >= Now /\ m >= TimeOn(t, t)
        BY <2>1, <2>2
    <2>4. m = Larger(Now, TimeOn(t, t))
        BY <1>6, <2>3 DEF Larger
    <2> QED BY <1>1, <2>4 DEF m
<1> QED BY <1>1, <1>3, <1>4, <1>5, <1>6, <1>7

\* What waits, by its chains, for a task.
AboveOf(t) == {u \in DOMAIN ToPlan \ {t} : t \in OnChains(u)}

(* When a leaf waits for another time, only it and the tasks above it are  *)
(* available at other times.                                               *)
LEMMA OnlyTimesChange ==
    ASSUME AreDays, NEW t \in DOMAIN ToPlan, ToPlan[t].rank = 0, NEW w, WaitsUntil(t, w),
           NEW e, e = ToPlan'
    PROVE  Retimed(ToPlan, e, t, AboveOf(t))
<1>0. IsProject /\ ChainTypeOK /\ up \in Ups
    BY DEF AreDays, WaitsUntil, ChainTypeOK
<1>1. /\ t \in AllTasks /\ t \in Leaves /\ OnChains(t) = {t} /\ ToPlan[t].children = {}
      /\ Len(Chain(t)) \in Nat \ {0} /\ Chain(t)[1] = t /\ Position(t, t) = 1
    BY <1>0, LowestIsLeaf
<1>2. /\ \A u : OnChains(u)' = OnChains(u) /\ Children(u)' = Children(u)
      /\ \A l : Chain(l)' = Chain(l)
      /\ \A u \in AllTasks : PlannedWork(u)' = PlannedWork(u) /\ attr'[u].ddl = attr[u].ddl
    BY ChainsStay, OnlyWaitChanges
<1>3. /\ DOMAIN ToPlan' = {u \in AllTasks : OnChains(u)' # {}}
      /\ \A u \in DOMAIN ToPlan' :
          /\ ToPlan'[u].avail = Max(TimesOn(u)') /\ ToPlan'[u].rank = Max(RanksOn(u)')
          /\ ToPlan'[u].work = PlannedWork(u)' /\ ToPlan'[u].ddl = attr'[u].ddl
          /\ ToPlan'[u].children = {v \in Children(u)' : OnChains(v)' # {}}
          /\ ToPlan'[u].prio = Priority[u] /\ ToPlan'[u].atomic = (u \in Atomic)
    <2>1. PlansChains'
        BY ToPlanIs, PTL
    <2> QED BY <2>1 DEF PlansChains
<1>4. DOMAIN ToPlan' = DOMAIN ToPlan /\ DOMAIN ToPlan \subseteq AllTasks
    BY <1>2, <1>3, ToPlanIs DEF PlansChains
<1>5. ASSUME NEW u PROVE RanksOn(u)' = RanksOn(u)
    <2>1. \A l : Position(u, l)' = Position(u, l)
        BY PlacesStay
    <2> QED BY <1>2, <2>1 DEF RanksOn
<1>6. ASSUME NEW u \in AllTasks, t \notin OnChains(u) PROVE TimesOn(u)' = TimesOn(u)
    <2>1. ASSUME NEW l \in OnChains(u) PROVE TimeOn(u, l)' = TimeOn(u, l)
        <3>1. l \in Leaves /\ l # t
            BY <1>6 DEF OnChains
        <3>2. t \notin ToSet(Chain(l))
            BY <1>1, <3>1 DEF OnChains
        <3>3. PICK c \in {Chain(l)} : TRUE
            OBVIOUS
        <3>4. c \in Seq(AllTasks)
            BY <1>0, <3>1, <3>3, ChainsFit
        <3>5. \A i \in DOMAIN c : c[i] # t
            BY <3>2, <3>3 DEF ToSet
        <3>6. FirstAvailable(c)' = FirstAvailable(c)
            BY <3>4, <3>5, TimesStay
        <3>7. Chain(l) = c /\ Chain(l)' = c
            BY <1>2, <3>3
        <3>8. FirstAvailable(Chain(l))' = FirstAvailable(Chain(l))
            BY <3>6, <3>7
        <3>9. Position(u, l)' = Position(u, l)
            BY PlacesStay
        <3> QED BY <3>8, <3>9 DEF TimeOn
    <2>2. {TimeOn(u, l) : l \in OnChains(u)}' = {TimeOn(u, l) : l \in OnChains(u)}
        BY <1>2, <2>1
    <2> QED BY <2>2 DEF TimesOn
<1>7. ASSUME NEW u \in DOMAIN ToPlan
      PROVE  /\ e[u].work = ToPlan[u].work /\ e[u].children = ToPlan[u].children
             /\ e[u].ddl = ToPlan[u].ddl /\ e[u].rank = ToPlan[u].rank
             /\ e[u].prio = ToPlan[u].prio /\ e[u].atomic = ToPlan[u].atomic
             /\ t \notin OnChains(u) => e[u].avail = ToPlan[u].avail
    <2>1. u \in AllTasks /\ u \in DOMAIN ToPlan'
        BY <1>4
    <2>2. /\ ToPlan[u].avail = Max(TimesOn(u)) /\ ToPlan[u].rank = Max(RanksOn(u))
          /\ ToPlan[u].work = PlannedWork(u) /\ ToPlan[u].ddl = attr[u].ddl
          /\ ToPlan[u].children = {v \in Children(u) : OnChains(v) # {}}
          /\ ToPlan[u].prio = Priority[u] /\ ToPlan[u].atomic = (u \in Atomic)
        BY ToPlanIs DEF PlansChains
    <2>3. /\ e[u].avail = Max(TimesOn(u)') /\ e[u].rank = Max(RanksOn(u)')
          /\ e[u].work = PlannedWork(u)' /\ e[u].ddl = attr'[u].ddl
          /\ e[u].children = {v \in Children(u)' : OnChains(v)' # {}}
          /\ e[u].prio = Priority[u] /\ e[u].atomic = (u \in Atomic)
        BY <1>3, <2>1
    <2>4. e[u].children = ToPlan[u].children
        BY <1>2, <2>2, <2>3
    <2>5. e[u].rank = ToPlan[u].rank
        BY <1>5, <2>2, <2>3
    <2>6. t \notin OnChains(u) => e[u].avail = ToPlan[u].avail
        BY <1>6, <2>1, <2>2, <2>3
    <2> QED BY <1>2, <2>1, <2>2, <2>3, <2>4, <2>5, <2>6
<1>8. AboveOf(t) \subseteq DOMAIN ToPlan \ {t}
    BY DEF AboveOf
<1>9. ASSUME NEW b \in AboveOf(t)
      PROVE  ToPlan[b].children \cap (AboveOf(t) \cup {t}) # {}
    <2> DEFINE c == Chain(t)
               p == Position(b, t)
               u == c[p - 1]
    <2>1. b \in DOMAIN ToPlan /\ b # t /\ t \in OnChains(b) /\ b \in AllTasks
        BY <1>4 DEF AboveOf
    <2>2. p \in 1..Len(c) /\ c[p] = b
        BY <1>0, <2>1, OnTheirChains
    <2>3. Upward(c, t)
        BY <1>0, <1>1, ChainIsUpward
    <2>4. Len(c) \in Nat /\ c[1] = t /\ c \in Seq(AllTasks)
        BY <1>1, <2>3 DEF Upward
    <2> HIDE DEF c, p
    <2>5. p - 1 \in 1..(Len(c) - 1) /\ p - 1 \in 1..Len(c) /\ (p - 1) + 1 = p
        <3>1. p # 1
            BY <2>1, <2>2, <2>4
        <3> QED BY <2>2, <2>4, <3>1
    <2>6. u \in AllTasks /\ up[u] = b
        <3>1. c[p - 1] \in AllTasks
            BY <2>4, <2>5
        <3>2. c[(p - 1) + 1] = up[c[p - 1]]
            BY <2>3, <2>5 DEF Upward
        <3> QED BY <2>2, <2>5, <3>1, <3>2
    <2>7. u \in ToSet(c)
        BY <2>4, <2>5 DEF ToSet
    <2> HIDE DEF u
    <2>8. u \in Children(b)
        BY <2>6 DEF Children
    <2>9. t \in OnChains(u)
        BY <1>1, <2>7 DEF OnChains, c
    <2>10. u \in DOMAIN ToPlan
        BY <2>6, <2>9, ToPlanIs DEF PlansChains
    <2>11. u \in AboveOf(t) \cup {t}
        BY <2>9, <2>10 DEF AboveOf
    <2>12. u \in ToPlan[b].children
        BY <2>1, <2>8, <2>9, ToPlanIs DEF PlansChains
    <2> QED BY <2>11, <2>12
<1>10. \A u \in DOMAIN ToPlan \ (AboveOf(t) \cup {t}) : t \notin OnChains(u)
    BY DEF AboveOf
<1>11. DOMAIN e = DOMAIN ToPlan
    BY <1>4
<1> QED BY <1>1, <1>7, <1>8, <1>9, <1>10, <1>11 DEF Retimed

\* When the leaf t begins: not after its own time, and in time for the deadline
\* of every task above it; before its own time only as one of them asks for.
BeginsInTime(t) ==
    LET c == Chain(t)
        from == TimeOn(t, t)
    IN  /\ from \in Int /\ from <= Alone(t) /\ Alone(t) \in Int /\ from <= attr[t].ddl
        /\ c \in Seq(AllTasks) /\ Len(c) >= 1
        /\ \A j \in 1..Len(c) : WorkUpTo(c)[j] \in Int /\ from + WorkUpTo(c)[j] <= attr[c[j]].ddl
        /\ from < Alone(t) => \E j \in 1..Len(c) : from + WorkUpTo(c)[j] = attr[c[j]].ddl

IsLeaf(t) == t \in Leaves /\ Chain(t)[1] = t /\ Position(t, t) = 1

(* Every leaf does.                                                        *)
LEMMA LeavesBeginInTime ==
    ASSUME NEW t
    PROVE  IsProject /\ ChainTypeOK /\ IsLeaf(t) => BeginsInTime(t)
<1> SUFFICES ASSUME IsProject, ChainTypeOK, IsLeaf(t) PROVE BeginsInTime(t)
    OBVIOUS
<1> DEFINE c == Chain(t)
           f == FirstAvailable(c)
           s == WorkUpTo(c)
           n == Len(c)
<1>0. t \in Leaves /\ c[1] = t /\ Position(t, t) = 1 /\ t \in AllTasks
    BY DEF IsLeaf, Leaves, Reached
<1>1. Upward(c, t)
    BY <1>0, ChainIsUpward DEF ChainTypeOK
<1>2. c \in Seq(AllTasks) /\ n >= 1 /\ n \in Nat
    BY <1>1 DEF Upward
<1>3. /\ f \in [1..n -> Int]
      /\ \A i, j \in 1..n : i <= j => f[i] + Remaining(c[i]) <= attr[c[j]].ddl
      /\ \A i, j \in 1..n : i < j => f[i] + Remaining(c[i]) <= f[j]
      /\ \A i \in 1..n : f[i] < Alone(c[i]) =>
             \E j \in i..n : f[i] + s[j] - s[i] + Remaining(c[i]) = attr[c[j]].ddl
    BY <1>0, ChainsFit
<1>4. Never \in Int
    BY DEF IsProject
<1>5. IsRough(c, Rough(c)) /\ IsOnTime(c, Rough(c), OnTime(c)) /\ IsFirstAvailable(c, OnTime(c), f) /\ IsWorkUpTo(c, s)
    BY <1>2, <1>4, RoughIs, OnTimeIs, FirstAvailableIs, WorkUpToIs
<1>6. TimeOn(t, t) = f[1]
    BY <1>0 DEF TimeOn
<1>7. 1 \in 1..n
    BY <1>2
<1>8. \A i \in 1..n : c[i] \in AllTasks /\ Remaining(c[i]) \in Nat /\ attr[c[i]].ddl \in Int
    BY <1>2, NumbersOfTask
<1>9. Alone(t) \in Int
    BY <1>0, NumbersOfTask
<1>10. f[1] \in Int /\ f[1] <= Alone(t)
    <2> DEFINE a == OnTime(c)[1].at
    <2>1. f[1] = Smaller(a, Alone(t)) /\ a \in Int
        BY <1>0, <1>5, <1>7 DEF IsFirstAvailable, IsOnTime
    <2> HIDE DEF a, f
    <2> QED BY <1>9, <2>1 DEF Smaller
<1>11. s \in [1..n -> Int] /\ s[1] = Remaining(t)
    <2>1. s[1] = Remaining(c[1]) + 0
        BY <1>5, <1>7 DEF IsWorkUpTo
    <2> QED BY <1>0, <1>5, <1>7, <1>8, <2>1 DEF IsWorkUpTo
<1>12. ASSUME NEW j \in 1..n PROVE f[1] + s[j] <= f[j] + Remaining(c[j])
    <2> DEFINE R(i) == Remaining(c[i])
               Good == {i \in Nat : i + 1 <= n => f[1] + s[i + 1] <= f[i + 1] + R(i + 1)}
    <2>1. 0 \in Good
        <3>1. s[1] = R(1) /\ R(1) \in Int
            BY <1>0, <1>7, <1>8, <1>11
        <3> HIDE DEF R, f, s, c, n
        <3> QED BY <1>10, <3>1
    <2>2. ASSUME NEW i \in Good PROVE i + 1 \in Good
        <3> SUFFICES ASSUME (i + 1) + 1 <= n
                     PROVE  f[1] + s[(i + 1) + 1] <= f[(i + 1) + 1] + R((i + 1) + 1)
            OBVIOUS
        <3> DEFINE a == i + 1
                   b == (i + 1) + 1
        <3>1. a \in 1..n /\ b \in 1..n /\ a < b /\ b - 1 = a /\ b # 1
            BY <1>2
        <3>2. f[1] + s[a] <= f[a] + R(a)
            BY <3>1
        <3> HIDE DEF a, b
        <3>3. s[b] = R(b) + s[a]
            BY <1>5, <3>1 DEF IsWorkUpTo
        <3>4. f[a] + R(a) <= f[b]
            BY <1>3, <3>1
        <3>5. f[a] \in Int /\ f[b] \in Int /\ s[a] \in Int /\ s[b] \in Int /\ R(a) \in Nat /\ R(b) \in Nat
            BY <1>3, <1>8, <1>11, <3>1
        <3>6. f[1] + s[b] <= f[b] + R(b)
            <4> HIDE DEF R, f, s, c, n
            <4> QED BY <1>10, <3>2, <3>3, <3>4, <3>5
        <3> QED BY <3>6 DEF b
    <2>3. Good = Nat
        <3>1. Good \in SUBSET Nat
            OBVIOUS
        <3> HIDE DEF Good
        <3> QED BY <2>1, <2>2, <3>1, NaturalsByStep
    <2>4. j - 1 \in Nat
        BY <1>2
    <2>5. j - 1 \in Good
        <3> HIDE DEF Good
        <3> QED BY <2>3, <2>4
    <2> QED BY <1>2, <2>5
<1>13. ASSUME NEW j \in 1..n PROVE s[j] \in Int /\ f[1] + s[j] <= attr[c[j]].ddl
    <2>1. f[j] + Remaining(c[j]) <= attr[c[j]].ddl /\ j <= j
        BY <1>3
    <2>2. s[j] \in Int /\ f[j] \in Int /\ Remaining(c[j]) \in Nat /\ attr[c[j]].ddl \in Int
        BY <1>3, <1>8, <1>11
    <2>3. f[1] + s[j] <= f[j] + Remaining(c[j])
        BY <1>12
    <2> HIDE DEF f, s, c, n
    <2> QED BY <1>10, <2>1, <2>2, <2>3
<1>14. f[1] <= attr[t].ddl
    <2>1. f[1] + s[1] <= attr[c[1]].ddl
        BY <1>7, <1>13
    <2>2. Remaining(t) \in Nat /\ attr[t].ddl \in Int
        BY <1>0, <1>7, <1>8
    <2> HIDE DEF f, s, c, n
    <2> QED BY <1>0, <1>10, <1>11, <2>1, <2>2 DEF c
<1>15. ASSUME f[1] < Alone(t) PROVE \E j \in 1..n : f[1] + s[j] = attr[c[j]].ddl
    <2>1. PICK j \in 1..n : f[1] + s[j] - s[1] + Remaining(t) = attr[c[j]].ddl
        BY <1>0, <1>3, <1>7, <1>15
    <2>2. Remaining(t) \in Nat /\ s[j] \in Int /\ attr[c[j]].ddl \in Int
        BY <1>0, <1>7, <1>8, <1>11
    <2> HIDE DEF f, s, c, n
    <2> QED BY <1>10, <1>11, <2>1, <2>2
<1> QED BY <1>2, <1>6, <1>9, <1>10, <1>13, <1>14, <1>15 DEF BeginsInTime

(* The work along a chain is the same whatever a task waits for.           *)
LEMMA WorkStays ==
    ASSUME NEW t, NEW w, WaitsUntil(t, w), NEW l, Chain(l) \in Seq(AllTasks)
    PROVE  WorkUpTo(Chain(l))' = WorkUpTo(Chain(l))
<1>1. PICK c \in {Chain(l)} : TRUE
    OBVIOUS
<1>2. c \in Seq(AllTasks) /\ Chain(l) = c /\ Chain(l)' = c
    BY <1>1, ChainsStay
<1>3. \A i \in DOMAIN c : Remaining(c[i])' = Remaining(c[i])
    <2>1. \A i \in DOMAIN c : c[i] \in AllTasks
        BY <1>2
    <2> QED BY <2>1, ChainsStay
<1>4. WorkUpTo(c)' = WorkUpTo(c)
    <2> DEFINE P(r) == r = [i \in DOMAIN c |-> Remaining(c[i]) + IF i = 1 THEN 0 ELSE r[i - 1]]
               Q(r) == r = [i \in DOMAIN c |-> Remaining(c[i])' + IF i = 1 THEN 0 ELSE r[i - 1]]
    <2>1. ASSUME NEW r PROVE P(r) <=> Q(r)
        <3>1. \A i \in DOMAIN c : (Remaining(c[i]) + IF i = 1 THEN 0 ELSE r[i - 1])
                                  = (Remaining(c[i])' + IF i = 1 THEN 0 ELSE r[i - 1])
            BY <1>3
        <3> QED BY <3>1
    <2>2. WorkUpTo(c) = (CHOOSE r : P(r))
        BY DEF WorkUpTo
    <2>3. WorkUpTo(c)' = (CHOOSE r : Q(r))
        BY DEF WorkUpTo
    <2>4. (CHOOSE r : P(r)) = (CHOOSE r : Q(r))
        <3> HIDE DEF P, Q
        <3> QED BY <2>1
    <2> QED BY <2>2, <2>3, <2>4
<1> QED BY <1>2, <1>4

\* What packing saves for a leaf t that waits, tried from hour h on, beginning
\* at hour x then, before it did.
IsSaved(t, h, x, w) ==
    /\ WaitsUntil(t, w) /\ t \in DOMAIN ToPlan /\ ToPlan[t].rank = 0 /\ InTime(attr[t])
    /\ h \in Int /\ x \in Int /\ h >= Now /\ h >= attr[t].start /\ h <= x
    /\ h < ToPlan[t].avail
    /\ w = IF attr[t].pending THEN Smaller(x, Limit(t)) ELSE x

(* The leaf is then available between the two, and a time it waits for is  *)
(* in time for its deadline.                                               *)
LEMMA SavedIsBetween ==
    ASSUME AreDays, NEW t, NEW h, NEW x, NEW w, IsSaved(t, h, x, w), NEW e, e = ToPlan'
    PROVE  /\ h <= e[t].avail /\ e[t].avail <= x /\ e[t].avail \in Int
           /\ InTime(attr'[t])
<1>0. /\ IsProject /\ ChainTypeOK /\ WaitsUntil(t, w) /\ t \in DOMAIN ToPlan /\ ToPlan[t].rank = 0
      /\ h \in Int /\ x \in Int /\ h >= Now /\ h >= attr[t].start /\ h <= x /\ h < ToPlan[t].avail
    BY DEF AreDays, IsSaved, WaitsUntil
<1>1. /\ t \in AllTasks /\ IsLeaf(t) /\ OnChains(t) = {t}
      /\ ToPlan[t].avail = Larger(Now, TimeOn(t, t)) /\ TimeOn(t, t) \in Int /\ Now \in Int
    BY <1>0, LowestIsLeaf DEF IsLeaf
<1>2. BeginsInTime(t)
    BY <1>0, <1>1, LeavesBeginInTime
<1>3. ChainTypeOK' /\ AreDays' /\ IsProject'
    <2>1. ChainTypeOK'
        BY <1>0, OnlyWaitChanges
    <2> QED BY <1>0, <2>1 DEF AreDays, IsProject
<1> DEFINE c == Chain(t)
           s == WorkUpTo(c)
           from == TimeOn(t, t)
           until == TimeOn(t, t)'
<1>4. /\ c \in Seq(AllTasks) /\ Chain(t)' = c /\ WorkUpTo(Chain(t))' = s
    BY <1>0, <1>2, ChainsStay, WorkStays DEF BeginsInTime
<1>5. IsLeaf(t)'
    <2>1. Leaves' = Leaves /\ Position(t, t)' = Position(t, t)
        BY <1>0, ChainsStay, PlacesStay
    <2> QED BY <1>1, <1>4, <2>1 DEF IsLeaf
<1>6. BeginsInTime(t)'
    <2>1. (IsProject /\ ChainTypeOK /\ IsLeaf(t) => BeginsInTime(t))'
        BY LeavesBeginInTime, PTL
    <2> QED BY <1>3, <1>5, <2>1
<1>7. /\ attr[t].start \in Int /\ attr[t].wait \in Int /\ attr[t].pending \in BOOLEAN
      /\ attr[t].ddl \in Int /\ attr[t].est \in Nat /\ w \in Int /\ Buffer \in Nat /\ Never \in Int
    BY <1>0, <1>1 DEF AreDays, IsProject, ChainTypeOK, Attributes, WaitsUntil
<1>8. /\ \A u \in AllTasks : attr'[u].ddl = attr[u].ddl
      /\ attr'[t].start = attr[t].start /\ attr'[t].pending = attr[t].pending
      /\ attr'[t].est = attr[t].est /\ attr'[t].wait = w
    BY <1>0, <1>1, OnlyWaitChanges
<1>9. /\ from \in Int /\ from <= Alone(t) /\ from <= attr[t].ddl
      /\ \A j \in 1..Len(c) : s[j] \in Int /\ from + s[j] <= attr[c[j]].ddl
    BY <1>2 DEF BeginsInTime
<1>10. /\ until \in Int /\ until <= Alone(t)'
       /\ until < Alone(t)' => \E j \in 1..Len(c) : until + s[j] = attr'[c[j]].ddl
    BY <1>4, <1>6 DEF BeginsInTime
<1>11. \A j \in 1..Len(c) : attr'[c[j]].ddl = attr[c[j]].ddl
    BY <1>4, <1>8
<1> HIDE DEF c, s, from, until
<1>12. from > h
    BY <1>0, <1>1, <1>9 DEF Larger, from
<1>13. attr[t].pending /\ attr[t].wait > h
    BY <1>0, <1>7, <1>9, <1>12 DEF Alone, Larger
<1>14. Limit(t) \in Int /\ Limit(t) > h
    <2>1. CASE attr[t].ddl = Never
        BY <1>0, <1>7, <1>9, <1>12, <2>1 DEF Limit
    <2>2. CASE attr[t].ddl # Never
        <3>1. attr[t].wait <= attr[t].ddl - attr[t].est - Buffer
            BY <1>13, <2>2 DEF IsSaved, InTime
        <3> QED BY <1>0, <1>7, <1>13, <2>2, <3>1 DEF Limit
    <2> QED BY <2>1, <2>2
<1>15. w = Smaller(x, Limit(t)) /\ h <= w /\ w <= x /\ w <= Limit(t)
    <2>1. w = Smaller(x, Limit(t))
        BY <1>13 DEF IsSaved
    <2> QED BY <1>0, <1>14, <2>1 DEF Smaller
<1>16. Alone(t)' = w
    BY <1>0, <1>7, <1>8, <1>13, <1>15 DEF Alone, Larger
<1>17. until <= x
    BY <1>0, <1>7, <1>10, <1>15, <1>16
<1>18. h <= until
    <2>1. CASE until < w
        <3>1. PICK j \in 1..Len(c) : until + s[j] = attr'[c[j]].ddl
            BY <1>10, <1>16, <2>1
        <3>2. s[j] \in Int /\ from + s[j] <= until + s[j]
            BY <1>9, <1>11, <3>1
        <3> QED BY <1>0, <1>9, <1>10, <1>12, <3>2
    <2>2. CASE ~(until < w)
        BY <1>0, <1>7, <1>10, <1>15, <2>2
    <2> QED BY <2>1, <2>2
<1>19. e[t].avail = Larger(Now, until)
    <2> DEFINE T == {Now, until}
    <2>1. PlansChains'
        BY ToPlanIs, PTL
    <2>2. OnChains(t)' = {t}
        BY <1>0, <1>1, ChainsStay
    <2>3. t \in DOMAIN ToPlan'
        BY <1>1, <2>1, <2>2 DEF PlansChains
    <2>4. e[t].avail = Max(TimesOn(t)')
        BY <2>1, <2>3 DEF PlansChains
    <2>5. TimesOn(t)' = T
        BY <2>2 DEF TimesOn, until
    <2>6. IsFiniteSet(T)
        <3>1. IsFiniteSet({Now}) /\ IsFiniteSet({until})
            BY FS_Singleton
        <3>2. T = {Now} \cup {until}
            OBVIOUS
        <3> HIDE DEF T
        <3> QED BY <3>1, <3>2, FS_Union
    <2>7. T \subseteq Int /\ T # {}
        BY <1>1, <1>10
    <2>8. Max(T) \in T /\ \A y \in T : Max(T) >= y
        <3> HIDE DEF T
        <3> QED BY <2>6, <2>7, MaxIsGreatest
    <2> DEFINE m == Max(T)
    <2>9. m \in {Now, until} /\ m >= Now /\ m >= until
        BY <2>8
    <2> HIDE DEF m
    <2>10. m = Larger(Now, until)
        BY <1>1, <1>10, <2>9 DEF Larger
    <2> QED BY <2>4, <2>5, <2>10 DEF m
<1>20. /\ h <= e[t].avail /\ e[t].avail <= x /\ e[t].avail \in Int
    <2>1. Now <= x
        BY <1>0, <1>1
    <2> QED BY <1>0, <1>1, <1>10, <1>17, <1>18, <1>19, <2>1 DEF Larger
<1>21. InTime(attr'[t])
    <2> SUFFICES ASSUME attr'[t].ddl # Never PROVE attr'[t].wait <= attr'[t].ddl - attr'[t].est - Buffer
        BY DEF InTime
    <2>1. attr[t].ddl # Never /\ attr'[t].ddl = attr[t].ddl
        BY <1>1, <1>8
    <2>2. Limit(t) = attr[t].ddl - attr[t].est - Buffer
        BY <2>1 DEF Limit
    <2> QED BY <1>8, <1>15, <2>1, <2>2
<1> QED BY <1>20, <1>21

-----------------------------------------------------------------------------
(***************************************************************************)
(* The steps of packing                                                    *)
(***************************************************************************)
(* What is planned depends on nothing but the tree and the tasks.          *)
LEMMA SameToPlan ==
    ASSUME UNCHANGED <<up, attr>>
    PROVE  ToPlan' = ToPlan
<1>1. \A u : /\ Children(u)' = Children(u) /\ Remaining(u)' = Remaining(u) /\ Alone(u)' = Alone(u)
             /\ PlannedWork(u)' = PlannedWork(u) /\ (Open(u)' <=> Open(u))
    BY DEF Children, Remaining, Alone, PlannedWork, Open
<1>2. Reached' = Reached
    BY DEF Reached, Open
<1>3. Leaves' = Leaves
    BY <1>1, <1>2 DEF Leaves
<1>4. \A l : Chain(l)' = Chain(l)
    BY DEF Chain
<1>5. \A u : OnChains(u)' = OnChains(u)
    BY <1>3, <1>4 DEF OnChains
<1>6. \A u, l : Position(u, l)' = Position(u, l)
    BY <1>4 DEF Position
<1>7. ASSUME NEW c PROVE FirstAvailable(c)' = FirstAvailable(c)
    <2>1. Rough(c)' = Rough(c)
        BY <1>1 DEF Rough
    <2>2. OnTime(c)' = OnTime(c)
        BY <1>1, <2>1, SMTT(30) DEF OnTime
    <2> QED BY <1>1, <2>2 DEF FirstAvailable
<1>8. \A l : FirstAvailable(Chain(l))' = FirstAvailable(Chain(l))
    BY <1>4, <1>7
<1>9. CandidatesNow' = CandidatesNow
    <2> DEFINE Hours(u) == {Now} \cup {FirstAvailable(Chain(l))[Position(u, l)] : l \in OnChains(u)}
               Ranks(u) == {Position(u, l) - 1 : l \in OnChains(u)}
               Below(u) == {v \in Children(u) : OnChains(v) # {}}
               D == {u \in AllTasks : OnChains(u) # {}}
    <2>1. \A u : Hours(u)' = Hours(u) /\ Ranks(u)' = Ranks(u) /\ Below(u)' = Below(u) /\ D' = D
        BY <1>1, <1>5, <1>6, <1>8
    <2>2. CandidatesNow = [u \in D |-> [avail |-> Max(Hours(u)), work |-> PlannedWork(u),
              children |-> Below(u), ddl |-> attr[u].ddl, rank |-> Max(Ranks(u))]]
        BY DEF CandidatesNow
    <2>3. CandidatesNow' = [u \in D' |-> [avail |-> Max(Hours(u)'), work |-> PlannedWork(u)',
              children |-> Below(u)', ddl |-> attr'[u].ddl, rank |-> Max(Ranks(u)')]]
        BY DEF CandidatesNow
    <2> HIDE DEF Hours, Ranks, Below, D
    <2> QED BY <1>1, <2>1, <2>2, <2>3
<1> QED BY <1>9 DEF ToPlan

(* A task that waits for no other begins when it is available or later,    *)
(* and is worked on for no longer than its work.                           *)
LEMMA PlannedOnce ==
    ASSUME NEW c, ArePlannable(c), NEW now \in Int, NEW t \in DOMAIN c,
           c[t].children = {}, c[t].work > 0
    PROVE  /\ StartIn(PlanOf(c, now), t) >= c[t].avail
           /\ Cardinality(PlanOf(c, now)[t].hours) <= c[t].work
           /\ t \in DOMAIN PlanOf(c, now) /\ DOMAIN PlanOf(c, now) = DOMAIN c
<1>1. PICK N \in Nat, ps \in {PlansOf(c, now)} :
          AreTurns(c, now, N, ps) /\ PlanOf(c, now) = ps[N]
    <2>1. Cardinality(DOMAIN c) \in Nat
        BY PlansAreTurns
    <2>2. AreTurns(c, now, Cardinality(DOMAIN c), PlansOf(c, now))
        BY PlansAreTurns
    <2> QED BY <2>1, <2>2 DEF PlanOf
<1>1a. AreTurns(c, now, N, ps)
    BY <1>1
<1>2. PICK k \in 0..(N - 1) : HasTurn(c, now, N, ps, t, k)
    BY <1>1a, EveryTurnComes
<1>3. ps[N][t] = Planned(c, ps[k], t, now)
    BY <1>2 DEF HasTurn
<1>4. IsPlanFor(c, ps[k]) /\ DOMAIN ps[N] = DOMAIN c
    BY <1>1 DEF AreTurns
<1> DEFINE p == ps[k]
           from == Larger(c[t].avail, now)
           start == Between(p, from)
           hours == HoursFrom(p, start, c[t].work, c[t].atomic)
<1>5. from \in Int /\ c[t].work \in Nat /\ c[t].atomic \in BOOLEAN /\ Planned(c, p, t, now).hours = hours
    BY <1>4, PlannedAlone
<1>6. IsFiniteSet(Taken(p)) /\ Cardinality(Taken(p)) \in Nat
    <2>1. IsFiniteSet(DOMAIN c)
        BY DEF ArePlannable
    <2> QED BY <1>4, <2>1, TakenIsFinite
<1> HIDE DEF p, from
<1>7. start \in Int /\ start >= from
    BY <1>5, <1>6, BetweenIsLeast
<1> HIDE DEF start
<1>8. Cardinality(hours) <= c[t].work
    BY <1>5, <1>6, <1>7, HoursAreWork
<1>9. Min(hours) \in Int /\ Min(hours) >= start
    BY <1>5, <1>6, <1>7, BeginsInRoom
<1>10. hours # {}
    <2>1. c[t].work > 0 => InPieces(p, start, c[t].work) # {} /\ InOnePiece(p, start, c[t].work) # {}
        BY <1>5, <1>6, <1>7, HoursAreTimes
    <2> QED BY <2>1 DEF HoursFrom
<1>11. PlanOf(c, now)[t].hours = hours
    BY <1>1, <1>3, <1>5 DEF p
<1>12. c[t].avail \in Int
    BY DEF ArePlannable, Candidate
<1>13. from >= c[t].avail
    BY <1>12 DEF Larger, from
<1> HIDE DEF hours
<1>14. StartIn(PlanOf(c, now), t) = Min(hours)
    BY <1>10, <1>11 DEF StartIn
<1> QED BY <1>1, <1>4, <1>5, <1>7, <1>8, <1>9, <1>11, <1>12, <1>13, <1>14

(* What packing looks at next is one of the tasks it has not looked at.    *)
LEMMA NextIsQueued ==
    ASSUME AreDays, DOMAIN queue \subseteq AllTasks, DOMAIN queue # {},
           \A t \in DOMAIN queue : queue[t] \in Int
    PROVE  NextToPack \in DOMAIN queue
<1> DEFINE S == DOMAIN queue
           KeyOf(t) == <<-Priority[t], queue[t], t>>
           IsFirst(t) == t \in S /\ \A u \in S \ {t} : Earlier(KeyOf(t), KeyOf(u))
           k == [t \in S |-> -Priority[t]]
           l == [t \in S |-> queue[t]]
           z == [t \in S |-> 0]
<1>1. IsProject /\ \A t \in AllTasks : Priority[t] \in Int
    BY DEF AreDays
<1>2. IsFiniteSet(S) /\ S \subseteq Int
    BY <1>1, TasksAreFinite
<1>3. k \in [S -> Int] /\ l \in [S -> Int] /\ z \in [S -> Int]
    BY <1>1
<1>4. PICK t \in S : \A u \in S \ {t} : Precedes(k, l, z, z, t, u)
    <2> HIDE DEF k, l, z, S
    <2>1. ToOrder(S, k, l, z, z)
        BY <1>2, <1>3 DEF ToOrder, S
    <2> QED BY <2>1, LeastInOrder
<1>5. ASSUME NEW u \in S \ {t} PROVE Earlier(KeyOf(t), KeyOf(u))
    <2> DEFINE a == KeyOf(t)
               b == KeyOf(u)
    <2>1. a = <<k[t], l[t], t>> /\ b = <<k[u], l[u], u>> /\ z[t] = z[u] /\ z[t] \in Int
        OBVIOUS
    <2>2. Len(a) = 3
        BY <2>1
    <2>3. t \in S /\ u \in S /\ k[t] \in Int /\ k[u] \in Int /\ l[t] \in Int /\ l[u] \in Int
        BY <1>3
    <2>4. Precedes(k, l, z, z, t, u)
        BY <1>4
    <2> HIDE DEF a, b, k, l, z, KeyOf
    <2>5. \/ k[t] < k[u]
          \/ k[t] = k[u] /\ l[t] < l[u]
          \/ k[t] = k[u] /\ l[t] = l[u] /\ t < u
        BY <2>1, <2>4 DEF Precedes
    <2>6. \E i \in 1..3 : a[i] < b[i] /\ \A j \in 1..(i - 1) : a[j] = b[j]
        <3>1. a[1] = k[t] /\ b[1] = k[u] /\ a[2] = l[t] /\ b[2] = l[u] /\ a[3] = t /\ b[3] = u
            BY <2>1
        <3>2. CASE k[t] < k[u]
            <4> WITNESS 1 \in 1..3
            <4> QED BY <3>1, <3>2
        <3>3. CASE k[t] = k[u] /\ l[t] < l[u]
            <4> WITNESS 2 \in 1..3
            <4>1. \A j \in 1..(2 - 1) : j = 1
                OBVIOUS
            <4> QED BY <3>1, <3>3, <4>1
        <3>4. CASE k[t] = k[u] /\ l[t] = l[u] /\ t < u
            <4> WITNESS 3 \in 1..3
            <4>1. \A j \in 1..(3 - 1) : j = 1 \/ j = 2
                OBVIOUS
            <4> QED BY <3>1, <3>4, <4>1
        <3> QED BY <2>5, <3>2, <3>3, <3>4
    <2> QED BY <2>2, <2>6 DEF Earlier, a, b
<1>6. IsFirst(t)
    BY <1>5
<1>7. NextToPack = CHOOSE v : IsFirst(v)
    BY DEF NextToPack, First
<1>8. IsFirst(CHOOSE v : IsFirst(v))
    <2> HIDE DEF IsFirst
    <2> QED BY <1>6
<1> QED BY <1>7, <1>8

\* A trial of task t from hour h on that began at hour x of day d, of the
\* candidates planned last, and what it came to for those to plan now.
IsTrial(t, d, h, x, above) ==
    /\ IsPlace(t, d, h, x) /\ h >= StartOf(d) /\ h >= Now
    /\ Retimed(Tried(t, h), ToPlan, t, above)
    /\ h <= ToPlan[t].avail /\ ToPlan[t].avail <= x

\* What is so between saving a task that is packed and planning again.
JustPacked(t, d) ==
    /\ ArePlannable(drawn) /\ DOMAIN drawn \subseteq AllTasks /\ before = PlanOf(drawn, Now)
    /\ t \in DOMAIN drawn /\ d \in Int /\ drawn[t].work > 0 /\ drawn[t].children = {}
    /\ HasLeeway(before, d, drawn[t].work)
    /\ \E h \in Int, x \in Int : \E above \in SUBSET AllTasks : IsTrial(t, d, h, x, above)

\* What packing promises of the next plan.
StaysIn(e, q, t, d) ==
    \/ OnDay(q, t, d)
    \/ \E u \in DOMAIN q \ {t} :
          /\ e[u].ddl = e[t].ddl /\ e[u].prio = e[t].prio
          /\ StartOf(d) <= e[u].avail /\ e[u].avail <= e[t].avail
KeepsTarget(q, t, d) ==
    (\A u \in AllTasks \ {t} : WorkIn(q, d, {u}) <= WorkIn(before, d, {u}))
        => 10 * WorkIn(q, d, AllTasks \ Routine) <= 7 * (Capacity(d) - WorkIn(q, d, Routine))

(* It holds when the tasks are planned again.                              *)
LEMMA PackedComesBack ==
    ASSUME AreDays, ChainTypeOK, NEW t, NEW d, JustPacked(t, d),
           NEW e, e = ToPlan, NEW q, q = PlanOf(e, Now)
    PROVE  StaysIn(e, q, t, d) /\ KeepsTarget(q, t, d)
<1>0. /\ ArePlannable(drawn) /\ DOMAIN drawn \subseteq AllTasks /\ before = PlanOf(drawn, Now)
      /\ t \in DOMAIN drawn /\ d \in Int /\ drawn[t].work > 0 /\ drawn[t].children = {}
      /\ HasLeeway(before, d, drawn[t].work) /\ Now \in Int
    BY DEF JustPacked, AreDays, IsProject
<1>1. PICK h \in Int, x \in Int : \E above \in SUBSET AllTasks : IsTrial(t, d, h, x, above)
    BY DEF JustPacked
<1>2. PICK above \in SUBSET AllTasks : IsTrial(t, d, h, x, above)
    BY <1>1
<1>3. PICK c \in {Tried(t, h)} : TRUE
    OBVIOUS
<1>4. /\ IsPlace(t, d, h, x) /\ h >= StartOf(d) /\ h >= Now /\ Retimed(c, e, t, above)
      /\ h <= e[t].avail /\ e[t].avail <= x
    BY <1>2, <1>3 DEF IsTrial
<1>5. /\ ArePlannable(c) /\ DOMAIN c = DOMAIN drawn /\ c[t].avail = h
      /\ \A u \in DOMAIN drawn : c[u].work = drawn[u].work /\ c[u].children = drawn[u].children
    BY <1>0, <1>3, <1>4, TriedIsPlanned
<1>6. ArePlannable(e)
    BY ToPlanIsPlannable
<1>7. DOMAIN e = DOMAIN drawn /\ e[t].work = drawn[t].work /\ e[t].children = {} /\ e[t].work > 0
    BY <1>0, <1>4, <1>5 DEF Retimed
<1>8. IsTried(c, e, t, above, Now)
    BY <1>0, <1>4, <1>5, <1>6 DEF IsTried
<1>9. x = StartIn(PlanOf(c, Now), t) /\ OnDay(PlanOf(c, Now), t, d)
    BY <1>3, <1>4 DEF IsPlace, Fits
<1>10. t \in DOMAIN q /\ DOMAIN q = DOMAIN drawn /\ Cardinality(q[t].hours) <= drawn[t].work
    BY <1>0, <1>6, <1>7, PlannedOnce
<1>11. StaysIn(e, q, t, d)
    <2> SUFFICES ASSUME \A u \in DOMAIN q \ {t} :
                           ~(/\ e[u].ddl = e[t].ddl /\ e[u].prio = e[t].prio
                             /\ StartOf(d) <= e[u].avail /\ e[u].avail <= e[t].avail)
                 PROVE  OnDay(q, t, d)
        BY DEF StaysIn
    <2> DEFINE from == StartOf(d)
    <2>1. from \in Int /\ from <= c[t].avail /\ Now <= c[t].avail
        BY <1>0, <1>4, <1>5 DEF AreDays, StartOf
    <2>2. e[t].avail <= StartIn(PlanOf(c, Now), t)
        BY <1>4, <1>9
    <2>3. \A u \in DOMAIN e \ {t} :
            ~(/\ e[u].ddl = e[t].ddl /\ e[u].prio = e[t].prio
              /\ from <= e[u].avail /\ e[u].avail <= e[t].avail)
        BY <1>7, <1>10
    <2> HIDE DEF from
    <2>4. PlanOf(e, Now)[t].hours = PlanOf(c, Now)[t].hours
        BY <1>8, <2>1, <2>2, <2>3, TrialHolds
    <2> QED BY <1>9, <2>4 DEF OnDay
<1>12. KeepsTarget(q, t, d)
    <2> SUFFICES ASSUME \A u \in AllTasks \ {t} : WorkIn(q, d, {u}) <= WorkIn(before, d, {u})
                 PROVE  10 * WorkIn(q, d, AllTasks \ Routine) <= 7 * (Capacity(d) - WorkIn(q, d, Routine))
        BY DEF KeepsTarget
    <2> DEFINE work == drawn[t].work
    <2>1. work \in Nat /\ work > 0
        BY <1>0 DEF ArePlannable, Candidate
    <2>2. IsPlanFor(drawn, before) /\ IsPlanFor(e, q)
        BY <1>0, <1>6, PlanOfIsPlan
    <2>3. DOMAIN before = DOMAIN drawn
        BY <1>0, PlannedOnce
    <2>4. IsFiniteSet(DOMAIN before)
        BY <1>0, <2>3 DEF ArePlannable
    <2> HIDE DEF work
    <2>5. WorkIn(q, d, {t}) <= work
        <3>1. WorkIn(q, d, {t}) = WorkOn(q, d)[t]
            BY <1>10, <2>2, WorkOfOne
        <3>2. /\ WorkOn(q, d)[t] \in Int /\ WorkOn(q, d)[t] <= Cardinality(q[t].hours)
            BY <1>10, <2>2, WorkIsLittle
        <3>3. Cardinality(q[t].hours) \in Nat
            BY <1>10, <2>2, FS_CardinalityType DEF IsPlanFor
        <3> QED BY <1>10, <2>1, <3>1, <3>2, <3>3 DEF work
    <2>6. OnlyThisGrows(drawn, before, e, q, d, t, work)
        BY <1>0, <1>10, <2>1, <2>2, <2>3, <2>4, <2>5 DEF OnlyThisGrows
    <2>7. HasLeeway(before, d, work) /\ t \in AllTasks
        BY <1>0 DEF work
    <2> QED BY <1>0, <2>1, <2>6, <2>7, TargetIsKept
<1> QED BY <1>11, <1>12

\* Packing saves that the leaf t waits until w, to begin at hour x of day d.
Saves(t, d, x, w) ==
    /\ ChainTypeOK /\ drawn = ToPlan /\ plan = PlanOf(drawn, Now) /\ InTime(attr[t])
    /\ t \in DOMAIN drawn /\ drawn[t].rank = 0 /\ drawn[t].work > 0
    /\ d \in Int /\ Leeway(d) >= drawn[t].work /\ x \in Placement(t, d) /\ x < StartIn(plan, t)
    /\ attr' = [attr EXCEPT ![t].wait = w] /\ up' = up /\ drawn' = drawn /\ before' = plan
    /\ w = IF attr[t].pending THEN Smaller(x, Limit(t)) ELSE x

(* Then only that time changes, it is in time, and the trial still stands. *)
LEMMA SavingIsSound ==
    ASSUME AreDays, NEW t, NEW d, NEW x, NEW w, Saves(t, d, x, w)
    PROVE  WaitsUntil(t, w) /\ InTime(attr'[t]) /\ JustPacked(t, d)'
<1>0. /\ ChainTypeOK /\ drawn = ToPlan /\ plan = PlanOf(drawn, Now) /\ IsProject /\ Now \in Int
      /\ t \in DOMAIN drawn /\ drawn[t].rank = 0 /\ drawn[t].work > 0
      /\ d \in Int /\ Leeway(d) >= drawn[t].work /\ x \in Placement(t, d) /\ x < StartIn(plan, t)
      /\ attr' = [attr EXCEPT ![t].wait = w] /\ up' = up /\ drawn' = drawn /\ before' = plan
      /\ w = IF attr[t].pending THEN Smaller(x, Limit(t)) ELSE x
    BY DEF Saves, AreDays, IsProject
<1>1. ArePlannable(drawn) /\ DOMAIN drawn \subseteq AllTasks /\ t \in AllTasks
    BY <1>0, ToPlanIsPlannable
<1>2. /\ drawn[t].children = {} /\ drawn[t].work \in Nat /\ drawn[t].avail \in Int
    <2>1. ToPlan[t].children = {}
        BY <1>0, LowestIsLeaf
    <2> QED BY <1>0, <1>1, <2>1 DEF ArePlannable, Candidate
<1>3. attr[t].start \in Int /\ Limit(t) \in Int
    <2>1. /\ attr[t].start \in Int /\ attr[t].ddl \in Int /\ attr[t].est \in Nat /\ Buffer \in Nat
          /\ Never \in Int
        BY <1>0, <1>1 DEF ChainTypeOK, Attributes, AreDays, IsProject
    <2> QED BY <2>1 DEF Limit
<1>4. PICK h \in Int : IsPlace(t, d, h, x) /\ h >= StartOf(d) /\ h >= attr[t].start /\ h >= Now
    BY <1>0, <1>1, <1>3, PlacementIs
<1>5. PICK c \in {Tried(t, h)} : TRUE
    OBVIOUS
<1>6. /\ ArePlannable(c) /\ DOMAIN c = DOMAIN drawn /\ c[t].avail = h
      /\ \A u \in DOMAIN drawn \ {t} : c[u] = drawn[u]
      /\ \A u \in DOMAIN drawn :
            /\ c[u].work = drawn[u].work /\ c[u].children = drawn[u].children
            /\ c[u].ddl = drawn[u].ddl /\ c[u].rank = drawn[u].rank
            /\ c[u].prio = drawn[u].prio /\ c[u].atomic = drawn[u].atomic
    BY <1>0, <1>1, <1>4, <1>5, TriedIsPlanned
<1>7. x = StartIn(PlanOf(c, Now), t) /\ x \in Int /\ h <= x
    <2>1. x = StartIn(PlanOf(c, Now), t)
        BY <1>4, <1>5 DEF IsPlace
    <2>2. c[t].children = {} /\ c[t].work > 0 /\ t \in DOMAIN c
        BY <1>0, <1>2, <1>6
    <2>3. StartIn(PlanOf(c, Now), t) >= c[t].avail /\ t \in DOMAIN PlanOf(c, Now)
        BY <1>0, <1>6, <2>2, PlannedOnce
    <2>4. StartIn(PlanOf(c, Now), t) \in Int
        BY <1>0, <1>6, <2>3, PlanOfIsPlan, BeginningIsTime
    <2> QED BY <1>6, <2>1, <2>3, <2>4
<1>8. h < drawn[t].avail
    <2> SUFFICES ASSUME drawn[t].avail <= h PROVE FALSE
        BY <1>2
    <2>1. Retimed(drawn, c, t, {})
        BY <1>0, <1>2, <1>6 DEF Retimed
    <2>2. IsTried(drawn, c, t, {}, Now)
        BY <1>0, <1>1, <1>6, <2>1 DEF IsTried
    <2>3. StartIn(PlanOf(drawn, Now), t) <= x
        BY <1>7, <2>2, LaterBeginsLater
    <2>4. StartIn(PlanOf(drawn, Now), t) \in Int
        BY <1>0, <1>1, <1>2, PlannedOnce, PlanOfIsPlan, BeginningIsTime
    <2> QED BY <1>0, <1>7, <2>3, <2>4
<1>9. w \in Int
    BY <1>0, <1>3, <1>7 DEF Smaller
<1>10. WaitsUntil(t, w)
    BY <1>0, <1>1, <1>9 DEF WaitsUntil
<1>11. IsSaved(t, h, x, w)
    BY <1>0, <1>4, <1>7, <1>8, <1>10 DEF IsSaved, Saves
<1>12. PICK e \in {ToPlan'} : TRUE
    OBVIOUS
<1>13. /\ h <= e[t].avail /\ e[t].avail <= x /\ InTime(attr'[t])
    BY <1>11, <1>12, SavedIsBetween
<1>14. PICK above \in {AboveOf(t)} : TRUE
    OBVIOUS
<1>15. Retimed(drawn, e, t, above)
    BY <1>0, <1>10, <1>12, <1>14, OnlyTimesChange
<1>16. Retimed(c, e, t, above)
    BY <1>6, <1>15 DEF Retimed
<1>17. above \in SUBSET AllTasks
    BY <1>1, <1>15 DEF Retimed
<1>18. HasLeeway(plan, d, drawn[t].work)
    <2>1. IsPlanFor(drawn, plan) /\ DOMAIN plan = DOMAIN drawn /\ IsFiniteSet(DOMAIN plan)
        BY <1>0, <1>1, <1>2, PlanOfIsPlan, PlannedOnce DEF ArePlannable
    <2> QED BY <1>0, <1>2, <2>1, LeewayIs
<1>19. Tried(t, h)' = c
    BY <1>0, <1>5 DEF Tried
<1>20. IsPlace(t, d, h, x)'
    <2>1. h <= EndOf(d) /\ Fits(PlanOf(c, Now), t, d) /\ x = StartIn(PlanOf(c, Now), t)
        BY <1>4, <1>5 DEF IsPlace
    <2>2. Fits(PlanOf(c, Now), t, d)'
        BY <1>0, <2>1 DEF Fits
    <2> QED BY <1>19, <2>1, <2>2 DEF IsPlace
<1>21. IsTrial(t, d, h, x, above)'
    BY <1>4, <1>12, <1>13, <1>16, <1>19, <1>20 DEF IsTrial
<1>22. JustPacked(t, d)'
    <2>1. ArePlannable(drawn') /\ DOMAIN drawn' \subseteq AllTasks /\ before' = PlanOf(drawn', Now)
        BY <1>0, <1>1
    <2>2. t \in DOMAIN drawn' /\ d \in Int /\ drawn'[t].work > 0 /\ drawn'[t].children = {}
        BY <1>0, <1>2
    <2>3. \E k \in Int, y \in Int : \E a \in SUBSET AllTasks : IsTrial(t, d, k, y, a)'
        BY <1>7, <1>17, <1>21
    <2>4. HasLeeway(before', d, drawn'[t].work)
        BY <1>0, <1>18
    <2> QED BY <2>1, <2>2, <2>3, <2>4 DEF JustPacked
<1> QED BY <1>10, <1>13, <1>22

\* A task packing may still look at: a leaf with work.
IsQueued(u) == u \in DOMAIN ToPlan /\ ToPlan[u].rank = 0 /\ ToPlan[u].work > 0 /\ queue[u] \in Int

\* Before and while packing, every time a task waits for is in time and the
\* plan is that of the tasks unless one was saved; what was saved last stays
\* where packing tried it in the next plan.
PackInv ==
    /\ job \in {"idle", "pack"} =>
          /\ ChainTypeOK /\ \A u \in AllTasks : InTime(attr[u])
          /\ fresh => drawn = ToPlan /\ plan = PlanOf(drawn, Now)
    /\ job = "pack" => \A u \in DOMAIN queue : IsQueued(u)
    /\ job # "pack" => packed = NoTask
    /\ packed # NoTask =>
          IF fresh THEN PackedStays /\ PacksToTarget ELSE JustPacked(packed.task, packed.day)

(* The day a task goes to is one that takes it.                            *)
LEMMA PlaceIsFound ==
    ASSUME AreDays, NEW t, NEW good, good \subseteq Places(t), good # {}
    PROVE  LET place == CHOOSE p \in good : \A q \in good : p.day <= q.day
           IN  /\ place \in good /\ place.day \in Int /\ place.at \in Placement(t, place.day)
               /\ Leeway(place.day) >= drawn[t].work
<1> DEFINE IsNearest(p) == p \in good /\ \A q \in good : p.day <= q.day
           place == CHOOSE p \in good : \A q \in good : p.day <= q.day
           dates == {p.day : p \in good}
<1>1. ASSUME NEW p \in good
      PROVE  p.day \in Targets /\ p.at \in Placement(t, p.day) /\ Leeway(p.day) >= drawn[t].work
    <2>1. p \in Places(t)
        OBVIOUS
    <2>2. PICK d \in Targets : /\ Leeway(d) >= drawn[t].work
                               /\ p \in {[day |-> d, at |-> h] : h \in Placement(t, d)}
        BY <2>1 DEF Places
    <2> QED BY <2>2
<1>2. Today \in Int /\ PackDays \in Nat /\ Targets = Today..(Today + PackDays - 1)
    BY DEF AreDays, IsProject, Today, DayOf, Targets
<1>3. Targets \subseteq Int /\ IsFiniteSet(Targets)
    BY <1>2, FS_Interval
<1>4. dates \subseteq Targets /\ dates # {}
    BY <1>1
<1>5. IsFiniteSet(dates)
    BY <1>3, <1>4, FS_Subset
<1>6. PICK d \in dates : \A e \in dates : d <= e
    <2> HIDE DEF dates
    <2> QED BY <1>3, <1>4, <1>5, LeastOfFinite
<1>7. PICK p \in good : p.day = d
    BY <1>6
<1>8. IsNearest(p)
    BY <1>6, <1>7
<1>9. place = CHOOSE q : IsNearest(q)
    OBVIOUS
<1>10. IsNearest(CHOOSE q : IsNearest(q))
    <2> HIDE DEF IsNearest
    <2> QED BY <1>8
<1>11. place \in good
    BY <1>9, <1>10
<1> HIDE DEF place
<1>12. place.day \in Int
    BY <1>1, <1>3, <1>11
<1> QED BY <1>1, <1>11, <1>12 DEF place

(* What one task waits for changes nothing of what is queued.              *)
LEMMA QueueStays ==
    ASSUME AreDays, NEW t, NEW w, WaitsUntil(t, w), t \in DOMAIN ToPlan, ToPlan[t].rank = 0,
           NEW u, IsQueued(u), u # t, queue' = [v \in DOMAIN queue \ {t} |-> queue[v]], u \in DOMAIN queue
    PROVE  IsQueued(u)'
<1>1. PICK e \in {ToPlan'} : TRUE
    OBVIOUS
<1>2. Retimed(ToPlan, e, t, AboveOf(t))
    BY <1>1, OnlyTimesChange
<1>3. u \in DOMAIN e /\ e[u].rank = ToPlan[u].rank /\ e[u].work = ToPlan[u].work
    BY <1>2 DEF Retimed, IsQueued
<1>4. queue'[u] = queue[u]
    OBVIOUS
<1> QED BY <1>1, <1>3, <1>4 DEF IsQueued

(* A step of packing saves what holds until the tasks are planned again.   *)
LEMMA PackingStepIsSound ==
    ASSUME AreDays, PackInv, PackNext
    PROVE  PackInv'
<1> DEFINE t == NextToPack
           good == {p \in Places(t) : p.at < StartIn(plan, t)}
           place == CHOOSE p \in good : \A q \in good : p.day <= q.day
<1>1. /\ job = "pack" /\ fresh /\ DOMAIN queue # {}
      /\ IF good = {} THEN packed' = NoTask /\ UNCHANGED attr
         ELSE /\ attr' = [attr EXCEPT ![t].wait =
                              IF attr[t].pending THEN Smaller(place.at, Limit(t)) ELSE place.at]
              /\ packed' = [task |-> t, day |-> place.day]
      /\ before' = plan /\ fresh' = FALSE
      /\ queue' = [u \in DOMAIN queue \ {t} |-> queue[u]]
      /\ UNCHANGED <<up, drawn, plan, job, over, blocked>>
    BY DEF PackNext
<1>2. /\ ChainTypeOK /\ \A u \in AllTasks : InTime(attr[u])
      /\ drawn = ToPlan /\ plan = PlanOf(drawn, Now)
      /\ \A u \in DOMAIN queue : IsQueued(u)
    BY <1>1 DEF PackInv
<1>3. DOMAIN ToPlan \subseteq AllTasks
    BY <1>2, ToPlanIsPlannable
<1>4. t \in DOMAIN queue
    BY <1>1, <1>2, <1>3, NextIsQueued DEF IsQueued
<1>5. t \in AllTasks /\ t \in DOMAIN drawn /\ drawn[t].rank = 0 /\ drawn[t].work > 0
    BY <1>2, <1>3, <1>4 DEF IsQueued
<1> HIDE DEF t
<1>6. CASE good = {}
    <2>1. packed' = NoTask /\ UNCHANGED <<up, attr>>
        BY <1>1, <1>6
    <2>2. ToPlan' = ToPlan
        BY <2>1, SameToPlan
    <2>3. ChainTypeOK' /\ \A u \in AllTasks : InTime(attr'[u])
        BY <1>2, <2>1 DEF ChainTypeOK
    <2>4. ASSUME NEW u \in DOMAIN queue' PROVE IsQueued(u)'
        <3>1. IsQueued(u) /\ queue'[u] = queue[u]
            BY <1>1, <1>2, <2>4
        <3> QED BY <2>2, <3>1 DEF IsQueued
    <2> QED BY <1>1, <2>1, <2>3, <2>4 DEF PackInv
<1>7. CASE good # {}
    <2>1. good \subseteq Places(t)
        OBVIOUS
    <2>2. /\ place \in good /\ place.day \in Int /\ place.at \in Placement(t, place.day)
          /\ Leeway(place.day) >= drawn[t].work
        <3> HIDE DEF good
        <3> QED BY <1>7, <2>1, PlaceIsFound
    <2>3. place.at < StartIn(plan, t)
        <3> HIDE DEF place
        <3> QED BY <2>2
    <2>4. /\ attr' = [attr EXCEPT ![t].wait =
                          IF attr[t].pending THEN Smaller(place.at, Limit(t)) ELSE place.at]
          /\ packed' = [task |-> t, day |-> place.day]
        BY <1>1, <1>7
    <2> HIDE DEF good, place
    <2>5. PICK r \in {t}, d \in {place.day}, x \in {place.at},
               w \in {IF attr[t].pending THEN Smaller(place.at, Limit(t)) ELSE place.at} : TRUE
        OBVIOUS
    <2>6. Saves(r, d, x, w)
        BY <1>1, <1>2, <1>5, <2>2, <2>3, <2>4, <2>5 DEF Saves
    <2>7. WaitsUntil(r, w) /\ InTime(attr'[r]) /\ JustPacked(r, d)'
        BY <2>6, SavingIsSound
    <2>8. ChainTypeOK'
        BY <2>7, OnlyWaitChanges
    <2>9. ASSUME NEW u \in AllTasks PROVE InTime(attr'[u])
        <3>1. CASE u = r
            BY <2>7, <3>1
        <3>2. CASE u # r
            <4>1. attr'[u] = attr[u]
                BY <1>2, <2>4, <2>5, <3>2 DEF ChainTypeOK, Attributes
            <4> QED BY <1>2, <4>1
        <3> QED BY <3>1, <3>2
    <2>10. ASSUME NEW u \in DOMAIN queue' PROVE IsQueued(u)'
        <3>1. /\ IsQueued(u) /\ u \in DOMAIN queue /\ u # r
              /\ queue' = [v \in DOMAIN queue \ {r} |-> queue[v]]
              /\ r \in DOMAIN ToPlan /\ ToPlan[r].rank = 0
            BY <1>1, <1>2, <1>5, <2>5, <2>10
        <3> QED BY <2>7, <3>1, QueueStays
    <2>11. packed'.task = r /\ packed'.day = d
        BY <2>4, <2>5
    <2>12. JustPacked(packed.task, packed.day)'
        BY <2>7, <2>11
    <2> QED BY <1>1, <2>8, <2>9, <2>10, <2>12 DEF PackInv
<1> QED BY <1>6, <1>7

(* Planning again is what packing has promised.                            *)
LEMMA PlanningStepIsSound ==
    ASSUME AreDays, PackInv, GetSchedule
    PROVE  PackInv'
<1>1. /\ ~fresh /\ fresh' /\ drawn' = ToPlan /\ plan' = PlanOf(ToPlan, Now)
      /\ UNCHANGED <<up, attr, job, over, blocked, queue, before, packed>>
    BY DEF GetSchedule
<1>2. ToPlan' = ToPlan
    BY <1>1, SameToPlan
<1>3. job' \in {"idle", "pack"} =>
          /\ ChainTypeOK' /\ \A u \in AllTasks : InTime(attr'[u])
          /\ drawn' = ToPlan' /\ plan' = PlanOf(drawn', Now)
    BY <1>1, <1>2 DEF PackInv, ChainTypeOK
<1>4. job' = "pack" => \A u \in DOMAIN queue' : IsQueued(u)'
    BY <1>1, <1>2 DEF PackInv, IsQueued
<1>5. job' # "pack" => packed' = NoTask
    BY <1>1 DEF PackInv
<1>6. ASSUME packed' # NoTask PROVE PackedStays' /\ PacksToTarget'
    <2>1. PICK t \in {packed.task}, d \in {packed.day}, e \in {ToPlan}, q \in {PlanOf(ToPlan, Now)} : TRUE
        OBVIOUS
    <2>2. JustPacked(t, d) /\ ChainTypeOK
        BY <1>1, <1>6, <2>1 DEF PackInv
    <2>3. StaysIn(e, q, t, d) /\ KeepsTarget(q, t, d)
        BY <2>1, <2>2, PackedComesBack
    <2>4. drawn' = e /\ plan' = q /\ packed'.task = t /\ packed'.day = d /\ before' = before
        BY <1>1, <2>1
    <2>5. PackedStays'
        BY <2>3, <2>4 DEF PackedStays, StaysIn
    <2>6. PacksToTarget'
        BY <2>3, <2>4 DEF PacksToTarget, BringsNothingElse, KeepsTarget, WithinTarget, Work, Capacity
    <2> QED BY <2>5, <2>6
<1> QED BY <1>1, <1>3, <1>4, <1>5, <1>6 DEF PackInv

(* No step of planning, flattening or packing breaks the promise.          *)
LEMMA StepsPack ==
    ASSUME AreDays, PackInv, [PlanNext]_planVars
    PROVE  PackInv'
<1>1. CASE GetSchedule
    BY <1>1, PlanningStepIsSound
<1>2. CASE PackNext
    BY <1>2, PackingStepIsSound
<1>3. CASE StartPack
    <2>1. /\ job = "idle" /\ fresh /\ job' = "pack" /\ queue' = PackQueue
          /\ UNCHANGED <<up, attr, drawn, plan, fresh, over, blocked, before, packed>>
        BY <1>3 DEF StartPack
    <2>2. /\ ChainTypeOK /\ \A u \in AllTasks : InTime(attr[u])
          /\ drawn = ToPlan /\ plan = PlanOf(drawn, Now) /\ packed = NoTask
        BY <2>1 DEF PackInv
    <2>3. ToPlan' = ToPlan
        BY <2>1, SameToPlan
    <2>4. ASSUME NEW u \in DOMAIN queue' PROVE IsQueued(u)'
        <3>1. u \in Packable /\ queue'[u] = StartIn(plan, u)
            BY <2>1, <2>4 DEF PackQueue
        <3>2. u \in DOMAIN drawn /\ drawn[u].rank = 0 /\ drawn[u].work > 0
            BY <3>1 DEF Packable
        <3>3. ArePlannable(drawn) /\ Now \in Int /\ drawn[u].children = {}
            BY <2>2, <3>2, ToPlanIsPlannable, LowestIsLeaf DEF AreDays, IsProject
        <3>4. StartIn(plan, u) \in Int
            BY <2>2, <3>2, <3>3, PlannedOnce, PlanOfIsPlan, BeginningIsTime
        <3> QED BY <2>2, <2>3, <3>1, <3>2, <3>4 DEF IsQueued
    <2>5. ChainTypeOK' /\ \A u \in AllTasks : InTime(attr'[u])
        BY <2>1, <2>2 DEF ChainTypeOK
    <2> QED BY <2>1, <2>2, <2>3, <2>4, <2>5 DEF PackInv
<1>4. CASE StartFlatten \/ FlattenTurn \/ SaveFlattened
    <2>1. job # "pack" /\ job' \in {"flatten", "flattened"} /\ packed' = packed
        BY <1>4 DEF StartFlatten, FlattenTurn, SaveFlattened
    <2>2. packed' = NoTask
        BY <2>1 DEF PackInv
    <2> QED BY <2>1, <2>2 DEF PackInv
<1>5. CASE UNCHANGED planVars
    <2>1. UNCHANGED <<up, attr, drawn, plan, fresh, job, queue, before, packed>>
        BY <1>5 DEF planVars
    <2>2. ToPlan' = ToPlan
        BY <2>1, SameToPlan
    <2>3. PackedStays' = PackedStays /\ PacksToTarget' = PacksToTarget
        BY <2>1 DEF PackedStays, PacksToTarget, BringsNothingElse, WithinTarget, Work, Capacity
    <2>4. \A t, d : JustPacked(t, d)' = JustPacked(t, d)
        <3>1. \A t, h : Tried(t, h)' = Tried(t, h)
            BY <2>1 DEF Tried
        <3>2. \A t, d, h, x : IsPlace(t, d, h, x)' = IsPlace(t, d, h, x)
            BY <2>1, <3>1 DEF IsPlace, Fits
        <3>3. \A t, d, h, x, above : IsTrial(t, d, h, x, above)' = IsTrial(t, d, h, x, above)
            BY <2>2, <3>1, <3>2 DEF IsTrial
        <3> QED BY <2>1, <3>3 DEF JustPacked
    <2>5. \A u : IsQueued(u)' = IsQueued(u)
        BY <2>1, <2>2 DEF IsQueued
    <2>6. ChainTypeOK' = ChainTypeOK
        BY <2>1 DEF ChainTypeOK
    <2> QED BY <2>1, <2>2, <2>3, <2>4, <2>5, <2>6 DEF PackInv
<1> QED BY <1>1, <1>2, <1>3, <1>4, <1>5 DEF PlanNext

(* To begin with nothing is packed.                                        *)
LEMMA PackingBegins ==
    ASSUME AreDays, PlanInit
    PROVE  PackInv
BY DEF PlanInit, PackInv, ChainTypeOK, AreDays

(* Packing: a task that is packed is on the day packing chose for it in    *)
(* the plan made from what was saved, but for another task of the same     *)
(* deadline and priority that is available on that day by then; and the    *)
(* day is not filled beyond its target load, as long as no work of another *)
(* task comes to it.                                                       *)
THEOREM PackingIsSound == AreDays => (PlanSpec => [](PackedStays /\ PacksToTarget))
<1> SUFFICES ASSUME AreDays PROVE PlanSpec => [](PackedStays /\ PacksToTarget)
    OBVIOUS
<1>1. PlanInit => PackInv
    BY PackingBegins
<1>2. PackInv /\ [PlanNext]_planVars => PackInv'
    BY StepsPack
<1>3. PackInv => PackedStays /\ PacksToTarget
    BY DEF PackInv, PackedStays, PacksToTarget
<1> QED BY <1>1, <1>2, <1>3, PTL DEF PlanSpec
=============================================================================
