-------------------------------- MODULE WorkPlan -------------------------------
(***************************************************************************)
(* What a schedule promises, as README.md puts it under the times shown    *)
(* for planned work: one task after the other gets all its work in time    *)
(* that is free, not before it can be started nor before what it depends   *)
(* on is finished, and what was planned stays where it is.                 *)
(***************************************************************************)
EXTENDS Integers, FiniteSetsExt

CONSTANTS Now, Shortest   \* nothing is planned before, no piece is as short

VARIABLES
    tasks,   \* to be planned: work, avail, children, atomic
    plan,    \* segments of work: task, from, to
    ready    \* when the planned tasks are finished

Length(S) == MapThenSumSet(LAMBDA s : s.to - s.from, S)

Disjoint(S) == \A r, s \in S : r = s \/ r.to <= s.from \/ s.to <= r.from

Init == plan = {} /\ ready = << >>

Plan(t, S) ==
    /\ tasks[t].children \subseteq DOMAIN ready
    /\ plan' = plan \cup S /\ Disjoint(plan')
    /\ Length(S) = tasks[t].work
    /\ \A s \in S :
          /\ s.task = t /\ s.from >= Now /\ s.from >= tasks[t].avail /\ s.to <= ready'[t]
          /\ \A c \in tasks[t].children : s.from >= ready[c]
          /\ S = {s} \/ (~tasks[t].atomic /\ s.to - s.from > Shortest)
    /\ DOMAIN ready' = DOMAIN ready \cup {t}
    /\ \A u \in DOMAIN ready : ready'[u] = ready[u]
    /\ UNCHANGED tasks

Next ==
    /\ plan \subseteq plan'
    /\ \E t \in DOMAIN ready' \ DOMAIN ready : Plan(t, plan' \ plan)

Spec == Init /\ [][Next]_<<tasks, plan, ready>>
=============================================================================
