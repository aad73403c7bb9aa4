---------------------------- MODULE ProjectStore ----------------------------
(***************************************************************************)
(* What the storage directory promises to everyone who shares it, without  *)
(* locks, caches, revisions, files or processes.                           *)
(*                                                                         *)
(* The store maps each project (its root task) to the set of operations    *)
(* whose effect its project.yaml holds; a project without a file holds     *)
(* none.  Operation 0 is the content found when the system was first       *)
(* started.  An operation is begun for a set of projects, reaches them one *)
(* at a time (there is no transaction across projects), and ends:          *)
(*                                                                         *)
(*   - "saved": its caller was told that it succeeded,                     *)
(*   - "failed": its caller was told that saving failed,                   *)
(*   - "lost": its process died before anybody was told.                   *)
(*                                                                         *)
(* The promise is in the guards: nothing is ever taken out of a project,   *)
(* only a running operation gets in, and "saved" is said only of an        *)
(* operation that is in every project it was for.                          *)
(***************************************************************************)
EXTENDS Naturals

CONSTANTS
    Roots,   \* root tasks, that is, projects
    MaxOps   \* bound: operations after the initial content

AllOps == 0..MaxOps
Ops == 1..MaxOps

OpStates == {"unused", "running", "saved", "failed", "lost"}

VARIABLES
    store,    \* [Roots -> SUBSET AllOps]
    opState,  \* [AllOps -> OpStates]
    opRoots   \* [AllOps -> SUBSET Roots]: the projects an operation is for

vars == <<store, opState, opRoots>>

Init ==
    \E R \in SUBSET Roots :
        /\ store = [r \in Roots |-> IF r \in R THEN {0} ELSE {}]
        /\ opState = [n \in AllOps |-> IF n = 0 THEN "saved" ELSE "unused"]
        /\ opRoots = [n \in AllOps |-> IF n = 0 THEN R ELSE {}]

Begin(n, R) ==
    /\ opState[n] = "unused"
    /\ opState' = [opState EXCEPT ![n] = "running"]
    /\ opRoots' = [opRoots EXCEPT ![n] = R]
    /\ UNCHANGED store

Commit(n, r) ==
    /\ opState[n] = "running"
    /\ r \in opRoots[n]
    /\ store' = [store EXCEPT ![r] = @ \cup {n}]
    /\ UNCHANGED <<opState, opRoots>>

Acknowledge(n) ==
    /\ opState[n] = "running"
    /\ \A r \in opRoots[n] : n \in store[r]
    /\ opState' = [opState EXCEPT ![n] = "saved"]
    /\ UNCHANGED <<store, opRoots>>

GiveUp(n, verdict) ==
    /\ opState[n] = "running"
    /\ opState' = [opState EXCEPT ![n] = verdict]
    /\ UNCHANGED <<store, opRoots>>

Next ==
    \E n \in Ops :
        \/ \E R \in SUBSET Roots : R # {} /\ Begin(n, R)
        \/ \E r \in Roots : Commit(n, r)
        \/ Acknowledge(n)
        \/ \E verdict \in {"failed", "lost"} : GiveUp(n, verdict)

Spec == Init /\ [][Next]_vars
=============================================================================
