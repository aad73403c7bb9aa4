------------------------ MODULE MC_InteractiveShell ------------------------
(***************************************************************************)
(* InteractiveShell for TLC.  `part` is "family", a project with one       *)
(* subtask and one project without, where no time passes, or "pair", two   *)
(* projects without subtasks and a clock.                                  *)
(***************************************************************************)
EXTENDS InteractiveShell, TLC

CONSTANTS root, sub, other

VARIABLE part

allVars == <<part, vars>>

FamilyAndOther == (root :> NoTask) @@ (sub :> root) @@ (other :> NoTask)
TwoProjects == (root :> NoTask) @@ (other :> NoTask)

Pair == INSTANCE InteractiveShell WITH
    Tasks <- {root, other}, Parent <- TwoProjects, MaxTime <- 1

ShellInit == (part = "family" /\ Init) \/ (part = "pair" /\ Pair!Init)

PairRefresh == part = "pair" /\ Pair!Refresh /\ UNCHANGED part

ShellNext ==
    \/ part = "family" /\ Next /\ UNCHANGED part
    \/ part = "pair" /\ Pair!Next /\ UNCHANGED part

\* The fairness of InteractiveShell.
ShellSpec == ShellInit /\ [][ShellNext]_allVars /\ WF_allVars(PairRefresh)

(* InteractiveShell!SeesTheOthers for the pair.                            *)
SeesTheOthers_Pair ==
    <>[][part = "pair" /\ (Pair!Refresh \/ Pair!Retry \/ Pair!Tick)]_allVars =>
        <>[](part = "pair" /\ Running => view = disk /\ shown = sel.focus)
=============================================================================
