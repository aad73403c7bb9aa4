--------------------------- MODULE MC_TaskStorage ---------------------------
(***************************************************************************)
(* Instances of TaskStorage for TLC.  Paths are named by the roots: a root *)
(* has a path of its own, or all roots share one, as projects created on   *)
(* one day under one name do.                                              *)
(***************************************************************************)
EXTENDS TaskStorage, TLC

OwnPath == [r \in Roots |-> r]
SharedPath == [r \in Roots |-> CHOOSE q \in Paths : TRUE]

InterchangeableServers == Permutations(Servers)
=============================================================================
