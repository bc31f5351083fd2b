--------------------------- MODULE MCReplicaStore ---------------------------
(***************************************************************************)
(* Instances of ReplicaStore for TLC.                                      *)
(***************************************************************************)
EXTENDS ReplicaStore, TLC

Names == Permutations(Call) \cup Permutations(Temp)
=============================================================================
