------------------------------ MODULE MCRepair ------------------------------
(***************************************************************************)
(* Instances of Repair for TLC.                                            *)
(***************************************************************************)
EXTENDS Repair, TLC

Names == Permutations(Call) \cup Permutations(Request)
=============================================================================
