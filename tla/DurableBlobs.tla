---------------------------- MODULE DurableBlobs ----------------------------
(***************************************************************************)
(* What a node directory promises: a blob for which a receipt was given is *)
(* verified and stays so, across crashes of the host, until somebody       *)
(* removes or damages it.  Nothing is promised of the other names.         *)
(*                                                                         *)
(* The module is the abstract specification that ReplicaStore implements.  *)
(***************************************************************************)
CONSTANT Digest

VARIABLES
  visible,   \* what a reader finds under each final name
  promised   \* the digests with a receipt in force

Status == {"missing", "verified", "corrupt"}

\* Whole content appears under its name, by a rename.
Place(d) ==
  /\ visible' = [visible EXCEPT ![d] = "verified"]
  /\ UNCHANGED promised

\* A receipt is given.
Promise(d) ==
  /\ visible[d] = "verified"
  /\ promised' = promised \cup {d}
  /\ UNCHANGED visible

\* The collector removes the blob, or its bytes rot.
Lose(d, status) ==
  /\ visible' = [visible EXCEPT ![d] = status]
  /\ promised' = promised \ {d}

\* The host crashes; names without a receipt may show anything.
Crash ==
  /\ visible' \in [Digest -> Status]
  /\ \A d \in promised : visible'[d] = visible[d]
  /\ UNCHANGED promised

Init == visible = [d \in Digest |-> "missing"] /\ promised = {}

Next ==
  \/ \E d \in Digest : Place(d) \/ Promise(d) \/ \E s \in {"missing", "corrupt"} : Lose(d, s)
  \/ Crash

Spec == Init /\ [][Next]_<<visible, promised>>
=============================================================================
