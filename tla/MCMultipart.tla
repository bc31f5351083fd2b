----------------------------- MODULE MCMultipart -----------------------------
(***************************************************************************)
(* Instances of Multipart for TLC.                                         *)
(***************************************************************************)
EXTENDS Multipart, TLC

CONSTANTS u1, b1, b2, r1, r2

Part(u, n, b, r)    == [kind |-> "part", upload |-> u, number |-> n, bytes |-> b, request |-> r]
Finish(u, pre, r)   == [kind |-> "complete", upload |-> u, pre |-> pre, request |-> r]
Cancel(u, r)        == [kind |-> "abort", upload |-> u, request |-> r]

\* Two parts of the same bytes, one of them also put with other bytes;
\* completions with one key and two preconditions, and with another key; an
\* abort.
RaceMutations ==
  {Part(u1, 1, b1, r1), Part(u1, 1, b2, r2), Part(u1, 2, b1, r1),
   Finish(u1, "none", r1), Finish(u1, "absent", r1), Finish(u1, "none", r2), Cancel(u1, r1)}

Names == Permutations(Call) \cup Permutations(Node)
=============================================================================
