--------------------------- MODULE MCListSnapshot ---------------------------
(***************************************************************************)
(* Instances of ListSnapshot for TLC.                                      *)
(***************************************************************************)
EXTENDS ListSnapshot

CONSTANTS b1, r1, r2

Make(r)                     == [kind |-> "bucket", request |-> r, bucket |-> b1]
List(r, prefix, tombstones) ==
  [kind |-> "list", request |-> r, bucket |-> b1, prefix |-> prefix, tombstones |-> tombstones]

\* Two requests for one name; one request key bound to two listings, of all
\* keys and of one, without tombstones.
ListMutations == {Make(r1), Make(r2), List(r1, Key, FALSE), List(r1, {1}, FALSE)}

\* A bucket and a listing with its tombstones.
RetryMutations == {Make(r1), List(r1, Key, TRUE)}

Limits == {1, 2}
=============================================================================
