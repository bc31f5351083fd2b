--------------------------- MODULE VersionHistory ---------------------------
(***************************************************************************)
(* What PUT and DELETE promise a client, with none of the machinery: every *)
(* key has one linear history of versions; a mutation is appended at most  *)
(* once per request identity, and only if its precondition holds of the    *)
(* version it is appended to.                                              *)
(*                                                                         *)
(* The module is the abstract specification that WriteGc implements.       *)
(***************************************************************************)
EXTENDS Naturals, Sequences

CONSTANTS Mutation, Key, Absent, NoCondition

VARIABLE chain   \* for each key, the mutations that made its versions

\* The current version, Absent before the first one.
Current(k) == IF chain[k] = <<>> THEN Absent ELSE chain[k][Len(chain[k])]

\* The request identity of m already has an outcome.
Answered(m) ==
  \E k \in Key : \E i \in DOMAIN chain[k] :
    chain[k][i].kind = m.kind /\ chain[k][i].request = m.request

Accept(m) ==
  /\ ~Answered(m)
  /\ m.pre \in {NoCondition, Current(m.key)}
  /\ chain' = [chain EXCEPT ![m.key] = Append(@, m)]

\* A version with data on top of whatever is there.
PutVersion == \E m \in Mutation : m.kind = "put" /\ Accept(m)

\* A tombstone, which needs a version, possibly a tombstone, to cover.
Tombstone ==
  \E m \in Mutation : m.kind = "delete" /\ Current(m.key) # Absent /\ Accept(m)

Init == chain = [k \in Key |-> <<>>]

Next == PutVersion \/ Tombstone

Spec == Init /\ [][Next]_chain
=============================================================================
