------------------------------ MODULE MCWriteGc ------------------------------
(***************************************************************************)
(* Instances of WriteGc for TLC.  A configuration picks one of the sets of *)
(* mutations below; every bound of the model is in the configuration.      *)
(***************************************************************************)
EXTENDS WriteGc, TLC

CONSTANTS k1, x1, x2, r1, r2, r3

Put(r, x, pre)    == [kind |-> "put", request |-> r, key |-> k1, content |-> x, pre |-> pre]
Delete(r, pre)    == [kind |-> "delete", request |-> r, key |-> k1, pre |-> pre]
Scan(r, gen, age) == [kind |-> "scan", request |-> r, expected |-> gen, minAge |-> age]
Advance(r)        == [kind |-> "advance", request |-> r]
Collect(r, scan, gen, retention) ==
  [kind |-> "gc", request |-> r, scan |-> scan, expected |-> gen, retention |-> retention]

\* Two writers of the same bytes, a scan and its collection.
CollectorMutations ==
  {Put(r1, x1, NoCondition), Put(r2, x1, NoCondition), Scan(r1, 1, 0), Collect(r1, Scan(r1, 1, 0), 1, 1)}

\* One writer, a scan and two collections of it, one of which names the next
\* generation; the generation may move before, between and after them.
SweepMutations ==
  {Put(r1, x1, NoCondition), Advance(r1), Scan(r1, 1, 1),
   Collect(r1, Scan(r1, 1, 1), 1, 1), Collect(r2, Scan(r1, 1, 1), 2, 0)}

\* One writer, a scan and its collection.
ExpiryMutations ==
  {Put(r1, x1, NoCondition), Scan(r1, 1, 0), Collect(r1, Scan(r1, 1, 0), 1, 1)}

\* One request key bound to two contents, a compare-and-set on the version
\* of the first, an unconditional and a conditional tombstone.
HistoryMutations ==
  {Put(r1, x1, Absent), Put(r1, x2, NoCondition), Put(r2, x2, Put(r1, x1, Absent)),
   Delete(r1, NoCondition), Delete(r2, Put(r1, x1, Absent))}

Calls == Permutations(Call)
=============================================================================
