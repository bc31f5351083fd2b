---------------------------- MODULE WriteGcBytes ----------------------------
(***************************************************************************)
(* Proofs about WriteGc: what the collector unlinks, and that it never     *)
(* takes the bytes of a committed version.  Only the last theorem needs    *)
(* an assumption on time.                                                  *)
(***************************************************************************)
EXTENDS WriteGcHistory, FiniteSetTheorems

-----------------------------------------------------------------------------
(* The collector.                                                          *)

\* A name in a directory is one file.
OnePerPlace == \A f, g \in files : SamePlace(f, g) => f = g

\* What a running collection still has to look at or to unlink.
Pending(c) == call[c].items \cup call[c].doomed

\* What the holder of the GC row has established about its work.
Collecting(c) ==
  LET m == call[c].mut IN
  /\ Fenced(m)
  /\ Pending(c) \subseteq files
  /\ call[c].items \cap call[c].doomed = {}
  /\ \A f, g \in call[c].doomed : f = g
  /\ \A f \in call[c].doomed : ~Reachable(f.content)
  /\ \E s \in scans : s.scan = m.scan /\ \A f \in Pending(c) : \E e \in s.items : SamePlace(e, f)
  /\ call[c].pc = "sweeping" => \A f \in Pending(c) : f.mtime + m.retention <= now

\* The collector layer.
Collector == OnePerPlace /\ \A c \in Call : HoldsGcRow(c) => Collecting(c)

\* A tombstone makes nothing reachable.
LEMMA ReachableStable ==
  ASSUME Typed, UNCHANGED <<now, intents>>, NEW c \in Call,
         UNCHANGED versions \/ CommitDelete(c), NEW x, Reachable(x)'
  PROVE  Reachable(x)
<1>1. CASE \E i \in intents : i.mut.content = x /\ i.expires > now
  BY <1>1 DEF Reachable
<1>2. CASE ~\E i \in intents : i.mut.content = x /\ i.expires > now
  <2>1. PICK p \in Puts : p.content = x /\ Committed(p)'
    BY <1>2 DEF Reachable
  <2>2. CASE UNCHANGED versions
    BY <2>1, <2>2 DEF Reachable, Committed
  <2>3. CASE CommitDelete(c)
    <3> DEFINE m == call[c].mut
    <3>1. call[c].pc = "deciding" /\ m.kind = "delete" /\ CommitVersion(m)
      BY <2>3 DEF CommitDelete
    <3>2. m \in Mutation
      BY <3>1 DEF Typed, Shape
    <3>3. m \in Versions /\ m.key \in Key
      BY <3>1, <3>2, Fields
    <3>4. p \in Mutation /\ p.kind = "put"
      BY DEF Puts
    <3>5. p \in Versions /\ p.key \in Key
      BY <3>4, Fields
    <3>6. Committed(p)
      BY <2>1, <3>1, <3>3, <3>4, <3>5, CommitAdds
    <3> QED
      BY <2>1, <3>6 DEF Reachable
  <2> QED
    BY <2>2, <2>3
<1> QED
  BY <1>1, <1>2

\* Nobody collects at the start and no file is there.
LEMMA InitCollector == Init => Collector
  BY DEF Init, Collector, OnePerPlace, HoldsGcRow, Idle

\* A file is only added where there is none, so that places stay distinct.
LEMMA NextPlaces ==
  ASSUME Typed, OnePerPlace, NEW c \in Call, CallStep(c)
  PROVE  OnePerPlace'
<1>1. CASE files' \subseteq files
  BY <1>1 DEF OnePerPlace, SamePlace
<1>2. CASE \E n, x : files' = Placed(n, x)
  BY <1>2 DEF OnePerPlace, SamePlace, Placed, Stored
<1> QED
  BY <1>1, <1>2, Changes DEF Publish, PublishFails, GcUnlink

\* Another call's step does not disturb a running collection: the GC row is
\* taken, so that nothing it has judged unreachable can be reserved or
\* committed, and only the holder unlinks.
LEMMA OthersKeepCollecting ==
  ASSUME Typed, Locks, NEW c \in Call, CallStep(c),
         NEW d \in Call \ {c}, HoldsGcRow(d), Collecting(d)
  PROVE  Collecting(d)'
<1>1. call'[d] = call[d]
  BY Frame
<1>2. ~GcRowFree /\ ~HoldsGcRow(c)
  BY DEF GcRowFree, Locks
<1>3. ~ReserveIntent(c) /\ ~CommitPut(c) /\ ~CommitScan(c) /\ ~CommitAdvance(c)
  BY <1>2 DEF ReserveIntent, CommitPut, CommitScan, CommitAdvance
<1>4. ~GcUnlink(c)
  BY <1>2 DEF GcUnlink, HoldsGcRow
<1>5. UNCHANGED <<now, intents, scans, gcGen>> /\ (UNCHANGED versions \/ CommitDelete(c))
  BY <1>3, Changes
<1>6. files \subseteq files'
  <2>1. CASE files' = files
    BY <2>1
  <2>2. CASE Publish(c) \/ PublishFails(c)
    BY <2>2 DEF Publish, PublishFails, Placed
  <2> QED
    BY <2>1, <2>2, <1>4, Changes
<1>7. \A f \in call[d].doomed : ~Reachable(f.content)'
  BY <1>5, ReachableStable DEF Collecting
<1>8. Fenced(call[d].mut)' /\ Pending(d)' = Pending(d)
  BY <1>1, <1>5 DEF Fenced, Pending, Collecting
<1> QED
  BY <1>1, <1>5, <1>6, <1>7, <1>8 DEF Collecting, Pending


\* The holder's own steps: what it goes on with is a part of what it had, and
\* what it dooms has just been found unreachable.
LEMMA HolderKeepsCollecting ==
  ASSUME Typed, Collector, NEW c \in Call, CallStep(c), HoldsGcRow(c)'
  PROVE  Collecting(c)'
<1> DEFINE m == call[c].mut
<1>0. /\ call \in [Call -> CallState] /\ call[c] \in CallState /\ Shape(call[c])
      /\ Entered(c) /\ call'[c].pc \in {"listed", "sweeping"} /\ call'[c].mut = m
  BY Frame DEF Typed, TypeOK, HoldsGcRow, Entered, HoldingPCs
<1>1. CASE GcLock(c)
  <2>1. ~Return(c)
    BY <1>0, <1>1 DEF Return, Idle
  <2>2. PICK s \in scans :
          /\ s.scan = m.scan
          /\ call' = [call EXCEPT ![c].pc = "listed",
               ![c].items = {f \in files : \E e \in s.items : SamePlace(e, f) /\ f.mtime <= e.mtime}]
    BY <1>1, <2>1 DEF GcLock
  <2>3. Fenced(m) /\ call[c].doomed = {}
    BY <1>0, <1>1, <2>1 DEF GcLock, Shape
  <2>4. /\ call'[c].items = {f \in files : \E e \in s.items : SamePlace(e, f) /\ f.mtime <= e.mtime}
        /\ call'[c].doomed = {} /\ call'[c].pc = "listed"
    BY <1>0, <2>2, <2>3 DEF CallState
  <2>5. UNCHANGED <<files, scans, gcGen>>
    BY <1>1 DEF GcLock, database
  <2> QED
    BY <1>0, <2>2, <2>3, <2>4, <2>5 DEF Collecting, Pending, Fenced
<1>2. CASE GcReadClock(c)
  <2>1. Collecting(c) /\ call[c].doomed = {}
    BY <1>0, <1>2 DEF GcReadClock, HoldsGcRow, Collector, Shape
  <2>2. /\ call'[c].items = {f \in call[c].items : f.mtime + m.retention <= now}
        /\ call'[c].doomed = {}
    BY <1>0, <1>2, <2>1 DEF GcReadClock, CallState
  <2>3. UNCHANGED <<now, files, scans, gcGen>>
    BY <1>2 DEF GcReadClock, database
  <2> QED
    BY <1>0, <2>1, <2>2, <2>3 DEF Collecting, Pending, Fenced
<1>3. CASE GcJudge(c)
  <2>1. Collecting(c) /\ call[c].doomed = {} /\ call[c].pc = "sweeping"
    BY <1>3 DEF GcJudge, HoldsGcRow, Collector
  <2>2. PICK f \in call[c].items :
          call' = [call EXCEPT ![c].items = call[c].items \ {f},
                               ![c].doomed = IF Reachable(f.content) THEN {} ELSE {f}]
    BY <1>3 DEF GcJudge
  <2>3. /\ call'[c].items = call[c].items \ {f}
        /\ call'[c].doomed = IF Reachable(f.content) THEN {} ELSE {f}
        /\ call'[c].pc = "sweeping"
    BY <1>0, <2>1, <2>2 DEF CallState
  <2>4. UNCHANGED <<now, files, intents, versions, scans, gcGen>>
    BY <1>3 DEF GcJudge, database
  <2>5. \A x : Reachable(x)' <=> Reachable(x)
    BY <2>4 DEF Reachable, Committed
  <2>6. Pending(c)' \subseteq Pending(c) /\ call'[c].items \cap call'[c].doomed = {}
    BY <2>3 DEF Pending
  <2>7. \A g \in call'[c].doomed : g = f /\ ~Reachable(g.content)'
    BY <2>3, <2>5
  <2>8. Fenced(call[c].mut)'
    BY <1>0, <2>1, <2>4 DEF Collecting, Fenced
  <2> QED
    BY <1>0, <2>1, <2>4, <2>6, <2>7, <2>8 DEF Collecting
<1>4. CASE GcUnlink(c)
  <2>1. Collecting(c) /\ call[c].pc = "sweeping"
    BY <1>4 DEF GcUnlink, HoldsGcRow, Collector
  <2>2. call'[c].items = call[c].items /\ call'[c].doomed = {} /\ call'[c].pc = "sweeping"
    BY <1>0, <1>4 DEF GcUnlink, CallState
  <2>3. UNCHANGED <<now, scans, gcGen>>
    BY <1>4 DEF GcUnlink, database
  <2>4. \A f \in call[c].items, e \in call[c].doomed : ~SamePlace(e, f)
    BY <2>1 DEF Collector, OnePerPlace, Collecting, Pending
  <2>5. Pending(c)' \subseteq files' /\ Pending(c)' \subseteq Pending(c)
    BY <1>4, <2>1, <2>2, <2>4 DEF GcUnlink, Collecting, Pending
  <2>6. Fenced(call[c].mut)'
    BY <1>0, <2>1, <2>3 DEF Collecting, Fenced
  <2> QED
    BY <1>0, <2>1, <2>2, <2>3, <2>5, <2>6 DEF Collecting
<1> QED
  BY <1>0, <1>1, <1>2, <1>3, <1>4 DEF Entered

\* The collector layer is inductive: every call keeps its own part and the others'.
LEMMA NextCollector == Typed /\ Locks /\ Collector /\ [Next]_vars => Collector'
<1> SUFFICES ASSUME Typed, Locks, Collector, [Next]_vars PROVE Collector'
  OBVIOUS
<1>1. ASSUME NEW c \in Call, CallStep(c) PROVE Collector'
  <2>1. OnePerPlace'
    BY <1>1, NextPlaces DEF Collector
  <2>2. ASSUME NEW d \in Call \ {c}, HoldsGcRow(d)' PROVE Collecting(d)'
    <3>1. HoldsGcRow(d)
      BY <1>1, <2>2, Frame DEF HoldsGcRow
    <3>2. Collecting(d)
      BY <3>1 DEF Collector
    <3> QED
      BY <1>1, <3>1, <3>2, OthersKeepCollecting
  <2>3. ASSUME HoldsGcRow(c)' PROVE Collecting(c)'
    BY <1>1, <2>3, HolderKeepsCollecting
  <2> QED
    BY <2>1, <2>2, <2>3 DEF Collector
<1>2. CASE Tick
  <2>1. UNCHANGED <<files, intents, versions, scans, gcGen, call>> /\ now' = now + 1
    BY <1>2 DEF Tick, database
  <2>2. ASSUME NEW x, Reachable(x)' PROVE Reachable(x)
    <3>1. CASE \E p \in Puts : p.content = x /\ Committed(p)'
      BY <2>1, <3>1 DEF Reachable, Committed
    <3>2. CASE \E i \in intents : i.mut.content = x /\ i.expires > now + 1
      <4>1. PICK i \in intents : i.mut.content = x /\ i.expires > now + 1
        BY <3>2
      <4>2. i.expires \in Nat /\ now \in Nat
        BY DEF Typed, TypeOK, IntentRow, Time
      <4>3. i.expires > now
        BY <4>1, <4>2
      <4> QED
        BY <4>1, <4>3 DEF Reachable
    <3> QED
      BY <2>1, <2>2, <3>1, <3>2 DEF Reachable
  <2>3. ASSUME NEW c \in Call, HoldsGcRow(c) PROVE Collecting(c)'
    <3>1. Collecting(c) /\ Pending(c)' = Pending(c)
      BY <2>1, <2>3 DEF Collector, Pending
    <3>2. \A f \in call[c].doomed : ~Reachable(f.content)'
      BY <2>2, <3>1 DEF Collecting
    <3>3. call[c].mut.kind = "gc" /\ call[c].mut \in Mutation
      BY <2>3 DEF Typed, Shape, HoldsGcRow
    <3>4. call[c].mut.retention \in Nat
      BY <3>3, Fields
    <3>5. \A f \in Pending(c) : f.mtime \in Nat /\ now \in Nat
      BY <3>1 DEF Collecting, Typed, TypeOK, Entry, Time
    <3>6. \A f \in Pending(c) : f.mtime + call[c].mut.retention <= now =>
                                f.mtime + call[c].mut.retention <= now + 1
      BY <3>4, <3>5
    <3> QED
      BY <2>1, <3>1, <3>2, <3>6 DEF Collecting, Fenced
  <2> QED
    BY <2>1, <2>3 DEF Collector, OnePerPlace, HoldsGcRow
<1>3. CASE UNCHANGED vars
  BY <1>3 DEF vars, Collector, OnePerPlace, HoldsGcRow, Collecting, Pending, Fenced, Reachable, Committed
<1> QED
  BY <1>1, <1>2, <1>3, NextCases

\* The collector layer holds in every reachable state.
LEMMA CollectorAlways == Spec => []Collector
  BY InitCollector, NextCollector, TypedAlways, LocksAlways, PTL DEF Spec

\* A file disappears only by the unlink of a collection, at a place it doomed.
LEMMA OnlyUnlinkRemoves ==
  ASSUME Typed, Collector, [Next]_vars, NEW f \in files \ files'
  PROVE  \E c \in Call : call[c].pc = "sweeping" /\ Collecting(c) /\ f \in call[c].doomed
<1>1. PICK c \in Call : CallStep(c)
  BY NextCases DEF Tick, vars
<1>2. GcUnlink(c)
  BY <1>1, Changes DEF Publish, PublishFails, Placed
<1>3. call[c].pc = "sweeping" /\ Collecting(c)
  BY <1>2 DEF GcUnlink, Collector, HoldsGcRow
<1>4. PICK e \in call[c].doomed : SamePlace(e, f)
  BY <1>2 DEF GcUnlink
<1>5. e \in files
  BY <1>3 DEF Collecting, Pending
<1>6. e = f
  BY <1>4, <1>5 DEF Collector, OnePerPlace
<1> QED
  BY <1>3, <1>4, <1>6

\* Whatever the constants, also when intents expire under a slow writer, the
\* collector unlinks nothing that a version or an unexpired intent refers to.
THEOREM GcCollectsOnlyGarbage == Spec => CollectsOnlyGarbage
<1>1. Typed /\ Collector /\ [Next]_vars => [\A f \in files \ files' : ~Reachable(f.content)]_vars
  BY OnlyUnlinkRemoves DEF Collecting
<1> QED
  BY <1>1, TypedAlways, CollectorAlways, PTL DEF Spec, CollectsOnlyGarbage

\* Whatever the constants, a file is unlinked only under the generation of the
\* collection and of its scan, as a candidate of that scan, after its retention.
THEOREM GcIsFenced == Spec => OnlyFencedCollections
<1> DEFINE Good(f) ==
      \E c \in Call :
         LET m == call[c].mut IN
         /\ call[c].pc = "sweeping"
         /\ gcGen = m.expected /\ m.scan.expected = m.expected
         /\ f.mtime + m.retention <= now
         /\ \E s \in scans : s.scan = m.scan /\ \E e \in s.items : SamePlace(e, f)
<1>1. ASSUME Typed, Collector, [Next]_vars, NEW f \in files \ files'
      PROVE  Good(f)
  <2>1. PICK c \in Call : call[c].pc = "sweeping" /\ Collecting(c) /\ f \in call[c].doomed
    BY <1>1, OnlyUnlinkRemoves
  <2> QED
    BY <2>1 DEF Collecting, Fenced, Pending
<1>2. Typed /\ Collector /\ [Next]_vars => [\A f \in files \ files' : Good(f)]_vars
  BY <1>1
<1> QED
  BY <1>2, TypedAlways, CollectorAlways, PTL DEF Spec, OnlyFencedCollections

-----------------------------------------------------------------------------
(* Bytes.                                                                  *)

\* A verified row has its file, and a version that keeps the file reachable.
Backed == \A x \in Content, n \in Node : replica[x][n] = "verified" =>
  Stored(n, x) /\ \E m \in Puts : m.content = x /\ Committed(m)

\* The nodes whose row for content x is verified.
VerifiedNodes(x) == {n \in Node : replica[x][n] = "verified"}

\* A committed data version has its threshold of verified rows.
Enough == \A m \in Puts : Committed(m) => Cardinality(VerifiedNodes(m.content)) >= Required

\* A PUT attempt is within its window, and the files it got receipts for exist.
Attempted == \A c \in Call :
  /\ call[c].pc \in {"idle", "reserve", "reserving"} => call[c].got = {}
  /\ InWindow(c) =>
       /\ now <= call[c].since + Window
       /\ \A n \in call[c].got : Stored(n, call[c].mut.content)
       /\ call[c].pc # "publishing" => Cardinality(call[c].got) >= Required

\* The bytes layer.
Bytes == Backed /\ Enough /\ Attempted

\* There are no versions, no rows and no attempts at the start.
LEMMA InitBytes == Init => Bytes
<1> SUFFICES ASSUME Init PROVE Bytes
  OBVIOUS
<1>1. Backed /\ Attempted
  BY DEF Init, Backed, Attempted, InWindow, Idle
<1>2. \A m \in Puts : ~Committed(m)
  <2> SUFFICES ASSUME NEW m \in Puts PROVE ~Committed(m)
    OBVIOUS
  <2>1. m.key \in Key
    BY Fields DEF Puts
  <2> QED
    BY <2>1 DEF Init, Committed
<1> QED
  BY <1>1, <1>2 DEF Bytes, Enough

\* The reason for Window < Ttl: the content of a PUT attempt stays reachable.
LEMMA AttemptReachable ==
  ASSUME Window < Ttl, Typed, Identities, Attempted, NEW c \in Call, InWindow(c)
  PROVE  Reachable(call[c].mut.content)
<1> DEFINE m == call[c].mut
<1>1. m \in Puts /\ m \in Versions
  BY DEF Typed, Shape, InWindow, Puts, Versions
<1>2. CASE m \in receipts
  <2>1. Committed(m)
    BY <1>1, <1>2 DEF Identities, OneOutcome
  <2> QED
    BY <1>1, <2>1 DEF Reachable
<1>3. CASE m \notin receipts
  <2>1. PICK i \in intents : i.mut = m /\ i.expires >= call[c].since + Ttl
    BY <1>3 DEF Identities, Reserved
  <2>2. now <= call[c].since + Window
    BY DEF Attempted
  <2>3. now \in Nat /\ call[c].since \in Nat /\ i.expires \in Nat /\ Window \in Nat /\ Ttl \in Nat
    BY CountsAssumption DEF Typed, TypeOK, CallState, Time, IntentRow
  <2>4. i.expires > now
    BY <2>1, <2>2, <2>3
  <2> QED
    BY <2>1, <2>4 DEF Reachable
<1> QED
  BY <1>2, <1>3

\* A file of reachable content survives every step.
LEMMA ReachableKept ==
  ASSUME Typed, Collector, [Next]_vars, NEW n, NEW x, Stored(n, x), Reachable(x)
  PROVE  Stored(n, x)'
<1>1. PICK f \in files : f.node = n /\ f.content = x
  BY DEF Stored
<1>2. f \in files'
  BY <1>1, OnlyUnlinkRemoves DEF Collecting
<1> QED
  BY <1>1, <1>2 DEF Stored

\* What CommitPut needs to know of its mutation.
LEMMA PutFacts ==
  ASSUME Typed, NEW c \in Call, CommitPut(c)
  PROVE  LET m == call[c].mut IN
         /\ m \in Puts /\ m \in Versions /\ m.key \in Key /\ m.content \in Content
         /\ InWindow(c) /\ call[c].pc # "publishing" /\ call[c].got \subseteq Node
         /\ CommitVersion(m) /\ UNCHANGED <<files, now>>
         /\ \A x \in Content, n \in Node : replica'[x][n] = "verified" <=>
              replica[x][n] = "verified" \/ (x = m.content /\ n \in call[c].got)
<1> DEFINE m == call[c].mut
<1>1. call[c].pc = "deciding" /\ m.kind = "put" /\ m \in Mutation /\ call[c].got \subseteq Node
  BY DEF CommitPut, Typed, TypeOK, Shape, CallState
<1>2. m \in Puts /\ m \in Versions /\ m.key \in Key /\ m.content \in Content
  BY <1>1, Fields
<1>3. replica' = [replica EXCEPT ![m.content] =
        [n \in Node |-> IF n \in call[c].got THEN "verified"
                        ELSE IF @[n] = "none" THEN "missing" ELSE @[n]]]
  BY DEF CommitPut
<1>4. \A x \in Content, n \in Node : replica'[x][n] = "verified" <=>
        replica[x][n] = "verified" \/ (x = m.content /\ n \in call[c].got)
  BY <1>2, <1>3 DEF Typed, TypeOK
<1> QED
  BY <1>1, <1>2, <1>4 DEF CommitPut, InWindow

\* Versions stay.
LEMMA CommittedStays ==
  ASSUME Typed, NEW c \in Call, CallStep(c), NEW v \in Versions, Committed(v)
  PROVE  Committed(v)'
<1> DEFINE m == call[c].mut
<1>1. v.key \in Key
  BY Fields DEF Versions
<1>2. CASE CommitPut(c) \/ CommitDelete(c)
  <2>1. CommitVersion(m) /\ m \in Mutation /\ m.kind \in {"put", "delete"}
    BY <1>2 DEF CommitPut, CommitDelete, Typed, Shape
  <2>2. m \in Versions /\ m.key \in Key
    BY <2>1, Fields
  <2> QED
    BY <1>1, <2>1, <2>2, CommitAdds
<1>3. CASE UNCHANGED versions
  BY <1>3 DEF Committed
<1> QED
  BY <1>2, <1>3, Changes

\* A row becomes verified only for a node whose file an attempt keeps.
LEMMA NextBacked ==
  ASSUME Typed, Collector, Bytes, NEW c \in Call, CallStep(c)
  PROVE  Backed'
<1> DEFINE m == call[c].mut
<1> SUFFICES ASSUME NEW x \in Content, NEW n \in Node, replica'[x][n] = "verified"
             PROVE  Stored(n, x)' /\ \E p \in Puts : p.content = x /\ Committed(p)'
  BY DEF Backed
<1>0. [Next]_vars
  BY NextCases
<1>1. CASE replica[x][n] = "verified"
  <2>1. PICK p \in Puts : Stored(n, x) /\ p.content = x /\ Committed(p)
    BY <1>1 DEF Bytes, Backed
  <2>2. Stored(n, x)'
    BY <1>0, <2>1, ReachableKept DEF Reachable
  <2>3. Committed(p)'
    BY <2>1, CommittedStays DEF Puts, Versions
  <2> QED
    BY <2>1, <2>2, <2>3
<1>2. CASE replica[x][n] # "verified"
  <2>1. CommitPut(c)
    BY <1>2, Changes
  <2>2. /\ x = m.content /\ n \in call[c].got
        /\ m \in Puts /\ m \in Versions /\ m.key \in Key
        /\ InWindow(c) /\ CommitVersion(m) /\ UNCHANGED files
    BY <1>2, <2>1, PutFacts
  <2>3. Stored(n, x)'
    BY <2>2 DEF Bytes, Attempted, Stored
  <2>4. PICK p \in Puts : p = m
    BY <2>2
  <2>5. Committed(p)'
    BY <2>2, <2>4, CommitAdds
  <2> QED
    BY <2>2, <2>3, <2>4, <2>5
<1> QED
  BY <1>1, <1>2

\* A commit marks at least Required nodes; no step unmarks one.
LEMMA NextEnough ==
  ASSUME Typed, Bytes, NEW c \in Call, CallStep(c)
  PROVE  Enough'
<1> DEFINE m == call[c].mut
<1> SUFFICES ASSUME NEW v \in Puts, Committed(v)'
             PROVE  Cardinality(VerifiedNodes(v.content)') >= Required
  BY DEF Enough
<1>0. v \in Versions /\ v.key \in Key /\ v.content \in Content
  BY Fields DEF Puts, Versions
<1>1. IsFiniteSet(Node)
  BY FS_Interval, CountsAssumption DEF Node
<1>2. ASSUME NEW S \in SUBSET Node, NEW T \in SUBSET Node, S \subseteq T, Cardinality(S) >= Required
      PROVE  Cardinality(T) >= Required
  <2>1. IsFiniteSet(S) /\ IsFiniteSet(T)
    BY <1>1, FS_Subset
  <2>2. Cardinality(S) <= Cardinality(T) /\ Cardinality(S) \in Nat /\ Cardinality(T) \in Nat
    BY <1>2, <2>1, FS_Subset, FS_CardinalityType
  <2> QED
    BY <1>2, <2>2, CountsAssumption
<1>3. \A x \in Content : VerifiedNodes(x) \subseteq VerifiedNodes(x)'
  <2>1. CASE replica' = replica
    BY <2>1 DEF VerifiedNodes
  <2>2. CASE CommitPut(c)
    BY <2>2, PutFacts DEF VerifiedNodes
  <2> QED
    BY <2>1, <2>2, Changes
<1>4. CASE Committed(v)
  <2>1. Cardinality(VerifiedNodes(v.content)) >= Required
    BY <1>4 DEF Bytes, Enough
  <2>2. VerifiedNodes(v.content) \in SUBSET Node /\ VerifiedNodes(v.content)' \in SUBSET Node
    BY DEF VerifiedNodes
  <2> QED
    BY <1>0, <1>2, <1>3, <2>1, <2>2
<1>5. CASE ~Committed(v)
  <2>1. CommitPut(c)
    <3>1. versions' # versions
      BY <1>5 DEF Committed
    <3>2. ~CommitDelete(c)
      <4>1. SUFFICES ASSUME CommitDelete(c) PROVE FALSE
        OBVIOUS
      <4>2. CommitVersion(m) /\ m \in Mutation /\ m.kind = "delete"
        BY <4>1 DEF CommitDelete, Typed, Shape
      <4>3. m \in Versions /\ m.key \in Key
        BY <4>2, Fields
      <4>4. v = m
        BY <1>0, <1>5, <4>2, <4>3, CommitAdds
      <4> QED
        BY <4>2, <4>4 DEF Puts
    <3> QED
      BY <3>1, <3>2, Changes
  <2>2. v = m
    BY <1>0, <1>5, <2>1, PutFacts, CommitAdds
  <2>3. call[c].got \in SUBSET Node /\ Cardinality(call[c].got) >= Required
    BY <2>1, PutFacts DEF Bytes, Attempted
  <2>4. call[c].got \subseteq VerifiedNodes(v.content)'
    BY <2>1, <2>2, PutFacts DEF VerifiedNodes
  <2>5. VerifiedNodes(v.content)' \in SUBSET Node
    BY DEF VerifiedNodes
  <2> QED
    BY <1>2, <2>3, <2>4, <2>5
<1> QED
  BY <1>4, <1>5

\* The receipts of an attempt stay backed by files, and its time by Window.
LEMMA NextAttempted ==
  ASSUME Window < Ttl, Typed, Collector, Identities, Bytes, NEW c \in Call, CallStep(c)
  PROVE  Attempted'
<1>0. [Next]_vars /\ now' = now
  BY NextCases, Changes
<1>a. now \in Nat /\ Window \in Nat /\ \A e \in Call : call[e] \in CallState
  BY CountsAssumption DEF Typed, TypeOK, Time
<1> SUFFICES ASSUME NEW d \in Call
             PROVE  /\ call'[d].pc \in {"idle", "reserve", "reserving"} => call'[d].got = {}
                    /\ InWindow(d)' =>
                         /\ now <= call'[d].since + Window
                         /\ \A n \in call'[d].got : \E f \in files' : f.node = n /\ f.content = call'[d].mut.content
                         /\ call'[d].pc # "publishing" => Cardinality(call'[d].got) >= Required
  BY <1>0 DEF Attempted, Stored
<1>1. ASSUME NEW n, NEW x, Stored(n, x), Reachable(x)
      PROVE  \E f \in files' : f.node = n /\ f.content = x
  BY <1>0, <1>1, ReachableKept DEF Stored
<1>2. InWindow(d) =>
        /\ now <= call[d].since + Window
        /\ \A n \in call[d].got : \E f \in files' : f.node = n /\ f.content = call[d].mut.content
  BY <1>1, AttemptReachable DEF Bytes, Attempted
<1>3. CASE d # c
  <2>1. call'[d] = call[d]
    BY <1>3, Frame
  <2> QED
    BY <1>2, <2>1 DEF Bytes, Attempted, InWindow
<1>4. CASE d = c
  <2>0. call \in [Call -> CallState] /\ call[c] \in CallState /\ Shape(call[c]) /\ Entered(c)
    BY Frame DEF Typed, TypeOK
  <2>1. CASE Return(c)
    BY <1>4, <2>0, <2>1 DEF Return, Idle, InWindow
  <2>2. CASE ~Return(c) /\ call'[c].pc \in {"idle", "reserve", "reserving"}
    <3>1. call'[c].got = {}
      <4>1. CASE ReserveLock(c)
        BY <2>0, <2>2, <4>1 DEF ReserveLock, Goto, CallState, Bytes, Attempted
      <4>2. CASE \E m \in Mutation : Start(c, m)
        BY <2>0, <4>2 DEF Start, CallState, Bytes, Attempted
      <4>3. ReserveLock(c) \/ \E m \in Mutation : Start(c, m)
        <5>1. ~Abort(c)
          BY <2>2 DEF Abort
        <5>2. Step(c) => call'[c].pc \in HoldingPCs \cup {"publishing", "observed", "listing", "begin"}
          <6> HAVE Step(c)
          <6>1. CASE ScanObserve(c) \/ ScanReadClock(c) \/ ScanList(c)
            BY <2>0, <6>1 DEF ScanObserve, ScanReadClock, ScanList, CallState
          <6>2. CASE ReserveLock(c) \/ Begin(c) \/ LockKey(c)
            BY <2>0, <2>2, <6>2 DEF ReserveLock, Begin, LockKey, Goto, HoldingPCs, CallState
          <6>3. CASE ReserveIntent(c) \/ Publish(c) \/ PublishFails(c)
            BY <2>0, <2>2, <6>3 DEF ReserveIntent, Publish, PublishFails, Publishing, CallState
          <6>4. CASE GcLock(c)
            BY <2>0, <2>2, <6>4 DEF GcLock, HoldingPCs, CallState
          <6>5. CASE GcReadClock(c)
            BY <2>0, <6>5 DEF GcReadClock, HoldingPCs, CallState
          <6>6. CASE GcUnlink(c)
            BY <2>0, <6>6 DEF GcUnlink, HoldingPCs, CallState
          <6>7. CASE GcJudge(c)
            <7>1. call'[c].pc = "sweeping"
              <8>1. PICK f \in call[c].items :
                      call' = [call EXCEPT ![c].items = call[c].items \ {f},
                                           ![c].doomed = IF Reachable(f.content) THEN {} ELSE {f}]
                BY <6>7 DEF GcJudge
              <8> QED
                BY <2>0, <6>7, <8>1 DEF GcJudge, CallState
            <7> QED
              BY <7>1 DEF HoldingPCs
          <6> QED
            BY <2>2, <6>1, <6>2, <6>3, <6>4, <6>5, <6>6, <6>7
            DEF Step, PutStep, ScanStep, GcStep, ThresholdNotMet, CommitPut, CommitDelete,
                CommitScan, CommitGc, CommitAdvance
        <5>3. call'[c].pc = "reserving" => ReserveLock(c)
          BY <2>0 DEF Entered
        <5> QED
          BY <2>2, <5>1, <5>2, <5>3 DEF CallStep, HoldingPCs
      <4> QED
        BY <4>1, <4>2, <4>3
    <3> QED
      BY <1>4, <2>2, <3>1 DEF InWindow
  <2>3. CASE ~Return(c) /\ ReserveIntent(c)
    <3>1. /\ call'[c].got = {} /\ call'[c].since = now /\ call'[c].pc = "publishing"
      BY <2>0, <2>3 DEF ReserveIntent, CallState, Bytes, Attempted
    <3> QED
      BY <1>4, <1>a, <3>1
  <2>4. CASE Publish(c) \/ PublishFails(c)
    <3> DEFINE n == call[c].next
               x == call[c].mut.content
    <3>1. /\ InWindow(c) /\ call'[c].pc = "publishing" /\ call'[c].mut = call[c].mut
          /\ call'[c].since = call[c].since
      <4>1. \E r \in 1 .. NodeCount + 1, g \in SUBSET Node :
              call' = [call EXCEPT ![c].next = r, ![c].got = g]
        <5>1. Publishing(c) /\ call[c].next \in 1 .. NodeCount /\ call[c].got \in SUBSET Node
          BY <2>0, <2>4 DEF Publish, PublishFails, Publishing, CallState
        <5>2. CASE Publish(c)
          <6>1. call' = [call EXCEPT ![c].next = call[c].next + 1,
                                     ![c].got = call[c].got \cup {call[c].next}]
            BY <5>2 DEF Publish
          <6>2. /\ call[c].next + 1 \in 1 .. NodeCount + 1
                /\ call[c].got \cup {call[c].next} \in SUBSET Node
            BY <5>1, CountsAssumption DEF Node
          <6> QED
            BY <6>1, <6>2
        <5>3. CASE PublishFails(c)
          <6>1. call' = [call EXCEPT ![c].next = call[c].next + 1, ![c].got = call[c].got]
            BY <2>0, <5>3 DEF PublishFails, CallState
          <6>2. call[c].next + 1 \in 1 .. NodeCount + 1
            BY <5>1, CountsAssumption
          <6> QED
            BY <5>1, <6>1, <6>2
        <5> QED
          BY <2>4, <5>2, <5>3
      <4>2. call[c].pc = "publishing" /\ InWindow(c)
        BY <2>0, <2>4 DEF Publish, PublishFails, Publishing, InWindow, Shape
      <4> QED
        BY <2>0, <4>1, <4>2 DEF CallState
    <3>2. CASE PublishFails(c)
      <4>1. call'[c].got = call[c].got
        BY <2>0, <3>2 DEF PublishFails, CallState
      <4> QED
        BY <1>2, <1>4, <3>1, <4>1
    <3>3. CASE Publish(c)
      <4>1. call'[c].got = call[c].got \cup {n}
        BY <2>0, <3>3 DEF Publish, CallState
      <4>2. \E f \in files' : f.node = n /\ f.content = x
        <5>1. files' = Placed(n, x)
          BY <3>3 DEF Publish
        <5>2. CASE Stored(n, x)
          BY <5>1, <5>2 DEF Placed, Stored
        <5>3. CASE ~Stored(n, x)
          <6>1. [node |-> n, content |-> x, mtime |-> now] \in files'
            BY <5>1, <5>3 DEF Placed
          <6> QED
            BY <6>1
        <5> QED
          BY <5>2, <5>3
      <4> QED
        BY <1>2, <1>4, <3>1, <4>1, <4>2
    <3> QED
      BY <2>4, <3>2, <3>3
  <2>5. CASE ~Return(c) /\ (Begin(c) \/ LockKey(c)) /\ InWindow(c)'
    <3>1. /\ call'[c].got = call[c].got /\ call'[c].since = call[c].since
          /\ call'[c].mut = call[c].mut /\ call'[c].pc \in {"mutating", "deciding"}
      BY <2>0, <2>5 DEF Begin, LockKey, Goto, CallState
    <3>2. InWindow(c) /\ Cardinality(call[c].got) >= Required
      BY <2>0, <2>5, <3>1 DEF Begin, Prepared, LockKey, InWindow, Shape, Bytes, Attempted
    <3> QED
      BY <1>2, <1>4, <3>1, <3>2
  <2>6. InWindow(c)' => ReserveIntent(c) \/ Publish(c) \/ PublishFails(c) \/ Begin(c) \/ LockKey(c)
    BY <2>0 DEF Entered, InWindow
  <2> QED
    BY <1>4, <2>1, <2>2, <2>3, <2>4, <2>5, <2>6
<1> QED
  BY <1>3, <1>4

\* The bytes layer is inductive; only Tick and its guard concern time.
LEMMA NextBytes ==
  Window < Ttl /\ Typed /\ Collector /\ Identities /\ Bytes /\ [Next]_vars => Bytes'
<1> SUFFICES ASSUME Window < Ttl, Typed, Collector, Identities, Bytes, [Next]_vars PROVE Bytes'
  OBVIOUS
<1>1. ASSUME NEW c \in Call, CallStep(c) PROVE Bytes'
  BY <1>1, NextBacked, NextEnough, NextAttempted DEF Bytes
<1>2. CASE Tick
  <2>1. UNCHANGED <<files, replica, versions, call>> /\ now' = now + 1
    BY <1>2 DEF Tick, database
  <2>2. ASSUME NEW c \in Call, InWindow(c) PROVE now + 1 <= call[c].since + Window
    <3>1. now \in Nat /\ call[c].since \in Nat /\ Window \in Nat
      BY CountsAssumption DEF Typed, TypeOK, CallState, Time
    <3>2. now < call[c].since + Window
      BY <1>2, <2>2 DEF Tick
    <3> QED
      BY <3>1, <3>2
  <2>3. Attempted'
    BY <2>1, <2>2 DEF Bytes, Attempted, InWindow, Stored
  <2> QED
    BY <2>1, <2>3 DEF Bytes, Backed, Enough, VerifiedNodes, Stored, Committed
<1>3. CASE UNCHANGED vars
  BY <1>3 DEF vars, Bytes, Backed, Enough, Attempted, InWindow, VerifiedNodes, Stored, Committed
<1> QED
  BY <1>1, <1>2, <1>3, NextCases

\* If no PUT attempt outlives its intent, every committed version keeps its
\* threshold of verified replicas and every verified replica its file.
THEOREM CommittedBytesStay ==
  ASSUME Window < Ttl
  PROVE  Spec => []CommittedBytes
<1>1. Bytes => CommittedBytes
  BY DEF Bytes, Backed, Enough, VerifiedNodes, CommittedBytes
<1>2. Typed /\ Collector /\ Identities /\ Bytes /\ [Next]_vars => Bytes'
  BY NextBytes
<1> QED
  BY <1>1, <1>2, InitBytes, TypedAlways, CollectorAlways, IdentitiesAlways, PTL DEF Spec
=============================================================================
