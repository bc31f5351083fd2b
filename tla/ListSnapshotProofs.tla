------------------------- MODULE ListSnapshotProofs -------------------------
(***************************************************************************)
(* Proofs about ListSnapshot for any number of executions, clients,        *)
(* buckets, keys and versions: a bucket is made once, a list request has   *)
(* one snapshot, and who has read it to the end holds one moment of the    *)
(* bucket.                                                                 *)
(*                                                                         *)
(* The view of an execution is a past of the database, and the rows of a   *)
(* bucket only grow, so what was listed from a view is what was there      *)
(* then; no page is cut from anything else.                                *)
(***************************************************************************)
EXTENDS ListSnapshot, FiniteSetTheorems, FunctionTheorems, SequenceTheorems, TLAPS

-----------------------------------------------------------------------------
(* The inductive invariant.                                                *)

CallState == [pc : PC, mut : Mutation \cup {Nothing}, seen : Database \cup {Nothing}]

ReaderState == [list : Mutation \cup {Nothing}, got : Seq(Item), offset : 0 .. MaxItems \cup {Nothing}]

Snapshot == {s \in [list : Mutation, items : Seq(Item)] : Len(s.items) <= MaxItems}

\* A listing is under way.
IsListing(s) == s.pc # "idle" /\ s.mut.kind = "list"

\* What the label of a call says of its record.
Shape(s) ==
  /\ s.pc = "idle" => s = Idle
  /\ s.pc # "idle" => s.mut \in Mutation
  /\ s.pc \in {"inserting", "inserted"} => s.mut.kind = "bucket"
  /\ IsListing(s) => s.seen \in Database

Types ==
  /\ buckets \subseteq Bucket /\ receipts \subseteq Mutation
  /\ versions \in [Bucket -> Seq(Row)] /\ \A b \in Bucket : Len(versions[b]) <= MaxVersions
  /\ snapshots \subseteq Snapshot
  /\ call \in [Call -> CallState] /\ \A c \in Call : Shape(call[c])
  /\ reader \in [Reader -> ReaderState]

\* The rows are a past of bucket b.
IsPast(rows, b) == \E n \in 0 .. Len(versions[b]) : rows = SubSeq(versions[b], 1, n)

\* The view of a listing is a past of every bucket.
Seen(s) == IsListing(s) => \A b \in Bucket : IsPast(s.seen.versions[b], b)

\* An execution that has the request lock.
Holds(s) == s.pc \in {"working", "inserting", "inserted"}

\* The lock of a request is held by one execution.
Exclusion ==
  \A c, d \in Call : c # d /\ Holds(call[c]) /\ Holds(call[d]) => ~SameIdentity(call[c].mut, call[d].mut)

\* The request of an execution that makes a bucket is unanswered, and a row it
\* has inserted is nobody else's.
Unanswered(s) ==
  /\ Holds(s) /\ s.mut.kind = "bucket" => \A r \in receipts : ~SameIdentity(r, s.mut)
  /\ s.pc = "inserted" => s.mut.bucket \notin buckets

InsertedOnce ==
  \A c, d \in Call : c # d /\ call[c].pc = "inserted" /\ call[d].pc = "inserted" =>
    call[c].mut.bucket # call[d].mut.bucket

\* Who made a bucket, made it alone.
Made ==
  /\ \A b \in buckets : \E m \in receipts : m.kind = "bucket" /\ m.bucket = b
  /\ \A m \in receipts : m.kind = "bucket" => m.bucket \in buckets
  /\ \A m, n \in receipts : m.kind = "bucket" /\ n.kind = "bucket" /\ m.bucket = n.bucket => m = n

\* An identity is answered once, a listing with its one snapshot, which shows
\* a past of its bucket.
Answered ==
  /\ \A q, r \in receipts : SameIdentity(q, r) => q = r
  /\ \A m \in receipts : m.kind = "list" => \E s \in snapshots : s.list = m
  /\ \A s \in snapshots : s.list \in receipts /\ s.list.kind = "list"
  /\ \A s, t \in snapshots : s.list = t.list => s = t
  /\ \A s \in snapshots :
       \E n \in 0 .. Len(versions[s.list.bucket]) :
         s.items = Listed(SubSeq(versions[s.list.bucket], 1, n), s.list)

\* What a client has, is the beginning of a snapshot up to its offset.
Reading(p) ==
  IF p.list = Nothing THEN p.offset = Nothing
  ELSE \E s \in snapshots :
         /\ s.list = p.list
         /\ IF p.offset = Nothing THEN p.got = s.items
            ELSE p.offset \in 1 .. Len(s.items) /\ p.got = SubSeq(s.items, 1, p.offset)

Consistent ==
  /\ Types /\ Exclusion /\ InsertedOnce
  /\ \A c \in Call : Seen(call[c]) /\ Unanswered(call[c])
  /\ Made /\ Answered
  /\ \A r \in Reader : Reading(reader[r])

-----------------------------------------------------------------------------
(* Listings.                                                               *)

\* Items with different keys can be put in the order of their keys.
LEMMA SortedExists ==
  ASSUME NEW items, IsFiniteSet(items), \A x \in items : x.key \in Nat,
         \A x, y \in items : x.key = y.key => x = y
  PROVE  \E s \in [1 .. Cardinality(items) -> items] :
           \A i, j \in DOMAIN s : i < j => s[i].key < s[j].key
<1> DEFINE n        == Cardinality(items)
           below(x) == {y \in items : y.key <= x.key}
           rank     == [x \in items |-> Cardinality(below(x))]
<1>1. n \in Nat
  BY FS_CardinalityType
<1>2. ASSUME NEW x \in items
      PROVE  /\ IsFiniteSet(below(x)) /\ Cardinality(below(x)) \in 1 .. n
             /\ below(x) \in SUBSET items
  <2>1. IsFiniteSet(below(x)) /\ Cardinality(below(x)) <= n /\ below(x) \in SUBSET items
    BY FS_Subset
  <2>2. below(x) # {}
    OBVIOUS
  <2> QED
    BY <1>1, <2>1, <2>2, FS_CardinalityType, FS_EmptySet
<1>3. ASSUME NEW x \in items, NEW y \in items, x.key < y.key
      PROVE  Cardinality(below(x)) < Cardinality(below(y))
  <2>1. below(x) \in SUBSET below(y)
    BY <1>3
  <2>2. below(x) # below(y)
    BY <1>3
  <2>3. Cardinality(below(x)) <= Cardinality(below(y)) /\ Cardinality(below(x)) # Cardinality(below(y))
    BY <1>2, <2>1, <2>2, FS_Subset
  <2>4. Cardinality(below(x)) \in Int /\ Cardinality(below(y)) \in Int
    BY <1>2, FS_CardinalityType
  <2> HIDE DEF below
  <2> QED
    BY <2>3, <2>4
<1>4. /\ \A x \in items : rank[x] \in 1 .. n
      /\ \A x, y \in items : x.key < y.key => rank[x] < rank[y]
  BY <1>2, <1>3
<1> HIDE DEF below
<1>5. rank \in [items -> 1 .. n]
  BY <1>4
<1> HIDE DEF rank
<1>6. ASSUME NEW x \in items, NEW y \in items, rank[x] = rank[y]
      PROVE  x = y
  <2>1. ~(x.key < y.key) /\ ~(y.key < x.key)
    BY <1>1, <1>4, <1>6
  <2> QED
    BY <2>1
<1>7. rank \in Injection(items, 1 .. n)
  BY <1>5, <1>6 DEF Injection, IsInjective
<1>8. IsFiniteSet(1 .. n) /\ Cardinality(1 .. n) = n
  BY <1>1, FS_Interval
<1>9. \A i \in 1 .. n : \E x \in items : rank[x] = i
  <2>1. IsFiniteSet(1 .. n) /\ Cardinality(items) = Cardinality(1 .. n)
    BY <1>8
  <2>2. rank \in Surjection(items, 1 .. n)
    BY <1>7, <2>1, FS_Injection
  <2> QED
    BY <2>2 DEF Surjection
<1> DEFINE s == [i \in 1 .. n |-> CHOOSE x \in items : rank[x] = i]
<1>10. \A i \in 1 .. n : s[i] \in items /\ rank[s[i]] = i
  BY <1>9
<1>11. s \in [1 .. n -> items]
  BY <1>10
<1> HIDE DEF s, n
<1>12. ASSUME NEW i \in 1 .. n, NEW j \in 1 .. n, i < j
       PROVE  s[i].key < s[j].key
  <2>1. s[i] \in items /\ s[j] \in items /\ s[i] # s[j]
    BY <1>10, <1>12
  <2>2. ~(s[j].key < s[i].key)
    BY <1>1, <1>4, <1>10, <1>12, <2>1
  <2> QED
    BY <2>1, <2>2
<1> QED
  BY <1>11, <1>12 DEF n

\* What the query selects: at most one item of each key.
LEMMA SelectedItems ==
  ASSUME NEW rows \in Seq(Row), NEW m
  PROVE  /\ IsFiniteSet(Selected(rows, m))
         /\ Selected(rows, m) \subseteq [key : Key, version : 1 .. Len(rows)]
         /\ \A x, y \in Selected(rows, m) : x.key = y.key => x = y
<1> DEFINE chosen == {i \in DOMAIN rows : /\ IsHead(rows, i) /\ rows[i].key \in m.prefix
                                          /\ (m.tombstones \/ rows[i].kind # "tombstone")}
           item == [i \in chosen |-> [key |-> rows[i].key, version |-> i]]
<1>1. DOMAIN rows = 1 .. Len(rows) /\ \A i \in 1 .. Len(rows) : rows[i] \in Row
  OBVIOUS
<1>2. Selected(rows, m) = {[key |-> rows[i].key, version |-> i] : i \in chosen}
  BY DEF Selected
<1>3. chosen \subseteq 1 .. Len(rows)
  BY <1>1
<1>4. \A i, j \in chosen : rows[i].key = rows[j].key => i = j
  BY <1>1 DEF IsHead, RowsOf
<1> HIDE DEF chosen
<1>5. IsFiniteSet(chosen)
  <2>1. IsFiniteSet(1 .. Len(rows))
    BY FS_Interval
  <2> QED
    BY <1>3, <2>1, FS_Subset
<1>6. item \in Surjection(chosen, Selected(rows, m))
  BY <1>2 DEF Surjection
<1>7. IsFiniteSet(Selected(rows, m))
  BY <1>5, <1>6, FS_Surjection
<1>8. Selected(rows, m) \subseteq [key : Key, version : 1 .. Len(rows)]
  BY <1>1, <1>2, <1>3 DEF Row
<1>9. \A x, y \in Selected(rows, m) : x.key = y.key => x = y
  BY <1>2, <1>4
<1> QED
  BY <1>7, <1>8, <1>9

\* A listing has exactly what the query selects, in the order of the keys.
LEMMA ListedInOrder ==
  ASSUME NEW rows \in Seq(Row), NEW m
  PROVE  LET s == Listed(rows, m)
         IN  /\ s \in Seq(Selected(rows, m)) /\ Len(s) = Cardinality(Selected(rows, m))
             /\ \A i, j \in 1 .. Len(s) : i < j => s[i].key < s[j].key
             /\ \A x \in Selected(rows, m) : \E i \in 1 .. Len(s) : s[i] = x
<1> DEFINE items == Selected(rows, m)
           n == Cardinality(items)
           s == Listed(rows, m)
<1>1. IsFiniteSet(items) /\ (\A x \in items : x.key \in Nat) /\ \A x, y \in items : x.key = y.key => x = y
  BY SelectedItems, BoundsAssumption DEF Key
<1> HIDE DEF items
<1>2. n \in Nat
  BY <1>1, FS_CardinalityType
<1>3. s = CHOOSE t \in [1 .. n -> items] : \A i, j \in DOMAIN t : i < j => t[i].key < t[j].key
  BY DEF Listed, items
<1>4. s \in [1 .. n -> items] /\ \A i, j \in DOMAIN s : i < j => s[i].key < s[j].key
  BY <1>1, <1>3, SortedExists
<1> HIDE DEF s, n
<1>5. s \in Seq(items) /\ Len(s) = n /\ DOMAIN s = 1 .. n
  BY <1>2, <1>4
<1>6. \A i, j \in 1 .. n : i < j => s[i] # s[j]
  BY <1>1, <1>4, <1>5
<1>7. s \in Injection(1 .. n, items)
  BY <1>2, <1>4, <1>6 DEF Injection, IsInjective
<1>8. Cardinality(1 .. n) = n
  BY <1>2, FS_Interval
<1>9. \A x \in items : \E i \in 1 .. n : s[i] = x
  <2>1. Cardinality(items) = Cardinality(1 .. n)
    BY <1>8 DEF n
  <2>2. s \in Surjection(1 .. n, items)
    BY <1>1, <1>7, <2>1, FS_Injection
  <2> QED
    BY <2>2 DEF Surjection
<1> QED
  BY <1>4, <1>5, <1>9 DEF items, n, s

-----------------------------------------------------------------------------
(* Pages.                                                                  *)

\* The smaller of two numbers.
LEMMA MinOfTwo == \A a, b \in Nat : Min({a, b}) = IF a <= b THEN a ELSE b
<1> SUFFICES ASSUME NEW a \in Nat, NEW b \in Nat
             PROVE  Min({a, b}) = IF a <= b THEN a ELSE b
  OBVIOUS
<1>1. Min({a, b}) = CHOOSE x \in {a, b} : \A y \in {a, b} : x <= y
  BY DEF Min
<1>2. \E x \in {a, b} : \A y \in {a, b} : x <= y
  OBVIOUS
<1> QED
  BY <1>1, <1>2

\* A page goes on where the pages before it ended.
LEMMA PageGoesOn ==
  ASSUME NEW T, NEW items \in Seq(T), NEW offset \in 0 .. Len(items), NEW limit \in Nat \ {0}
  PROVE  \E end \in offset .. Len(items) :
           /\ SubSeq(items, 1, offset) \o Page(items, offset, limit) = SubSeq(items, 1, end)
           /\ Page(items, offset, limit) \in Seq(T)
           /\ NextOffset(items, offset, limit) = IF end < Len(items) THEN end ELSE Nothing
           /\ end = IF offset + limit <= Len(items) THEN offset + limit ELSE Len(items)
<1> DEFINE e == IF offset + limit <= Len(items) THEN offset + limit ELSE Len(items)
<1>1. Len(items) \in Nat /\ offset + limit \in Nat
  BY LenProperties
<1>2. Min({offset + limit, Len(items)}) = e
  BY <1>1, MinOfTwo
<1>3. e \in offset .. Len(items) /\ e = IF offset + limit <= Len(items) THEN offset + limit ELSE Len(items)
  BY <1>1
<1>4. Page(items, offset, limit) = SubSeq(items, offset + 1, e)
  BY <1>2 DEF Page
<1> HIDE DEF e
<1>5. /\ SubSeq(items, offset + 1, e) \in Seq(T)
      /\ Len(SubSeq(items, offset + 1, e)) = e - offset
  BY <1>1, <1>3, SubSeqProperties
<1>6. SubSeq(items, 1, offset) \o SubSeq(items, offset + 1, e) = SubSeq(items, 1, e)
  <2>1. CASE offset = 0
    <3>1. SubSeq(items, 1, 0) = <<>>
      BY SubSeqEmpty
    <3> QED
      BY <1>5, <2>1, <3>1, ConcatEmptySeq
  <2>2. CASE offset # 0
    <3>1. offset \in 1 .. Len(items) /\ e \in offset .. Len(items)
      BY <1>3, <2>2
    <3> QED
      BY <3>1, ConcatAdjacentSubSeq
  <2> QED
    BY <2>1, <2>2
<1>7. NextOffset(items, offset, limit) = IF e < Len(items) THEN e ELSE Nothing
  BY <1>1, <1>3, <1>4, <1>5 DEF NextOffset
<1>8. SubSeq(items, 1, offset) \o Page(items, offset, limit) = SubSeq(items, 1, e)
      /\ Page(items, offset, limit) \in Seq(T)
  BY <1>4, <1>5, <1>6
<1> HIDE DEF e
<1> QED
  BY <1>3, <1>7, <1>8

\* The rows that a bucket had stay as they were.
LEMMA RowsGrow ==
  ASSUME NEW rows \in Seq(Row), NEW row \in Row, NEW n \in 0 .. Len(rows)
  PROVE  SubSeq(Append(rows, row), 1, n) = SubSeq(rows, 1, n)
<1>1. Append(rows, row) \in Seq(Row) /\ Len(Append(rows, row)) = Len(rows) + 1
      /\ \A i \in 1 .. Len(rows) : Append(rows, row)[i] = rows[i]
  BY AppendProperties
<1>2. /\ SubSeq(rows, 1, n) \in Seq(Row) /\ Len(SubSeq(rows, 1, n)) = n
      /\ \A i \in 1 .. n : SubSeq(rows, 1, n)[i] = rows[i]
  BY SubSeqProperties, LenProperties
<1>3. /\ SubSeq(Append(rows, row), 1, n) \in Seq(Row) /\ Len(SubSeq(Append(rows, row), 1, n)) = n
      /\ \A i \in 1 .. n : SubSeq(Append(rows, row), 1, n)[i] = Append(rows, row)[i]
  BY <1>1, SubSeqProperties, LenProperties
<1> QED
  BY <1>1, <1>2, <1>3, SeqEqual, LenProperties

-----------------------------------------------------------------------------
(* Executions.                                                             *)

\* Who holds a request by its state holds it by its record.
LEMMA HoldsSame == \A c \in Call : HoldsRequest(c) <=> Holds(call[c])
  BY DEF HoldsRequest, Holds

\* The record of an idle execution is in order.
LEMMA IdleInOrder ==
  /\ Idle \in CallState /\ Idle.pc = "idle" /\ Shape(Idle) /\ ~IsListing(Idle)
  /\ Seen(Idle) /\ ~Holds(Idle) /\ Unanswered(Idle)
  BY DEF Idle, CallState, PC, Shape, IsListing, Seen, Holds, Unanswered

\* The initial state is in order.
LEMMA InitConsistent == Init => Consistent
<1> SUFFICES ASSUME Init PROVE Consistent
  OBVIOUS
<1>1. \A b \in Bucket : versions[b] \in Seq(Row) /\ Len(versions[b]) <= MaxVersions
  BY BoundsAssumption DEF Init
<1>2. Away \in ReaderState
  BY DEF Away, ReaderState
<1>3. Types
  BY <1>1, <1>2, IdleInOrder DEF Init, Types
<1>4. Exclusion /\ InsertedOnce /\ \A c \in Call : Seen(call[c]) /\ Unanswered(call[c])
  BY IdleInOrder DEF Init, Exclusion, InsertedOnce
<1>5. Made /\ Answered
  BY DEF Init, Made, Answered
<1>6. \A r \in Reader : Reading(reader[r])
  BY DEF Init, Away, Reading
<1> QED
  BY <1>3, <1>4, <1>5, <1>6 DEF Consistent

\* What is known of the record of an execution.
LEMMA CallFacts ==
  ASSUME Consistent, NEW c \in Call
  PROVE  /\ call[c] \in CallState /\ Shape(call[c]) /\ Seen(call[c]) /\ Unanswered(call[c])
         /\ call[c].pc # "idle" =>
              /\ call[c].mut \in Mutation /\ call[c].mut.bucket \in Bucket
              /\ call[c].mut.kind \in {"bucket", "list"}
<1>1. call[c] \in CallState /\ Shape(call[c]) /\ Seen(call[c]) /\ Unanswered(call[c])
  BY DEF Consistent, Types
<1> QED
  BY <1>1, RequestAssumption DEF Shape

\* The record of one execution changes to one in order.
LEMMA CallTyped ==
  ASSUME Consistent, NEW c \in Call, NEW s \in CallState, Shape(s), call' = [call EXCEPT ![c] = s]
  PROVE  /\ call' \in [Call -> CallState] /\ \A e \in Call : Shape(call'[e])
         /\ \A e \in Call : call'[e] = IF e = c THEN s ELSE call[e]
  BY DEF Consistent, Types

\* Locks and inserted rows stay exclusive if a call takes only free ones.
LEMMA LocksKept ==
  ASSUME Consistent, NEW c \in Call, NEW s,
         \A e \in Call : call'[e] = IF e = c THEN s ELSE call[e],
         Holds(s) => \/ Holds(call[c]) /\ s.mut = call[c].mut
                     \/ RequestFree(s.mut),
         s.pc = "inserted" => \A d \in Call \ {c} : call[d].pc = "inserted" => call[d].mut.bucket # s.mut.bucket
  PROVE  Exclusion' /\ InsertedOnce'
<1>1. Exclusion /\ InsertedOnce
  BY DEF Consistent
<1>2. ASSUME NEW d \in Call \ {c}, Holds(s), Holds(call[d])
      PROVE  ~SameIdentity(s.mut, call[d].mut) /\ ~SameIdentity(call[d].mut, s.mut)
  <2>1. CASE Holds(call[c]) /\ s.mut = call[c].mut
    BY <1>1, <1>2, <2>1 DEF Exclusion
  <2>2. CASE RequestFree(s.mut)
    BY <1>2, <2>2, HoldsSame DEF RequestFree, SameIdentity
  <2> QED
    BY <1>2, <2>1, <2>2
<1>3. Exclusion'
  <2> SUFFICES ASSUME NEW d \in Call, NEW e \in Call, d # e, Holds(call'[d]), Holds(call'[e])
               PROVE  ~SameIdentity(call'[d].mut, call'[e].mut)
    BY DEF Exclusion, Holds, SameIdentity
  <2> QED
    BY <1>1, <1>2 DEF Exclusion
<1>4. InsertedOnce'
  BY <1>1 DEF InsertedOnce
<1> QED
  BY <1>3, <1>4

\* A step of one execution that changes no row.
LEMMA QuietStep ==
  ASSUME Consistent, NEW c \in Call, NEW s \in CallState, Shape(s), Seen(s), Unanswered(s),
         call' = [call EXCEPT ![c] = s], UNCHANGED <<buckets, receipts, versions, snapshots, reader>>,
         Holds(s) => \/ Holds(call[c]) /\ s.mut = call[c].mut
                     \/ RequestFree(s.mut),
         s.pc = "inserted" => \A d \in Call \ {c} : call[d].pc = "inserted" => call[d].mut.bucket # s.mut.bucket
  PROVE  Consistent'
<1>1. \A e \in Call : call'[e] = IF e = c THEN s ELSE call[e]
  BY CallTyped
<1>2. Types'
  BY CallTyped DEF Consistent, Types
<1>3. Exclusion' /\ InsertedOnce'
  BY <1>1, LocksKept
<1>4. ASSUME NEW e \in Call
      PROVE  Seen(call[e])' /\ Unanswered(call[e])'
  <2>1. Seen(call'[e]) /\ Unanswered(call'[e])
    BY <1>1, CallFacts
  <2> QED
    BY <2>1 DEF Seen, IsPast, Unanswered
<1>5. Made' /\ Answered' /\ \A r \in Reader : Reading(reader[r])'
  BY DEF Consistent, Made, Answered, Reading
<1> QED
  BY <1>2, <1>3, <1>4, <1>5 DEF Consistent

\* An execution that returns, and nothing else.
LEMMA ReturnStep ==
  ASSUME Consistent, NEW c \in Call, Return(c), UNCHANGED <<buckets, receipts, versions, snapshots, reader>>
  PROVE  Consistent'
<1>1. Idle.pc # "inserted"
  BY IdleInOrder
<1> QED
  BY <1>1, IdleInOrder, QuietStep DEF Return

\* The record of an execution whose label changes.
LEMMA GotoRecord ==
  ASSUME Consistent, NEW c \in Call, NEW label \in PC, Goto(c, label)
  PROVE  \E s \in CallState :
           /\ call' = [call EXCEPT ![c] = s] /\ s.pc = label
           /\ s.mut = call[c].mut /\ s.seen = call[c].seen
<1> DEFINE s == [call[c] EXCEPT !.pc = label]
<1>1. call[c] \in CallState
  BY CallFacts
<1>2. s \in CallState /\ s.pc = label /\ s.mut = call[c].mut /\ s.seen = call[c].seen
  BY <1>1 DEF CallState
<1>3. call' = [call EXCEPT ![c] = s]
  BY DEF Goto, Consistent, Types
<1> HIDE DEF s
<1> QED
  BY <1>2, <1>3

\* A step that changes only the label of an execution, which was not idle.
LEMMA LabelStep ==
  ASSUME Consistent, NEW c \in Call, NEW label \in PC, Goto(c, label),
         UNCHANGED <<buckets, receipts, versions, snapshots, reader>>,
         call[c].pc # "idle", label # "idle",
         label \in {"inserting", "inserted"} => call[c].mut.kind = "bucket",
         label \in {"working", "inserting", "inserted"} => Holds(call[c]) \/ RequestFree(call[c].mut),
         label \in {"working", "inserting", "inserted"} /\ call[c].mut.kind = "bucket" =>
           \A r \in receipts : ~SameIdentity(r, call[c].mut),
         label = "inserted" =>
           /\ call[c].mut.bucket \notin buckets
           /\ \A d \in Call \ {c} : call[d].pc = "inserted" => call[d].mut.bucket # call[c].mut.bucket
  PROVE  Consistent'
<1>1. PICK s \in CallState :
        /\ call' = [call EXCEPT ![c] = s] /\ s.pc = label
        /\ s.mut = call[c].mut /\ s.seen = call[c].seen
  BY GotoRecord
<1>2. Shape(call[c]) /\ Seen(call[c])
  BY CallFacts
<1>3. Shape(s) /\ Seen(s) /\ Unanswered(s)
  BY <1>1, <1>2 DEF Shape, Seen, IsListing, Unanswered, Holds
<1>4. Holds(s) => \/ Holds(call[c]) /\ s.mut = call[c].mut
                  \/ RequestFree(s.mut)
  BY <1>1 DEF Holds
<1> QED
  BY <1>1, <1>3, <1>4, QuietStep

-----------------------------------------------------------------------------
(* Steps of the executions.                                                *)

\* What is committed is a database, and a past of every bucket.
LEMMA CommittedSeen ==
  ASSUME Consistent
  PROVE  Committed \in Database /\ \A b \in Bucket : IsPast(Committed.versions[b], b)
<1>1. Committed \in Database /\ Committed.versions = versions
  BY DEF Committed, Database, Consistent, Types
<1>2. ASSUME NEW b \in Bucket
      PROVE  IsPast(versions[b], b)
  <2>1. versions[b] \in Seq(Row)
    BY DEF Consistent, Types
  <2>2. SubSeq(versions[b], 1, Len(versions[b])) = versions[b] /\ Len(versions[b]) \in Nat
    BY <2>1, SubSeqFull, LenProperties
  <2> QED
    BY <2>2 DEF IsPast
<1> QED
  BY <1>1, <1>2

\* An execution starts.
LEMMA StartStep ==
  ASSUME Consistent, NEW c \in Call, NEW m \in Mutation, Start(c, m)
  PROVE  Consistent'
<1> DEFINE s == [pc |-> "locking", mut |-> m, seen |-> IF m.kind = "list" THEN Committed ELSE Nothing]
<1>1. call' = [call EXCEPT ![c] = s] /\ UNCHANGED <<buckets, receipts, versions, snapshots, reader>>
  BY DEF Start
<1>2. s \in CallState /\ s.pc = "locking" /\ s.mut = m /\ (m.kind = "list" => s.seen = Committed)
  BY CommittedSeen DEF CallState, PC
<1> HIDE DEF s
<1>3. Shape(s) /\ Seen(s) /\ ~Holds(s) /\ Unanswered(s)
  BY <1>2, CommittedSeen DEF Shape, Seen, IsListing, Holds, Unanswered
<1> QED
  BY <1>1, <1>2, <1>3, QuietStep

\* The request lock is granted.
LEMMA LockStep ==
  ASSUME Consistent, NEW c \in Call, Lock(c)
  PROVE  Consistent'
<1>1. /\ call[c].pc = "locking" /\ RequestFree(call[c].mut)
      /\ UNCHANGED <<buckets, receipts, versions, snapshots, reader>>
  BY DEF Lock
<1>2. call[c].mut.kind \in {"bucket", "list"}
  BY <1>1, CallFacts
<1>3. CASE Return(c)
  BY <1>1, <1>3, ReturnStep
<1>4. CASE Goto(c, "working") /\ ~ \E r \in View(c).receipts : SameIdentity(r, call[c].mut)
  <2>1. call[c].mut.kind = "bucket" => \A r \in receipts : ~SameIdentity(r, call[c].mut)
    BY <1>4 DEF View, Committed
  <2>2. "working" \in PC
    BY DEF PC
  <2> QED
    BY <1>1, <1>4, <2>1, <2>2, LabelStep
<1> QED
  BY <1>3, <1>4 DEF Lock

\* createBucket looks for the name.
LEMMA SelectBucketStep ==
  ASSUME Consistent, NEW c \in Call, SelectBucket(c)
  PROVE  Consistent'
<1>1. /\ call[c].pc = "working" /\ call[c].mut.kind = "bucket"
      /\ UNCHANGED <<buckets, receipts, versions, snapshots, reader>>
  BY DEF SelectBucket
<1>2. Holds(call[c]) /\ \A r \in receipts : ~SameIdentity(r, call[c].mut)
  BY <1>1, CallFacts DEF Holds, Unanswered
<1>3. CASE Return(c)
  BY <1>1, <1>3, ReturnStep
<1>4. CASE Goto(c, "inserting")
  BY <1>1, <1>2, <1>4, LabelStep DEF PC
<1> QED
  BY <1>3, <1>4 DEF SelectBucket

\* The row of a bucket is inserted.
LEMMA InsertBucketStep ==
  ASSUME Consistent, NEW c \in Call, InsertBucket(c)
  PROVE  Consistent'
<1>1. /\ call[c].pc = "inserting"
      /\ \A d \in Call : call[d].pc = "inserted" => call[d].mut.bucket # call[c].mut.bucket
      /\ UNCHANGED <<buckets, receipts, versions, snapshots, reader>>
  BY DEF InsertBucket
<1>2. /\ call[c].mut.kind = "bucket" /\ Holds(call[c])
      /\ \A r \in receipts : ~SameIdentity(r, call[c].mut)
  BY <1>1, CallFacts DEF Shape, Holds, Unanswered
<1>3. CASE Goto(c, "failed")
  BY <1>1, <1>3, LabelStep DEF PC
<1>4. CASE Goto(c, "inserted") /\ ~Taken(call[c].mut.bucket)
  BY <1>1, <1>2, <1>4, LabelStep DEF PC, Taken
<1> QED
  BY <1>3, <1>4 DEF InsertBucket

\* Its transaction commits.
LEMMA CommitBucketStep ==
  ASSUME Consistent, NEW c \in Call, CommitBucket(c)
  PROVE  Consistent'
<1> DEFINE m == call[c].mut
<1>1. /\ call[c].pc = "inserted" /\ buckets' = buckets \cup {m.bucket} /\ receipts' = receipts \cup {m}
      /\ call' = [call EXCEPT ![c] = Idle] /\ UNCHANGED <<versions, snapshots, reader>>
  BY DEF CommitBucket, Return
<1>2. /\ m \in Mutation /\ m.bucket \in Bucket /\ m.kind = "bucket" /\ Holds(call[c])
      /\ m.bucket \notin buckets /\ \A r \in receipts : ~SameIdentity(r, m)
  BY <1>1, CallFacts DEF Shape, Holds, Unanswered
<1>3. \A e \in Call : call'[e] = IF e = c THEN Idle ELSE call[e]
  BY <1>1, IdleInOrder, CallTyped
<1>4. Types'
  BY <1>1, <1>2, IdleInOrder, CallTyped DEF Consistent, Types
<1>5. Exclusion' /\ InsertedOnce'
  <2>1. ~Holds(Idle) /\ Idle.pc # "inserted"
    BY IdleInOrder
  <2> QED
    BY <1>3, <2>1, LocksKept
<1>6. ASSUME NEW e \in Call
      PROVE  Seen(call[e])' /\ Unanswered(call[e])'
  <2>1. CASE e = c
    BY <1>3, <2>1, IdleInOrder DEF Seen, Unanswered
  <2>2. CASE e # c
    <3>1. call'[e] = call[e] /\ Seen(call[e]) /\ Unanswered(call[e])
      BY <1>3, <2>2, CallFacts
    <3>2. Holds(call[e]) => ~SameIdentity(m, call[e].mut)
      BY <1>2, <2>2 DEF Consistent, Exclusion
    <3>3. call[e].pc = "inserted" => call[e].mut.bucket # m.bucket
      BY <1>1, <2>2 DEF Consistent, InsertedOnce
    <3>4. Seen(call[e])'
      BY <1>1, <3>1 DEF Seen, IsPast
    <3>5. Unanswered(call[e])'
      BY <1>1, <3>1, <3>2, <3>3 DEF Unanswered
    <3> QED
      BY <3>4, <3>5
  <2> QED
    BY <2>1, <2>2
<1>7. Made'
  BY <1>1, <1>2 DEF Consistent, Made
<1>8. Answered'
  <2>1. \A r \in receipts : ~SameIdentity(m, r)
    BY <1>2 DEF SameIdentity
  <2>2. \A q, r \in receipts' : SameIdentity(q, r) => q = r
    BY <1>1, <1>2, <2>1 DEF Consistent, Answered
  <2> HIDE DEF m
  <2>3. (\A q, r \in receipts : SameIdentity(q, r) => q = r)'
    BY <2>2 DEF SameIdentity
  <2> QED
    BY <1>1, <1>2, <2>3 DEF Consistent, Answered
<1>9. \A r \in Reader : Reading(reader[r])'
  BY <1>1 DEF Consistent, Reading
<1> QED
  BY <1>4, <1>5, <1>6, <1>7, <1>8, <1>9 DEF Consistent

\* What is listed of a past of a bucket is a sequence of items.
LEMMA PastListed ==
  ASSUME Consistent, NEW b \in Bucket, NEW m, NEW n \in 0 .. Len(versions[b])
  PROVE  Listed(SubSeq(versions[b], 1, n), m) \in Seq(Item)
<1> DEFINE rows == SubSeq(versions[b], 1, n)
           s == Listed(rows, m)
<1>1. versions[b] \in Seq(Row) /\ Len(versions[b]) <= MaxVersions /\ Len(versions[b]) \in Nat
  BY LenProperties DEF Consistent, Types
<1>2. rows \in Seq(Row) /\ Len(rows) = n
  BY <1>1, SubSeqProperties
<1> HIDE DEF rows
<1>3. s \in Seq(Selected(rows, m)) /\ Selected(rows, m) \subseteq [key : Key, version : 1 .. Len(rows)]
  BY <1>2, ListedInOrder, SelectedItems
<1>4. [key : Key, version : 1 .. Len(rows)] \subseteq Item
  BY <1>1, <1>2, BoundsAssumption DEF Item
<1> HIDE DEF s
<1>5. s \in Seq(Item)
  BY <1>3, <1>4
<1> QED
  BY <1>5 DEF s, rows

\* A snapshot and its receipt are inserted.
LEMMA SnapshotInserted ==
  ASSUME Consistent, NEW c \in Call, call[c].pc = "working", call[c].mut.kind = "list",
         ~Duplicate(call[c].mut),
         NEW items, items = Listed(View(c).versions[call[c].mut.bucket], call[c].mut), Fits(items),
         snapshots' = snapshots \cup {[list |-> call[c].mut, items |-> items]},
         receipts' = receipts \cup {call[c].mut},
         Return(c), UNCHANGED <<buckets, versions, reader>>
  PROVE  Consistent'
<1> DEFINE m == call[c].mut
           new == [list |-> m, items |-> items]
<1>1. /\ m \in Mutation /\ m.bucket \in Bucket /\ m.kind = "list" /\ Holds(call[c])
      /\ IsListing(call[c]) /\ Seen(call[c])
  BY CallFacts DEF Holds, IsListing
<1>2. PICK n \in 0 .. Len(versions[m.bucket]) : View(c).versions[m.bucket] = SubSeq(versions[m.bucket], 1, n)
  BY <1>1 DEF View, Seen, IsPast
<1>3. items = Listed(SubSeq(versions[m.bucket], 1, n), m)
  BY <1>2
<1>4. items \in Seq(Item) /\ Len(items) <= MaxItems
  BY <1>1, <1>3, PastListed DEF Fits
<1>5. new \in Snapshot /\ new.list = m /\ new.items = items
  BY <1>1, <1>4 DEF Snapshot
<1>6. (\A s \in snapshots : s.list # m) /\ (\A r \in receipts : ~SameIdentity(r, m))
  BY DEF Duplicate
<1>7. snapshots' = snapshots \cup {new} /\ receipts' = receipts \cup {m} /\ call' = [call EXCEPT ![c] = Idle]
  BY DEF Return
<1> HIDE DEF new
<1>8. \A e \in Call : call'[e] = IF e = c THEN Idle ELSE call[e]
  BY <1>7, IdleInOrder, CallTyped
<1>9. Types'
  BY <1>1, <1>5, <1>7, IdleInOrder, CallTyped DEF Consistent, Types
<1>10. Exclusion' /\ InsertedOnce'
  <2>1. ~Holds(Idle) /\ Idle.pc # "inserted"
    BY IdleInOrder
  <2> QED
    BY <1>8, <2>1, LocksKept
<1>11. ASSUME NEW e \in Call
       PROVE  Seen(call[e])' /\ Unanswered(call[e])'
  <2>1. Seen(call'[e]) /\ Unanswered(call'[e])
    BY <1>8, IdleInOrder, CallFacts
  <2>2. Seen(call[e])'
    BY <2>1 DEF Seen, IsPast
  <2>3. \A r \in receipts' \ receipts : r.kind = "list"
    BY <1>1, <1>7
  <2>4. Unanswered(call[e])'
    BY <2>1, <2>3 DEF Unanswered, SameIdentity
  <2> QED
    BY <2>2, <2>4
<1>12. Made'
  BY <1>1, <1>7 DEF Consistent, Made
<1>13. Answered'
  <2>1. \A q, r \in receipts' : SameIdentity(q, r) => q = r
    <3>1. \A r \in receipts : ~SameIdentity(m, r)
      BY <1>6 DEF SameIdentity
    <3> HIDE DEF m
    <3> QED
      BY <1>6, <1>7, <3>1 DEF Consistent, Answered
  <2>2. (\A q, r \in receipts : SameIdentity(q, r) => q = r)'
    BY <2>1 DEF SameIdentity
  <2>3. \A s \in snapshots' :
          \E k \in 0 .. Len(versions[s.list.bucket]) :
            s.items = Listed(SubSeq(versions[s.list.bucket], 1, k), s.list)
    BY <1>3, <1>5, <1>7 DEF Consistent, Answered
  <2> HIDE DEF m
  <2>4. (\A r \in receipts' : r.kind = "list" => \E s \in snapshots' : s.list = r)
    BY <1>5, <1>7 DEF Consistent, Answered
  <2>5. (\A s \in snapshots' : s.list \in receipts' /\ s.list.kind = "list")
    BY <1>1, <1>5, <1>7 DEF Consistent, Answered
  <2>6. \A s, t \in snapshots' : s.list = t.list => s = t
    BY <1>5, <1>6, <1>7 DEF Consistent, Answered
  <2> QED
    BY <2>2, <2>3, <2>4, <2>5, <2>6 DEF Answered
<1>14. ASSUME NEW r \in Reader
       PROVE  Reading(reader[r])'
  <2>1. Reading(reader[r])
    BY DEF Consistent
  <2> QED
    BY <1>7, <2>1 DEF Reading
<1> QED
  BY <1>9, <1>10, <1>11, <1>12, <1>13, <1>14 DEF Consistent

\* createListSnapshot goes through.
LEMMA MaterializeStep ==
  ASSUME Consistent, NEW c \in Call, Materialize(c)
  PROVE  Consistent'
<1> DEFINE m == call[c].mut
           items == Listed(View(c).versions[m.bucket], m)
<1>1. call[c].pc = "working" /\ m.kind = "list" /\ UNCHANGED <<buckets, versions, reader>>
  BY DEF Materialize
<1>2. CASE Return(c) /\ UNCHANGED <<snapshots, receipts>>
  BY <1>1, <1>2, ReturnStep
<1>3. CASE Goto(c, "failed") /\ UNCHANGED <<snapshots, receipts>>
  BY <1>1, <1>3, LabelStep DEF PC
<1>4. CASE /\ Fits(items) /\ ~Duplicate(m)
           /\ snapshots' = snapshots \cup {[list |-> m, items |-> items]}
           /\ receipts' = receipts \cup {m}
           /\ Return(c)
  BY <1>1, <1>4, SnapshotInserted
<1> QED
  BY <1>2, <1>3, <1>4 DEF Materialize

\* An execution answers with an error, or ends without an answer.
LEMMA EndStep ==
  ASSUME Consistent, NEW c \in Call, AnswerError(c) \/ Abort(c)
  PROVE  Consistent'
  BY ReturnStep DEF AnswerError, Abort

-----------------------------------------------------------------------------
(* Steps of the writers and of the clients.                                *)

\* A past of a bucket stays one when a row is committed.
LEMMA PastStays ==
  ASSUME Consistent, NEW b \in Bucket, NEW row \in Row, Write(b, row),
         NEW d \in Bucket, NEW n \in 0 .. Len(versions[d])
  PROVE  n \in 0 .. Len(versions'[d]) /\ SubSeq(versions'[d], 1, n) = SubSeq(versions[d], 1, n)
<1>1. versions[b] \in Seq(Row) /\ versions \in [Bucket -> Seq(Row)]
  BY DEF Consistent, Types
<1>2. versions' = [versions EXCEPT ![b] = Append(versions[b], row)]
  BY DEF Write
<1>3. CASE d = b
  <2>1. versions'[d] = Append(versions[d], row)
    BY <1>1, <1>2, <1>3
  <2>2. Len(versions'[d]) = Len(versions[d]) + 1 /\ Len(versions[d]) \in Nat
    BY <1>1, <1>3, <2>1, AppendProperties, LenProperties
  <2>3. SubSeq(Append(versions[d], row), 1, n) = SubSeq(versions[d], 1, n)
    BY <1>1, <1>3, RowsGrow
  <2> QED
    BY <2>1, <2>2, <2>3
<1>4. CASE d # b
  BY <1>1, <1>2, <1>4
<1> QED
  BY <1>3, <1>4

\* A PUT or a DELETE commits.
LEMMA WriteStep ==
  ASSUME Consistent, NEW b \in Bucket, NEW row \in Row, Write(b, row)
  PROVE  Consistent'
<1>1. /\ Len(versions[b]) < MaxVersions /\ versions' = [versions EXCEPT ![b] = Append(versions[b], row)]
      /\ UNCHANGED <<buckets, receipts, snapshots, call, reader>>
  BY DEF Write
<1>2. \A d \in Bucket : versions'[d] \in Seq(Row) /\ Len(versions'[d]) <= MaxVersions
  <2> SUFFICES ASSUME NEW d \in Bucket
               PROVE  versions'[d] \in Seq(Row) /\ Len(versions'[d]) <= MaxVersions
    OBVIOUS
  <2>1. /\ versions \in [Bucket -> Seq(Row)] /\ versions[b] \in Seq(Row)
        /\ versions[d] \in Seq(Row) /\ Len(versions[d]) <= MaxVersions /\ Len(versions[b]) \in Nat
    BY LenProperties DEF Consistent, Types
  <2>2. Append(versions[b], row) \in Seq(Row) /\ Len(Append(versions[b], row)) = Len(versions[b]) + 1
    BY <2>1, AppendProperties
  <2>3. versions'[d] = IF d = b THEN Append(versions[b], row) ELSE versions[d]
    BY <1>1, <2>1
  <2> QED
    BY <1>1, <2>1, <2>2, <2>3, BoundsAssumption
<1>3. Types'
  <2>1. versions' \in [Bucket -> Seq(Row)]
    BY <1>1, <1>2 DEF Consistent, Types
  <2> QED
    BY <1>1, <1>2, <2>1 DEF Consistent, Types
<1>4. Exclusion' /\ InsertedOnce' /\ Made'
  BY <1>1 DEF Consistent, Exclusion, InsertedOnce, Made
<1>5. ASSUME NEW c \in Call
      PROVE  Seen(call[c])' /\ Unanswered(call[c])'
  <2>1. Seen(call[c]) /\ Unanswered(call[c])
    BY CallFacts
  <2>2. ASSUME NEW d \in Bucket, IsPast(call[c].seen.versions[d], d)
        PROVE  \E n \in 0 .. Len(versions'[d]) : call[c].seen.versions[d] = SubSeq(versions'[d], 1, n)
    BY <2>2, PastStays DEF IsPast
  <2>3. Seen(call[c])'
    BY <1>1, <2>1, <2>2 DEF Seen, IsPast
  <2>4. Unanswered(call[c])'
    BY <1>1, <2>1 DEF Unanswered
  <2> QED
    BY <2>3, <2>4
<1>6. Answered'
  <2>1. ASSUME NEW s \in snapshots
        PROVE  \E n \in 0 .. Len(versions'[s.list.bucket]) :
                 s.items = Listed(SubSeq(versions'[s.list.bucket], 1, n), s.list)
    <3>1. s.list.bucket \in Bucket
      BY RequestAssumption DEF Consistent, Types, Snapshot
    <3>2. PICK n \in 0 .. Len(versions[s.list.bucket]) :
            s.items = Listed(SubSeq(versions[s.list.bucket], 1, n), s.list)
      BY DEF Consistent, Answered
    <3> QED
      BY <3>1, <3>2, PastStays
  <2> QED
    BY <1>1, <2>1 DEF Consistent, Answered
<1>7. \A r \in Reader : Reading(reader[r])'
  BY <1>1 DEF Consistent, Reading
<1> QED
  BY <1>3, <1>4, <1>5, <1>6, <1>7 DEF Consistent

\* A step of one client.
LEMMA ClientStep ==
  ASSUME Consistent, NEW r \in Reader, NEW p \in ReaderState, Reading(p),
         reader' = [reader EXCEPT ![r] = p],
         UNCHANGED <<buckets, receipts, versions, snapshots, call>>
  PROVE  Consistent'
<1>1. \A q \in Reader : reader'[q] = IF q = r THEN p ELSE reader[q]
  BY DEF Consistent, Types
<1>2. Types'
  BY DEF Consistent, Types
<1>3. Exclusion' /\ InsertedOnce' /\ Made' /\ Answered'
  BY DEF Consistent, Exclusion, InsertedOnce, Made, Answered
<1>4. \A c \in Call : Seen(call[c])' /\ Unanswered(call[c])'
  BY DEF Consistent, Seen, IsPast, Unanswered
<1>5. ASSUME NEW q \in Reader
      PROVE  Reading(reader[q])'
  <2>1. Reading(reader'[q])
    BY <1>1 DEF Consistent
  <2> QED
    BY <2>1 DEF Reading
<1> QED
  BY <1>2, <1>3, <1>4, <1>5 DEF Consistent

\* The record of a client whose pages and offset change.
LEMMA ReaderMoves ==
  ASSUME NEW p \in ReaderState, NEW pages, NEW next
  PROVE  [p EXCEPT !.got = pages, !.offset = next] = [list |-> p.list, got |-> pages, offset |-> next]
<1>1. [p EXCEPT !.got = pages, !.offset = next]
        = [f \in DOMAIN p |-> IF f = "got" THEN pages ELSE IF f = "offset" THEN next ELSE p[f]]
  BY DEF ReaderState
<1> QED
  BY <1>1 DEF ReaderState

\* What a client has of a snapshot after a page of it.
LEMMA PageRead ==
  ASSUME Consistent, NEW s \in snapshots, NEW offset \in 0 .. Len(s.items), NEW limit \in Nat \ {0},
         NEW p, p.list = s.list,
         p.got = SubSeq(s.items, 1, offset) \o Page(s.items, offset, limit),
         p.offset = NextOffset(s.items, offset, limit),
         p = [list |-> p.list, got |-> p.got, offset |-> p.offset]
  PROVE  p \in ReaderState /\ Reading(p)
<1>1. /\ s.list \in Mutation /\ s.items \in Seq(Item) /\ Len(s.items) <= MaxItems /\ Len(s.items) \in Nat
  BY LenProperties DEF Consistent, Types, Snapshot
<1>2. PICK end \in offset .. Len(s.items) :
        /\ p.got = SubSeq(s.items, 1, end)
        /\ p.offset = (IF end < Len(s.items) THEN end ELSE Nothing)
        /\ end = IF offset + limit <= Len(s.items) THEN offset + limit ELSE Len(s.items)
  <2>1. PICK e \in offset .. Len(s.items) :
          /\ SubSeq(s.items, 1, offset) \o Page(s.items, offset, limit) = SubSeq(s.items, 1, e)
          /\ NextOffset(s.items, offset, limit) = (IF e < Len(s.items) THEN e ELSE Nothing)
          /\ e = IF offset + limit <= Len(s.items) THEN offset + limit ELSE Len(s.items)
    BY <1>1, PageGoesOn
  <2> QED
    BY <2>1
<1>3. SubSeq(s.items, 1, end) \in Seq(Item) /\ (end = Len(s.items) => SubSeq(s.items, 1, end) = s.items)
  BY <1>1, <1>2, SubSeqProperties, SubSeqFull
<1>4. end \in Nat /\ (end < Len(s.items) => end \in 1 .. Len(s.items) /\ end \in 0 .. MaxItems)
      /\ (~(end < Len(s.items)) => end = Len(s.items))
  BY <1>1, <1>2, BoundsAssumption
<1>5. p \in ReaderState
  BY <1>1, <1>2, <1>3, <1>4 DEF ReaderState
<1>6. Reading(p)
  BY <1>1, <1>2, <1>3, <1>4, RequestAssumption DEF Reading
<1> QED
  BY <1>5, <1>6

\* A client has the first page of a snapshot.
LEMMA OpenStep ==
  ASSUME Consistent, NEW r \in Reader, NEW s \in snapshots, Open(r, s)
  PROVE  Consistent'
<1> DEFINE p == [list |-> s.list, got |-> Page(s.items, 0, FirstPage),
                 offset |-> IF Len(s.items) > FirstPage THEN FirstPage ELSE Nothing]
<1>1. reader' = [reader EXCEPT ![r] = p] /\ UNCHANGED <<buckets, receipts, versions, snapshots, call>>
  BY DEF Open
<1>2. s.items \in Seq(Item) /\ Len(s.items) \in Nat
  BY LenProperties DEF Consistent, Types, Snapshot
<1>3. PICK end \in 0 .. Len(s.items) :
        /\ SubSeq(s.items, 1, 0) \o Page(s.items, 0, FirstPage) = SubSeq(s.items, 1, end)
        /\ Page(s.items, 0, FirstPage) \in Seq(Item)
        /\ NextOffset(s.items, 0, FirstPage) = (IF end < Len(s.items) THEN end ELSE Nothing)
        /\ end = IF 0 + FirstPage <= Len(s.items) THEN 0 + FirstPage ELSE Len(s.items)
  BY <1>2, BoundsAssumption, PageGoesOn
<1>4. SubSeq(s.items, 1, 0) \o Page(s.items, 0, FirstPage) = Page(s.items, 0, FirstPage)
  <2>1. SubSeq(s.items, 1, 0) = <<>>
    BY <1>2, SubSeqEmpty
  <2> QED
    BY <1>3, <2>1, ConcatEmptySeq
<1>5. NextOffset(s.items, 0, FirstPage) = IF Len(s.items) > FirstPage THEN FirstPage ELSE Nothing
  BY <1>2, <1>3, BoundsAssumption
<1>6. /\ p.list = s.list /\ p.offset = NextOffset(s.items, 0, FirstPage)
      /\ p.got = SubSeq(s.items, 1, 0) \o Page(s.items, 0, FirstPage)
      /\ p = [list |-> p.list, got |-> p.got, offset |-> p.offset]
  BY <1>4, <1>5
<1> HIDE DEF p
<1>7. 0 \in 0 .. Len(s.items) /\ FirstPage \in Nat \ {0}
  BY <1>2, BoundsAssumption
<1>8. p \in ReaderState /\ Reading(p)
  BY <1>6, <1>7, PageRead
<1> QED
  BY <1>1, <1>8, ClientStep

\* A client has the next page.
LEMMA GetPageStep ==
  ASSUME Consistent, NEW r \in Reader, GetPage(r)
  PROVE  Consistent'
<1>1. reader[r].offset # Nothing /\ UNCHANGED <<buckets, receipts, versions, snapshots, call>>
  BY DEF GetPage
<1>2. PICK s \in snapshots, limit \in Limit :
        /\ s.list = reader[r].list
        /\ reader' = [reader EXCEPT
             ![r].got    = @ \o Page(s.items, reader[r].offset, limit),
             ![r].offset = NextOffset(s.items, @, limit)]
  BY DEF GetPage, StoredItems
<1> DEFINE old == reader[r]
           p == [list |-> old.list, got |-> old.got \o Page(s.items, old.offset, limit),
                 offset |-> NextOffset(s.items, old.offset, limit)]
<1>3. old \in ReaderState /\ Reading(old) /\ s.list # Nothing
  BY RequestAssumption DEF Consistent, Types, Snapshot
<1>4. old.offset \in 1 .. Len(s.items) /\ old.got = SubSeq(s.items, 1, old.offset)
  BY <1>1, <1>2, <1>3 DEF Reading, Consistent, Answered
<1>5. reader' = [reader EXCEPT ![r] = p]
  <2> DEFINE more == old.got \o Page(s.items, old.offset, limit)
             next == NextOffset(s.items, old.offset, limit)
  <2>1. reader' = [reader EXCEPT ![r] = [old EXCEPT !.got = more, !.offset = next]]
    BY <1>2 DEF Consistent, Types
  <2>2. [old EXCEPT !.got = more, !.offset = next] = p
    BY <1>3, ReaderMoves
  <2> QED
    BY <2>1, <2>2
<1>6. /\ p.list = s.list /\ p.offset = NextOffset(s.items, old.offset, limit)
      /\ p.got = SubSeq(s.items, 1, old.offset) \o Page(s.items, old.offset, limit)
      /\ p = [list |-> p.list, got |-> p.got, offset |-> p.offset]
  BY <1>2, <1>4
<1>7. old.offset \in 0 .. Len(s.items) /\ limit \in Nat \ {0}
  BY <1>4, BoundsAssumption
<1> HIDE DEF p, old
<1>8. p \in ReaderState /\ Reading(p)
  BY <1>6, <1>7, PageRead
<1> QED
  BY <1>1, <1>5, <1>8, ClientStep

\* A client has read to the end.
LEMMA CloseStep ==
  ASSUME Consistent, NEW r \in Reader, Close(r)
  PROVE  Consistent'
<1>1. Away \in ReaderState /\ Reading(Away)
  BY DEF Away, ReaderState, Reading
<1> QED
  BY <1>1, ClientStep DEF Close

-----------------------------------------------------------------------------
(* The theorems.                                                           *)

\* Every step of the system keeps it in order.
LEMMA NextConsistent == Consistent /\ [Next]_vars => Consistent'
<1> SUFFICES ASSUME Consistent, [Next]_vars PROVE Consistent'
  OBVIOUS
<1>1. CASE \E c \in Call : Step(c)
  BY <1>1, LockStep, SelectBucketStep, InsertBucketStep, CommitBucketStep, MaterializeStep, EndStep DEF Step
<1>2. CASE \E c \in Call : Abort(c) \/ \E m \in Mutation : Start(c, m)
  BY <1>2, EndStep, StartStep
<1>3. CASE \E b \in Bucket, row \in Row : Write(b, row)
  BY <1>3, WriteStep
<1>4. CASE \E r \in Reader : GetPage(r) \/ Close(r) \/ \E s \in snapshots : Open(r, s)
  BY <1>4, GetPageStep, CloseStep, OpenStep
<1>5. CASE UNCHANGED vars
  <2>1. UNCHANGED <<buckets, receipts, versions, snapshots, reader>> /\ call' = call
    BY <1>5 DEF vars
  <2>2. Types' /\ Exclusion' /\ InsertedOnce' /\ Made' /\ Answered'
    BY <2>1 DEF Consistent, Types, Exclusion, InsertedOnce, Made, Answered
  <2>3. \A c \in Call : Seen(call[c])' /\ Unanswered(call[c])'
    BY <2>1 DEF Consistent, Seen, IsPast, Unanswered
  <2>4. \A r \in Reader : Reading(reader[r])'
    BY <2>1 DEF Consistent, Reading
  <2> QED
    BY <2>2, <2>3, <2>4 DEF Consistent
<1> QED
  BY <1>1, <1>2, <1>3, <1>4, <1>5 DEF Next

\* A database that is in order has its types.
LEMMA ConsistentTypes == Consistent => TypeOK
<1> SUFFICES ASSUME Consistent PROVE TypeOK
  OBVIOUS
<1>1. \A c \in Call : /\ call[c].pc \in PC /\ call[c].mut \in Mutation \cup {Nothing}
                      /\ call[c].seen \in Database \cup {Nothing}
  BY CallFacts DEF CallState
<1>2. \A s \in snapshots : s.list \in Mutation /\ s.items \in Seq(Item) /\ Len(s.items) <= MaxItems
  BY DEF Consistent, Types, Snapshot
<1>3. \A r \in Reader : /\ reader[r].list \in Mutation \cup {Nothing}
                        /\ reader[r].got \in Seq(Item)
                        /\ reader[r].offset \in 0 .. MaxItems \cup {Nothing}
  BY DEF Consistent, Types, ReaderState
<1> QED
  BY <1>1, <1>2, <1>3 DEF TypeOK, Consistent, Types

\* In a database that is in order every bucket has one maker.
LEMMA ConsistentBuckets == Consistent => BucketMadeOnce
<1> SUFFICES ASSUME Consistent, NEW b \in Bucket
             PROVE  LET makers == {m \in receipts : m.kind = "bucket" /\ m.bucket = b}
                    IN  IF b \in buckets THEN \E m \in makers : makers = {m} ELSE makers = {}
  BY DEF BucketMadeOnce
<1>1. Made
  BY DEF Consistent
<1>2. CASE b \in buckets
  <2>1. PICK m \in receipts : m.kind = "bucket" /\ m.bucket = b
    BY <1>1, <1>2 DEF Made
  <2>2. \A n \in receipts : n.kind = "bucket" /\ n.bucket = b => n = m
    BY <1>1, <2>1 DEF Made
  <2> QED
    BY <1>2, <2>1, <2>2
<1>3. CASE b \notin buckets
  BY <1>1, <1>3 DEF Made
<1> QED
  BY <1>2, <1>3

\* In a database that is in order every answered listing has one snapshot.
LEMMA ConsistentSnapshots == Consistent => SnapshotPerReceipt
<1> SUFFICES ASSUME Consistent PROVE SnapshotPerReceipt
  OBVIOUS
<1>1. Answered
  BY DEF Consistent
<1>2. ASSUME NEW m \in Mutation, m.kind = "list"
      PROVE  LET made == {s \in snapshots : s.list = m}
             IN  IF m \in receipts THEN \E s \in made : made = {s} ELSE made = {}
  <2>1. CASE m \in receipts
    <3>1. PICK s \in snapshots : s.list = m
      BY <1>1, <1>2, <2>1 DEF Answered
    <3>2. \A t \in snapshots : t.list = m => t = s
      BY <1>1, <3>1 DEF Answered
    <3> QED
      BY <2>1, <3>1, <3>2
  <2>2. CASE m \notin receipts
    BY <1>1, <2>2 DEF Answered
  <2> QED
    BY <2>1, <2>2
<1> QED
  BY <1>1, <1>2 DEF SnapshotPerReceipt, Answered

\* In a database that is in order, who has read to the end has one moment.
LEMMA ConsistentReaders == Consistent => ReaderSeesOneMoment
<1> SUFFICES ASSUME Consistent, NEW r \in Reader, reader[r].list # Nothing, reader[r].offset = Nothing
             PROVE  \E n \in 0 .. Len(versions[reader[r].list.bucket]) :
                      reader[r].got = Listed(SubSeq(versions[reader[r].list.bucket], 1, n), reader[r].list)
  BY DEF ReaderSeesOneMoment
<1>1. PICK s \in snapshots : s.list = reader[r].list /\ reader[r].got = s.items
  BY DEF Consistent, Reading
<1>2. \E n \in 0 .. Len(versions[s.list.bucket]) :
        s.items = Listed(SubSeq(versions[s.list.bucket], 1, n), s.list)
  BY DEF Consistent, Answered
<1> QED
  BY <1>1, <1>2

\* The locks, the receipts and the snapshots are in order in every reachable
\* state of createBucket, createListSnapshot and getListPage.
THEOREM ListsConsistent == Spec => []Consistent
<1> QED
  BY InitConsistent, NextConsistent, PTL DEF Spec

\* Every row, execution and client stays in its domain, with at most
\* MAX_LIST_ITEMS items to a snapshot.
THEOREM ListTypes == Spec => []TypeOK
  BY ListsConsistent, ConsistentTypes, PTL

\* However many requests find a name free, one creates the bucket, and none
\* but that one has a receipt for it.
THEOREM BucketsMadeOnce == Spec => []BucketMadeOnce
  BY ListsConsistent, ConsistentBuckets, PTL

\* A listing has one snapshot exactly when it has its receipt, and an identity
\* has one receipt, whatever views its executions work on.
THEOREM SnapshotsPerReceipt == Spec => []SnapshotPerReceipt
  BY ListsConsistent, ConsistentSnapshots, PTL

\* The pages that a client read to the end are together the listing of one
\* moment of the bucket, whatever is committed between them.
THEOREM ReadersSeeOneMoment == Spec => []ReaderSeesOneMoment
  BY ListsConsistent, ConsistentReaders, PTL
=============================================================================
