---------------------------- MODULE ListSnapshot ----------------------------
(***************************************************************************)
(* Buckets and list snapshots: createBucket, createListSnapshot and        *)
(* getListPage, with the PUTs and DELETEs that commit in between.          *)
(*                                                                         *)
(* createBucket runs READ COMMITTED: each statement sees what is committed *)
(* when it starts.  createListSnapshot runs REPEATABLE READ: all its       *)
(* statements see the database of its first one, which is the statement    *)
(* that waits for the request lock.  Unique indexes are checked against    *)
(* what is committed in either case.                                       *)
(***************************************************************************)
EXTENDS Naturals, Sequences, FiniteSets, FiniteSetsExt

CONSTANTS
  Call,        \* executions of mutations
  Reader,      \* clients that read the pages of a snapshot
  Mutation,    \* the requests that clients send
  Bucket,      \* bucket names
  KeyCount,    \* object keys are 1 .. KeyCount in their bytewise order
  Nothing,     \* no mutation; no next offset (null)
  FirstPage,   \* items in the answer to createListSnapshot
  Limit,       \* page sizes that clients ask for
  MaxItems,    \* MAX_LIST_ITEMS
  MaxVersions  \* bound of the versions of a bucket

Key == 1 .. KeyCount

ASSUME BoundsAssumption ==
  /\ KeyCount \in Nat /\ MaxItems \in Nat /\ MaxVersions \in Nat
  /\ FirstPage \in Nat \ {0} /\ Limit \subseteq Nat \ {0}

ASSUME RequestAssumption ==
  /\ Nothing \notin Mutation /\ Nothing \notin Nat
  /\ \A m \in Mutation :
       /\ m.kind \in {"bucket", "list"} /\ m.bucket \in Bucket
       /\ m.kind = "list" => m.prefix \subseteq Key /\ m.tombstones \in BOOLEAN

VARIABLES
  buckets,    \* rows of buckets
  receipts,   \* rows of mutation_receipts
  versions,   \* object_versions of each bucket, in the order of their commits
  snapshots,  \* rows of list_snapshots
  call,       \* local state of each execution
  reader      \* what each client has read of a snapshot

vars == <<buckets, receipts, versions, snapshots, call, reader>>

Row  == [key : Key, kind : {"data", "tombstone"}]
Item == [key : Key, version : 1 .. MaxVersions]

\* What a statement can see.
Database == [buckets : SUBSET Bucket, receipts : SUBSET Mutation, versions : [Bucket -> Seq(Row)]]

PC == {"idle", "locking",           \* waits for the request lock
       "working",                   \* holds it, saw no receipt
       "inserting", "inserted",     \* bucket row: about to insert; uncommitted
       "failed"}                    \* duplicate key, answered as internal_error

Idle == [pc |-> "idle", mut |-> Nothing, seen |-> Nothing]

Away == [list |-> Nothing, got |-> <<>>, offset |-> Nothing]

-----------------------------------------------------------------------------
SameIdentity(m, n) == m.kind = n.kind /\ m.request = n.request

HoldsRequest(d) == call[d].pc \in {"working", "inserting", "inserted"}

RequestFree(m) == \A d \in Call : HoldsRequest(d) => ~SameIdentity(call[d].mut, m)

Committed == [buckets |-> buckets, receipts |-> receipts, versions |-> versions]

\* What the next statement of call c sees.
View(c) == IF call[c].mut.kind = "list" THEN call[c].seen ELSE Committed

\* The rows of key k, and the current one: object_heads.
RowsOf(rows, k) == {i \in DOMAIN rows : rows[i].key = k}

IsHead(rows, i) == \A j \in RowsOf(rows, rows[i].key) : j <= i

\* The query of createListSnapshot on the given rows: the current ones of its
\* keys.
Selected(rows, m) ==
  LET chosen == {i \in DOMAIN rows :
                   /\ IsHead(rows, i) /\ rows[i].key \in m.prefix
                   /\ m.tombstones \/ rows[i].kind # "tombstone"}
  IN {[key |-> rows[i].key, version |-> i] : i \in chosen}

\* ORDER BY key
Listed(rows, m) ==
  LET items == Selected(rows, m)
  IN CHOOSE s \in [1 .. Cardinality(items) -> items] :
       \A i, j \in DOMAIN s : i < j => s[i].key < s[j].key

\* Bug: the query's own LIMIT is taken for the capacity.
FitsLimit(items) == Len(items) <= MaxItems + 1

\* More than MAX_LIST_ITEMS is capacity_exceeded.
Fits(items) == Len(items) <= MaxItems

\* Bug: INSERT ... ON CONFLICT DO NOTHING.
NeverTaken(b) == b \notin Bucket

\* Primary key of buckets.
Taken(b) == b \in buckets

\* Bug: random snapshot ids and no primary key on receipts.
NoDuplicate(m) == m \notin Mutation

\* Primary keys of list_snapshots (the id is derived from request and intent)
\* and of mutation_receipts.
Duplicate(m) ==
  \/ \E s \in snapshots : s.list = m
  \/ \E r \in receipts : SameIdentity(r, m)

\* Bug: pages are queried from the current heads.
LiveItems(s) == Listed(versions[s.list.bucket], s.list)

\* The stored array that pages are cut from.
StoredItems(s) == s.items

\* pageSnapshot
Page(items, offset, limit) == SubSeq(items, offset + 1, Min({offset + limit, Len(items)}))

\* Bug: <= for <.
NextOffsetAtEnd(items, offset, limit) ==
  LET end == offset + Len(Page(items, offset, limit)) IN IF end <= Len(items) THEN end ELSE Nothing

NextOffset(items, offset, limit) ==
  LET end == offset + Len(Page(items, offset, limit)) IN IF end < Len(items) THEN end ELSE Nothing
-----------------------------------------------------------------------------
Init ==
  /\ buckets = {} /\ receipts = {} /\ snapshots = {}
  /\ versions = [b \in Bucket |-> <<>>]
  /\ call = [c \in Call |-> Idle]
  /\ reader = [r \in Reader |-> Away]

Return(c) == call' = [call EXCEPT ![c] = Idle]

Goto(c, label) == call' = [call EXCEPT ![c].pc = label]

\* withMutation begins.  Under REPEATABLE READ its first statement, the lock,
\* takes the snapshot before it waits.
Start(c, m) ==
  /\ call[c].pc = "idle"
  /\ call' = [call EXCEPT ![c] = [pc |-> "locking", mut |-> m,
                                  seen |-> IF m.kind = "list" THEN Committed ELSE Nothing]]
  /\ UNCHANGED <<buckets, receipts, versions, snapshots, reader>>

\* The lock is granted and the receipt is looked up: replay, conflict or work.
Lock(c) ==
  LET m == call[c].mut IN
  /\ call[c].pc = "locking"
  /\ RequestFree(m)
  /\ IF \E r \in View(c).receipts : SameIdentity(r, m) THEN Return(c) ELSE Goto(c, "working")
  /\ UNCHANGED <<buckets, receipts, versions, snapshots, reader>>

\* createBucket looks for the name; another request's bucket is a conflict.
SelectBucket(c) ==
  /\ call[c].pc = "working" /\ call[c].mut.kind = "bucket"
  /\ IF call[c].mut.bucket \in View(c).buckets THEN Return(c) ELSE Goto(c, "inserting")
  /\ UNCHANGED <<buckets, receipts, versions, snapshots, reader>>

\* The insert waits for an uncommitted row of the same name.
InsertBucket(c) ==
  LET b == call[c].mut.bucket IN
  /\ call[c].pc = "inserting"
  /\ \A d \in Call : call[d].pc = "inserted" => call[d].mut.bucket # b
  /\ Goto(c, IF Taken(b) THEN "failed" ELSE "inserted")
  /\ UNCHANGED <<buckets, receipts, versions, snapshots, reader>>

CommitBucket(c) ==
  /\ call[c].pc = "inserted"
  /\ buckets' = buckets \cup {call[c].mut.bucket}
  /\ receipts' = receipts \cup {call[c].mut}
  /\ Return(c)
  /\ UNCHANGED <<versions, snapshots, reader>>

\* createListSnapshot after the receipt: not_found, capacity_exceeded, or the
\* snapshot and its receipt are inserted.
Materialize(c) ==
  LET m == call[c].mut
      items == Listed(View(c).versions[m.bucket], m)
  IN
  /\ call[c].pc = "working" /\ m.kind = "list"
  /\ IF m.bucket \notin View(c).buckets \/ ~Fits(items)
     THEN Return(c) /\ UNCHANGED <<snapshots, receipts>>
     ELSE IF Duplicate(m)
     THEN Goto(c, "failed") /\ UNCHANGED <<snapshots, receipts>>
     ELSE /\ snapshots' = snapshots \cup {[list |-> m, items |-> items]}
          /\ receipts' = receipts \cup {m}
          /\ Return(c)
  /\ UNCHANGED <<buckets, versions, reader>>

\* The transaction is rolled back and the raw error leaves as a 500.
AnswerError(c) ==
  /\ call[c].pc = "failed"
  /\ Return(c)
  /\ UNCHANGED <<buckets, receipts, versions, snapshots, reader>>

\* The process dies or its connection is lost.
Abort(c) ==
  /\ call[c].pc \notin {"idle", "failed"}
  /\ Return(c)
  /\ UNCHANGED <<buckets, receipts, versions, snapshots, reader>>

\* A PUT or a DELETE commits: a new row for its key.
Write(b, row) ==
  /\ b \in buckets
  /\ Len(versions[b]) < MaxVersions
  /\ row.kind = "tombstone" => RowsOf(versions[b], row.key) # {}
  /\ versions' = [versions EXCEPT ![b] = Append(@, row)]
  /\ UNCHANGED <<buckets, receipts, snapshots, call, reader>>

\* A client has the answer of a snapshot's creation: the first page.
Open(r, s) ==
  /\ reader[r] = Away
  /\ reader' = [reader EXCEPT ![r] =
       [list   |-> s.list,
        got    |-> Page(s.items, 0, FirstPage),
        offset |-> IF Len(s.items) > FirstPage THEN FirstPage ELSE Nothing]]
  /\ UNCHANGED <<buckets, receipts, versions, snapshots, call>>

\* getListPage at the offset that the last page gave.
GetPage(r) ==
  /\ reader[r].offset # Nothing
  /\ \E s \in snapshots, limit \in Limit :
       /\ s.list = reader[r].list
       /\ reader' = [reader EXCEPT
            ![r].got    = @ \o Page(StoredItems(s), reader[r].offset, limit),
            ![r].offset = NextOffset(StoredItems(s), @, limit)]
  /\ UNCHANGED <<buckets, receipts, versions, snapshots, call>>

\* The last page had no next offset.
Close(r) ==
  /\ reader[r].list # Nothing /\ reader[r].offset = Nothing
  /\ reader' = [reader EXCEPT ![r] = Away]
  /\ UNCHANGED <<buckets, receipts, versions, snapshots, call>>

Step(c) ==
  \/ Lock(c) \/ SelectBucket(c) \/ InsertBucket(c) \/ CommitBucket(c)
  \/ Materialize(c) \/ AnswerError(c)

Next ==
  \/ \E c \in Call : Step(c) \/ Abort(c) \/ \E m \in Mutation : Start(c, m)
  \/ \E b \in Bucket, row \in Row : Write(b, row)
  \/ \E r \in Reader : GetPage(r) \/ Close(r) \/ \E s \in snapshots : Open(r, s)

Spec == Init /\ [][Next]_vars

\* Assumed of the client: having begun to read, it goes on.
Fairness == \A r \in Reader : WF_vars(GetPage(r) \/ Close(r))

LiveSpec == Spec /\ Fairness
-----------------------------------------------------------------------------
(* Properties.                                                             *)

\* Every variable stays in its domain; item_count has its CHECK.
TypeOK ==
  /\ buckets \subseteq Bucket /\ receipts \subseteq Mutation
  /\ versions \in [Bucket -> Seq(Row)]
  /\ \A s \in snapshots :
       s.list \in Mutation /\ s.items \in Seq(Item) /\ Len(s.items) <= MaxItems
  /\ \A c \in Call : /\ call[c].pc \in PC
                     /\ call[c].mut \in Mutation \cup {Nothing}
                     /\ call[c].seen \in Database \cup {Nothing}
  /\ \A r \in Reader : /\ reader[r].list \in Mutation \cup {Nothing}
                       /\ reader[r].got \in Seq(Item)
                       /\ reader[r].offset \in 0 .. MaxItems \cup {Nothing}

\* A bucket was created by exactly one request, although two may have seen
\* that its name was free, and a request that was told so created one.
BucketMadeOnce ==
  \A b \in Bucket :
    LET makers == {m \in receipts : m.kind = "bucket" /\ m.bucket = b} IN
    IF b \in buckets THEN \E m \in makers : makers = {m} ELSE makers = {}

\* A list request has one snapshot, exactly when it has its receipt, and an
\* identity has one receipt, although a second execution may work on a view
\* of the database in which neither exists.
SnapshotPerReceipt ==
  /\ \A m \in Mutation : m.kind = "list" =>
       LET made == {s \in snapshots : s.list = m} IN
       IF m \in receipts THEN \E s \in made : made = {s} ELSE made = {}
  /\ \A q, r \in receipts : SameIdentity(q, r) => q = r

\* A client that has read to the end holds the listing of one moment of the
\* bucket: no key twice, none missing, none of a later revision.
ReaderSeesOneMoment ==
  \A r \in Reader :
    LET m == reader[r].list IN
    m # Nothing /\ reader[r].offset = Nothing =>
      \E n \in 0 .. Len(versions[m.bucket]) :
        reader[r].got = Listed(SubSeq(versions[m.bucket], 1, n), m)

\* A client that follows the next offsets comes to the end.
ReadersEnd == \A r \in Reader : reader[r].list # Nothing ~> reader[r].list = Nothing

\* Exact retry replays: no execution of a request that has its receipt ends
\* in an error (docs/requirements.md, item 5).
ExactRetryReplays == \A c \in Call : call[c].pc = "failed" => call[c].mut \notin receipts
=============================================================================
