------------------------------ MODULE WriteGc ------------------------------
(***************************************************************************)
(* The write path and the garbage collector of the object store: PUT,      *)
(* DELETE, orphan scan, garbage collection and the advance of the GC       *)
(* generation, as src/src/service.js and src/src/repository.js run them on *)
(* one PostgreSQL database and NodeCount replica directories.              *)
(*                                                                         *)
(* An API request is a "mutation": its canonical intent (the record that   *)
(* is digested in the code) with its request key.  A "call" is one         *)
(* execution of a mutation by some process; several calls may execute the  *)
(* same mutation, one after the other or at the same time (a retry).  Each *)
(* action is a stretch of code between two points where another call can   *)
(* interfere: a lock wait, a file-system operation, a transaction end.     *)
(*                                                                         *)
(* Locks have no variable of their own.  A transaction holds its locks     *)
(* until it ends, so that the holder of a lock is a call whose pc lies     *)
(* between the acquisition and the end (RequestFree, KeyFree, GcRowFree).  *)
(***************************************************************************)
EXTENDS Naturals, Sequences, FiniteSets

CONSTANTS
  Call,        \* executions: HTTP handlers of any number of processes
  Mutation,    \* the requests that clients send, each with its intent
  Key,         \* (bucket, object key) pairs; their buckets exist
  Content,     \* content digests
  Request,     \* request keys chosen by clients
  Absent,      \* no head row; also the precondition 'absent'
  NoCondition, \* the precondition null
  Nothing,     \* the mutation of an idle call
  NodeCount,   \* NODE_IDS.length
  Required,    \* REQUIRED_REPLICAS
  Ttl,         \* writeIntentTtlMs, in clock ticks
  Window,      \* the longest time from a reservation to its commit
  MaxTime      \* bound of the clock

Node == 1 .. NodeCount

Time == 0 .. MaxTime

Puts     == {m \in Mutation : m.kind = "put"}
Versions == {m \in Mutation : m.kind \in {"put", "delete"}}
Scans    == {m \in Mutation : m.kind = "scan"}

ASSUME CountsAssumption ==
  /\ NodeCount \in Nat /\ Required \in Nat /\ Ttl \in Nat
  /\ Window \in Nat /\ MaxTime \in Nat

ASSUME MutationAssumption ==
  \A m \in Mutation :
    /\ m.kind \in {"put", "delete", "scan", "gc", "advance"}
    /\ m.request \in Request
    /\ m.kind = "put" =>
         /\ m.key \in Key /\ m.content \in Content
         /\ m.pre \in Mutation \cup {NoCondition, Absent}
    /\ m.kind = "delete" =>
         m.key \in Key /\ m.pre \in Mutation \cup {NoCondition, Absent}
    /\ m.kind = "scan" => m.expected \in Nat /\ m.minAge \in Nat
    /\ m.kind = "gc" =>
         m.scan \in Mutation /\ m.scan.kind = "scan" /\ m.expected \in Nat /\ m.retention \in Nat

ASSUME NullAssumption ==
  /\ Absent \notin Mutation /\ NoCondition \notin Mutation /\ Nothing \notin Mutation
  /\ Absent # NoCondition

VARIABLES
  now,        \* the database, file-system and service clock
  files,      \* finished blobs: node, content, modification time
  intents,    \* rows of write_intents: mutation (identity and digest), expiry
  receipts,   \* rows of mutation_receipts: the mutations that committed
  versions,   \* object_versions of each key, in version_sequence order
  head,       \* object_heads: the current version of each key
  replica,    \* replicas: the state of the row of each content on each node
  scans,      \* rows of orphan_scans: the scan and its candidate items
  gcGen,      \* maintenance_generations, kind 'gc'
  call        \* local state of each call

vars == <<now, files, intents, receipts, versions, head, replica, scans, gcGen, call>>

database == <<intents, receipts, versions, head, replica, scans, gcGen>>

PC == {"idle",
       "reserve", "reserving", "publishing",   \* put, before its transaction
       "observe", "observed", "listing",       \* scan, before its transaction
       "begin",                                \* about to open the mutation
       "mutating",                             \* holds the request lock
       "deciding",                             \* also holds the key lock
       "listed", "sweeping"}                   \* also holds the GC row, FOR UPDATE

\* What a directory entry or a scan item says of a blob.
Entry == [node : Node, content : Content, mtime : Time]

IntentRow == [mut : Puts, expires : Nat]

CallState == [pc     : PC,
              mut    : Mutation \cup {Nothing},
              since  : Time,                \* when the intent was reserved, or
                                            \* the scan's observedAt
              next   : 1 .. NodeCount + 1,  \* next node to publish on
              got    : SUBSET Node,         \* nodes that gave a receipt
              live   : SUBSET Content,      \* liveDigests() of a scan
              items  : SUBSET Entry,        \* what is left to record or collect
              doomed : SUBSET Entry]        \* judged unreachable, unlink is next

Idle == [pc |-> "idle", mut |-> Nothing, since |-> 0, next |-> 1, got |-> {},
         live |-> {}, items |-> {}, doomed |-> {}]

-----------------------------------------------------------------------------
(* Identities, locks and rows.                                             *)

\* The primary key of mutation_receipts and write_intents: principal, request
\* key and operation; the operation of a collection names its scan.
SameIdentity(m, n) ==
  /\ m.kind = n.kind
  /\ m.request = n.request
  /\ m.kind = "gc" => m.scan = n.scan

\* Bug: receipts are written and never read.
NeverReplayed(m) == m \notin Mutation

\* The receipt of m exists: the call answers with it (getReceipt).
Replayed(m) == m \in receipts

\* A receipt or an intent binds m's identity to another intent digest.
BoundInReceipts(m) == \E r \in receipts : r # m /\ SameIdentity(r, m)
BoundInIntents(m)  == \E i \in intents : i.mut # m /\ SameIdentity(i.mut, m)

HoldsRequest(d) == call[d].pc \in {"reserving", "mutating", "deciding", "listed", "sweeping"}
HoldsKey(d)     == call[d].pc = "deciding"
HoldsGcRow(d)   == call[d].pc \in {"listed", "sweeping"}

\* Bug: the request is not locked.
RequestUnlocked(m) == m \in Mutation

RequestFree(m) == \A d \in Call : HoldsRequest(d) => ~SameIdentity(call[d].mut, m)

\* Bug: a lock scope with the version in it, so that two writers never meet.
KeyUnlocked(k) == k \in Key

KeyFree(k) == \A d \in Call : HoldsKey(d) => call[d].mut.key # k

\* Bug: the generation is read without FOR SHARE or FOR UPDATE.
GcRowRead == gcGen > 0

GcRowFree == \A d \in Call : ~HoldsGcRow(d)

\* A version row exists for m.
Committed(m) == \E i \in DOMAIN versions[m.key] : versions[m.key][i] = m

\* The file of content x is in the directory of node n.
Stored(n, x) == \E f \in files : f.node = n /\ f.content = x

\* A data version, or an intent that has not expired, refers to content x
\* (the union of liveDigests and the EXISTS query of garbageCollect).
Reachable(x) ==
  \/ \E m \in Puts : m.content = x /\ Committed(m)
  \/ \E i \in intents : i.mut.content = x /\ i.expires > now

SamePlace(e, f) == e.node = f.node /\ e.content = f.content

\* assertPrecondition
PreconditionMet(m) == m.pre \in {NoCondition, head[m.key]}

-----------------------------------------------------------------------------
Init ==
  /\ now = 0
  /\ files = {} /\ intents = {} /\ receipts = {} /\ scans = {}
  /\ versions = [k \in Key |-> <<>>]
  /\ head = [k \in Key |-> Absent]
  /\ replica = [x \in Content |-> [n \in Node |-> "none"]]
  /\ gcGen = 1
  /\ call = [c \in Call |-> Idle]

\* The call returns, with a result or an error; its transaction, if any, has
\* ended and its locks are free.
Return(c) == call' = [call EXCEPT ![c] = Idle]

Goto(c, label) == call' = [call EXCEPT ![c].pc = label]

\* A client sends a request, for the first time or again.
Start(c, m) ==
  /\ call[c].pc = "idle"
  /\ call' = [call EXCEPT ![c].mut = m,
                          ![c].pc = CASE m.kind = "put"  -> "reserve"
                                      [] m.kind = "scan" -> "observe"
                                      [] OTHER           -> "begin"]
  /\ UNCHANGED <<now, files, database>>

\* reserveWriteIntent up to its receipt check: replay, conflict, or go on.
ReserveLock(c) ==
  LET m == call[c].mut IN
  /\ call[c].pc = "reserve"
  /\ RequestFree(m)
  /\ IF Replayed(m) \/ BoundInReceipts(m) THEN Return(c) ELSE Goto(c, "reserving")
  /\ UNCHANGED <<now, files, database>>

\* Bug: ON CONFLICT DO NOTHING, the intent of an earlier attempt stays as it is.
ReservedOnce(m) ==
  IF \E i \in intents : i.mut = m THEN intents
  ELSE intents \cup {[mut |-> m, expires |-> now + Ttl]}

\* write_intents with the row of m inserted or, expired or not, renewed.
Renewed(m) == {i \in intents : i.mut # m} \cup {[mut |-> m, expires |-> now + Ttl]}

\* The rest of reserveWriteIntent, from the GC row FOR SHARE to the commit.
\* An intent for other bytes is a conflict, expired or not.
ReserveIntent(c) ==
  LET m == call[c].mut IN
  /\ call[c].pc = "reserving"
  /\ GcRowFree
  /\ IF BoundInIntents(m)
     THEN Return(c) /\ UNCHANGED intents
     ELSE /\ intents' = Renewed(m)
          /\ call' = [call EXCEPT ![c].pc = "publishing", ![c].since = now]
  /\ UNCHANGED <<now, files, receipts, versions, head, replica, scans, gcGen>>

\* Bug: one node too many.
PublishingBeyond(c) == call[c].pc = "publishing" /\ call[c].next <= NodeCount + 1

\* prepareReplicas has a node left to publish on.
Publishing(c) == call[c].pc = "publishing" /\ call[c].next <= NodeCount

\* files once content x is in its place on node n: an existing file is adopted
\* and keeps its mtime.
Placed(n, x) ==
  IF Stored(n, x) THEN files
  ELSE files \cup {[node |-> n, content |-> x, mtime |-> now]}

\* replicaStore.publish succeeds on the next node.
Publish(c) ==
  LET n == call[c].next IN
  /\ Publishing(c)
  /\ files' = Placed(n, call[c].mut.content)
  /\ call' = [call EXCEPT ![c].next = n + 1, ![c].got = @ \cup {n}]
  /\ UNCHANGED <<now, database>>

\* publish throws and prepareReplicas counts a failure.  The final file may
\* already be in place: directory sync or readback may fail after the rename.
PublishFails(c) ==
  LET n == call[c].next IN
  /\ Publishing(c)
  /\ files' \in {files, Placed(n, call[c].mut.content)}
  /\ call' = [call EXCEPT ![c].next = n + 1]
  /\ UNCHANGED <<now, database>>

\* Bug: the threshold is compared with the nodes tried, not with the receipts.
PreparedByAttempts(c) ==
  /\ call[c].pc = "publishing"
  /\ call[c].next = NodeCount + 1
  /\ call[c].next > Required

\* prepareReplicas returned with enough receipts.
Prepared(c) ==
  /\ call[c].pc = "publishing"
  /\ call[c].next = NodeCount + 1
  /\ Cardinality(call[c].got) >= Required

\* replica_threshold_not_met: the intent and the files stay behind.
ThresholdNotMet(c) ==
  /\ call[c].pc = "publishing"
  /\ call[c].next = NodeCount + 1
  /\ Cardinality(call[c].got) < Required
  /\ Return(c)
  /\ UNCHANGED <<now, files, database>>

\* withMutation opens its transaction: request lock, then the receipt.
Begin(c) ==
  LET m == call[c].mut IN
  /\ call[c].pc = "begin" \/ Prepared(c)
  /\ RequestFree(m)
  /\ IF Replayed(m) \/ BoundInReceipts(m) THEN Return(c) ELSE Goto(c, "mutating")
  /\ UNCHANGED <<now, files, database>>

\* PUT and DELETE up to the precondition: assertWriteIntent (PUT only; a
\* missing row is internal_error, an expired one passes), the key lock,
\* not_found (DELETE only) and assertPrecondition.
LockKey(c) ==
  LET m == call[c].mut
      intentHeld == m.kind = "put" => \E i \in intents : i.mut = m
      found == m.kind = "delete" => head[m.key] # Absent
  IN
  /\ call[c].pc = "mutating" /\ m.kind \in {"put", "delete"}
  /\ intentHeld => KeyFree(m.key)
  /\ IF intentHeld /\ found /\ PreconditionMet(m) THEN Goto(c, "deciding") ELSE Return(c)
  /\ UNCHANGED <<now, files, database>>

\* What PUT and DELETE have in common when they commit: the version row, the
\* head and the receipt.
CommitVersion(m) ==
  /\ versions' = [versions EXCEPT ![m.key] = Append(@, m)]
  /\ head' = [head EXCEPT ![m.key] = m]
  /\ receipts' = receipts \cup {m}

\* insertDataVersion from the GC row FOR SHARE, clearWriteIntent, commit.
\* recordReplicaRows marks the nodes with a receipt; for another node it
\* inserts 'missing' unless the row exists.
CommitPut(c) ==
  LET m == call[c].mut IN
  /\ call[c].pc = "deciding" /\ m.kind = "put"
  /\ GcRowFree
  /\ replica' = [replica EXCEPT ![m.content] =
       [n \in Node |-> IF n \in call[c].got THEN "verified"
                       ELSE IF @[n] = "none" THEN "missing" ELSE @[n]]]
  /\ CommitVersion(m)
  /\ intents' = {i \in intents : ~SameIdentity(i.mut, m)}
  /\ Return(c)
  /\ UNCHANGED <<now, files, scans, gcGen>>

\* deleteObject from the tombstone row to its commit.  No GC row is locked.
CommitDelete(c) ==
  LET m == call[c].mut IN
  /\ call[c].pc = "deciding" /\ m.kind = "delete"
  /\ CommitVersion(m)
  /\ Return(c)
  /\ UNCHANGED <<now, files, intents, replica, scans, gcGen>>

\* scanOrphans reads the live digests, outside a transaction.
ScanObserve(c) ==
  /\ call[c].pc = "observe"
  /\ call' = [call EXCEPT ![c].pc = "observed", ![c].live = {x \in Content : Reachable(x)}]
  /\ UNCHANGED <<now, files, database>>

\* When the answer arrives it reads its clock.
ScanReadClock(c) ==
  /\ call[c].pc = "observed"
  /\ call' = [call EXCEPT ![c].pc = "listing", ![c].since = now]
  /\ UNCHANGED <<now, files, database>>

\* listEntries and classifyOrphanEntries, against what was read before.
ScanList(c) ==
  LET old(f) == f.mtime + call[c].mut.minAge <= call[c].since IN
  /\ call[c].pc = "listing"
  /\ call' = [call EXCEPT ![c].pc = "begin",
                          ![c].items = {f \in files : f.content \notin call[c].live /\ old(f)}]
  /\ UNCHANGED <<now, files, database>>

\* The scan is recorded unless the generation moved (GC row FOR SHARE).
CommitScan(c) ==
  LET m == call[c].mut IN
  /\ call[c].pc = "mutating" /\ m.kind = "scan"
  /\ GcRowFree
  /\ IF gcGen = m.expected
     THEN /\ scans' = scans \cup {[scan |-> m, items |-> call[c].items]}
          /\ receipts' = receipts \cup {m}
     ELSE UNCHANGED <<scans, receipts>>
  /\ Return(c)
  /\ UNCHANGED <<now, files, intents, versions, head, replica, gcGen>>

\* Bug: the generation of the scan itself is not looked at.
FencedByRun(m) == gcGen = m.expected

\* Both generations that collection m is fenced by.
Fenced(m) == gcGen = m.expected /\ m.scan.expected = m.expected

\* garbageCollect takes the GC row FOR UPDATE, checks both generations and
\* lists the directories.  An item whose file is gone or newer is kept; the
\* others are now represented by their current directory entry.
GcLock(c) ==
  LET m == call[c].mut
      recorded == {s \in scans : s.scan = m.scan}
      current(s) == {f \in files : \E e \in s.items : SamePlace(e, f) /\ f.mtime <= e.mtime}
  IN
  /\ call[c].pc = "mutating" /\ m.kind = "gc"
  /\ GcRowFree
  /\ IF Fenced(m) /\ recorded # {}
     THEN \E s \in recorded :
            call' = [call EXCEPT ![c].pc = "listed", ![c].items = current(s)]
     ELSE Return(c)
  /\ UNCHANGED <<now, files, database>>

\* The clock is read once, after the listing; younger files are kept.
GcReadClock(c) ==
  LET m == call[c].mut IN
  /\ call[c].pc = "listed"
  /\ call' = [call EXCEPT ![c].pc = "sweeping",
                          ![c].items = {f \in @ : f.mtime + m.retention <= now}]
  /\ UNCHANGED <<now, files, database>>

\* Bug: an item that is kept is not counted off.
GcJudgeAgain(c) ==
  /\ call[c].pc = "sweeping" /\ call[c].doomed = {}
  /\ \E f \in call[c].items :
       call' = IF Reachable(f.content) THEN call
               ELSE [call EXCEPT ![c].items = @ \ {f}, ![c].doomed = {f}]
  /\ UNCHANGED <<now, files, database>>

\* The reachability query for one item.
GcJudge(c) ==
  /\ call[c].pc = "sweeping" /\ call[c].doomed = {}
  /\ \E f \in call[c].items :
       call' = [call EXCEPT ![c].items = @ \ {f},
                            ![c].doomed = IF Reachable(f.content) THEN {} ELSE {f}]
  /\ UNCHANGED <<now, files, database>>

\* deleteEntry removes whatever has that name by now.
GcUnlink(c) ==
  /\ call[c].pc = "sweeping" /\ call[c].doomed # {}
  /\ files' = {f \in files : \A e \in call[c].doomed : ~SamePlace(e, f)}
  /\ call' = [call EXCEPT ![c].doomed = {}]
  /\ UNCHANGED <<now, database>>

\* The run and its receipt are stored.
CommitGc(c) ==
  /\ call[c].pc = "sweeping" /\ call[c].items = {} /\ call[c].doomed = {}
  /\ receipts' = receipts \cup {call[c].mut}
  /\ Return(c)
  /\ UNCHANGED <<now, files, intents, versions, head, replica, scans, gcGen>>

\* advanceMaintenanceGeneration of kind 'gc'; the UPDATE waits for the row.
CommitAdvance(c) ==
  /\ call[c].pc = "mutating" /\ call[c].mut.kind = "advance"
  /\ GcRowFree
  /\ gcGen' = gcGen + 1
  /\ receipts' = receipts \cup {call[c].mut}
  /\ Return(c)
  /\ UNCHANGED <<now, files, intents, versions, head, replica, scans>>

\* The process dies, its connection is lost or a statement or file operation
\* fails: the transaction rolls back, what was done to files stays done.
Abort(c) ==
  /\ call[c].pc # "idle"
  /\ Return(c)
  /\ UNCHANGED <<now, files, database>>

\* A PUT between its reservation and its end.
InWindow(c) ==
  /\ call[c].pc \in {"publishing", "mutating", "deciding"}
  /\ call[c].mut.kind = "put"

\* Time passes, but no PUT attempt outlives Window.
Tick ==
  /\ now < MaxTime
  /\ \A c \in Call : InWindow(c) => now < call[c].since + Window
  /\ now' = now + 1
  /\ UNCHANGED <<files, database, call>>

-----------------------------------------------------------------------------
PutStep(c) ==
  \/ ReserveLock(c) \/ ReserveIntent(c) \/ Publish(c) \/ PublishFails(c)
  \/ ThresholdNotMet(c) \/ CommitPut(c)

ScanStep(c) == ScanObserve(c) \/ ScanReadClock(c) \/ ScanList(c) \/ CommitScan(c)

GcStep(c) == GcLock(c) \/ GcReadClock(c) \/ GcJudge(c) \/ GcUnlink(c) \/ CommitGc(c)

\* A step of the code of call c, without the environment's Start and Abort.
Step(c) ==
  \/ Begin(c) \/ LockKey(c) \/ CommitDelete(c) \/ CommitAdvance(c)
  \/ PutStep(c) \/ ScanStep(c) \/ GcStep(c)

Next ==
  \/ \E c \in Call, m \in Mutation : Start(c, m)
  \/ \E c \in Call : Step(c) \/ Abort(c)
  \/ Tick

Spec == Init /\ [][Next]_vars

\* PostgreSQL queues the waiters of a lock, so that a call that finds a lock
\* free again and again gets it in the end.  Nothing obliges a client to send
\* a request, a process to fail or the clock to be read at a given time.
Fairness == \A c \in Call : SF_vars(Step(c))

LiveSpec == Spec /\ Fairness

-----------------------------------------------------------------------------
(* Properties.                                                             *)

\* Every variable stays in its domain.
TypeOK ==
  /\ now \in Time
  /\ files \subseteq Entry
  /\ intents \subseteq IntentRow
  /\ receipts \subseteq Mutation
  /\ versions \in [Key -> Seq(Versions)]
  /\ head \in [Key -> Versions \cup {Absent}]
  /\ replica \in [Content -> [Node -> {"none", "missing", "verified"}]]
  /\ scans \subseteq [scan : Scans, items : SUBSET Entry]
  /\ gcGen \in Nat
  /\ call \in [Call -> CallState]

\* Metadata never points at bytes that are not there: the content of every
\* committed data version has Required replica rows in state verified, and
\* every verified row has its file, whatever the collector does at the same
\* time and wherever a call is cut short.  It needs Window < Ttl.
CommittedBytes ==
  /\ \A m \in Puts : Committed(m) =>
       Cardinality({n \in Node : replica[m.content][n] = "verified"}) >= Required
  /\ \A x \in Content, n \in Node : replica[x][n] = "verified" => Stored(n, x)

\* A PUT that reached its transaction finds its own intent: the errors of
\* assertWriteIntent are unreachable, although a concurrent retry of the same
\* request clears that row when it commits and nothing is locked meanwhile.
IntentHeld ==
  \A c \in Call :
    call[c].pc \in {"mutating", "deciding"} /\ call[c].mut.kind = "put" =>
      \E i \in intents : i.mut = call[c].mut

\* No INSERT of the write path can meet a duplicate key: an identity has at
\* most one receipt and one intent, never both, and a mutation makes one
\* version, exactly when it has a receipt.
OneOutcome ==
  /\ \A r, q \in receipts : SameIdentity(r, q) => r = q
  /\ \A i, j \in intents : SameIdentity(i.mut, j.mut) => i = j
  /\ \A i \in intents, r \in receipts : ~SameIdentity(i.mut, r)
  /\ \A m \in Versions : Committed(m) <=> m \in receipts
  /\ \A k \in Key : \A i, j \in DOMAIN versions[k] : versions[k][i] = versions[k][j] => i = j

\* Only unreachable bytes are unlinked: at the moment a file disappears no
\* data version and no unexpired intent refers to its content, although the
\* query that found so ran some steps earlier.  It needs no assumption on time.
CollectsOnlyGarbage ==
  [][\A f \in files \ files' : ~Reachable(f.content)]_vars

\* A stale worker deletes nothing: a file is unlinked only by a collection
\* whose generation is still the current one and was that of its scan, which
\* listed the file as a candidate; and never before its retention is over.
OnlyFencedCollections ==
  [][\A f \in files \ files' :
       \E c \in Call :
         LET m == call[c].mut IN
         /\ call[c].pc = "sweeping"
         /\ gcGen = m.expected /\ m.scan.expected = m.expected
         /\ f.mtime + m.retention <= now
         /\ \E s \in scans : s.scan = m.scan /\ \E e \in s.items : SamePlace(e, f)]_vars

\* PUT and DELETE implement the abstract history of versions.
History == INSTANCE VersionHistory WITH chain <- versions

\* Histories are linear, preconditions hold of the version they are applied
\* to, and an identity takes effect once, under concurrency, retries and aborts.
LinearHistory == History!Spec

\* Every call ends: no cycle of lock waits, no sweep that goes on for ever.
EveryCallEnds == \A c \in Call : call[c].pc # "idle" ~> call[c].pc = "idle"
=============================================================================
