# Formal model of the object store

TLA+ specifications of this repository's object storage service, the TLC
configurations that check them on small instances, and theorems about them that
TLAPS checks for every value of the constants. Paths below are relative to the
repository (`src/service.js` is the implementation, `sql/schema.sql` the tables);
in `PROJECT.json` they carry the leading `src/` of this tree.

## 1. The system

One Node.js service in front of one PostgreSQL database and three directories,
`node-a`, `node-b` and `node-c`, that stand for storage nodes. Bytes are
content-addressed files `<sha256>.blob`; metadata lives in the database. Bytes
are written before metadata and the two are never one transaction: a crash may
leave an orphan file, and a collector removes orphans.

| Component | State | Operations |
|---|---|---|
| write path (`service.js`) | `object_versions`, `version_replicas`, `object_heads`, `replicas` | `putObject`, `deleteObject`, `prepareReplicas`, `insertDataVersion` |
| mutation protocol (`repository.js`) | `mutation_receipts`, `write_intents`, advisory locks | `withMutation`, `reserveWriteIntent`, `assertWriteIntent`, `clearWriteIntent`, `replayMutation` |
| collector (`service.js`, `model.js`) | `orphan_scans`, `gc_runs`, generation `gc` | `scanOrphans`, `garbageCollect`, `advanceMaintenanceGeneration` |
| replica store (`storage.js`) | files of three directories | `publish`, `verify`, `listEntries`, `deleteEntry` |
| multipart (`service.js`) | `multipart_uploads`, `multipart_parts` | `initiateMultipart`, `putMultipartPart`, `completeMultipart`, `abortMultipart` |
| reads and repair (`service.js`) | `repair_tasks`, `replicas`, generation `repair` | `readObject`, `recordReplicaIssues`, `repair` |
| lists (`service.js`, `model.js`) | `list_snapshots` | `createListSnapshot`, `getListPage`, `pageSnapshot` |
| buckets (`service.js`) | `buckets` | `createBucket` |
| contracts, digests, errors | none | validation of one request, canonical digests |
| HTTP front end | none | decoding and routing |

How they interact. Every mutating request runs in `withMutation`: one
transaction that takes an advisory lock on the request identity (principal,
operation, request key), answers from the receipt if there is one, and otherwise
does its work and stores the receipt. A write that needs bytes first reserves a
write intent in a transaction of its own, then writes files with no lock and no
transaction, then opens its mutation. Writers of a key exclude each other by a
second advisory lock. Writers and collector meet on the row of generation `gc`:
writers and scans take it `FOR SHARE` for the instant in which they reserve,
commit or record, a collection takes it `FOR UPDATE` for its whole sweep of the
directories.

What is hard about it: the long unlocked stretch between reservation and commit;
retries of the same request by several processes at once; files adopted from an
earlier attempt, with their old modification times; observations (live digests, listings,
clocks) used long after they were made; a collection cut short between two
unlinks; intents that expire by time; lock waits at three levels; row locks taken in two orders; observations of
replicas reported after a repair; uploads that close, expire and are retried while a
completion reads their parts; a rename that no one has synced.

What makes each component correct:

- write path: one linear history per key, preconditions that hold of the version
  they are applied to, no committed version below its replica threshold;
- mutation protocol: an identity has one outcome, whatever is retried when;
- collector: it removes only what nothing refers to, only under the current
  generation, only after the retention;
- replica store: a receipt means the whole content under its final name, durably;
- multipart: a completed object is the concatenation of the parts that were there, an
  upload ends once, and parts are safe from the collector while it is open;
- repair: a file that is damaged becomes whole again while clients read and workers repair, recorded
  work ends with its file and its row verified, a task ends once, and a stale worker changes no row;
- lists: the pages of a snapshot are one moment of the bucket, for ever;
- buckets: a name is created once and an exact retry replays.

## 2. The modules

| Module | Role |
|---|---|
| `VersionHistory` | abstract specification of PUT and DELETE: a sequence of accepted mutations per key |
| `WriteGc` | write path, mutation protocol and collector, composed on one database and one set of directories |
| `MCWriteGc` | sets of mutations for TLC |
| `ListSnapshot` | buckets, list snapshots and their pages, with PUTs and DELETEs as commits between them |
| `MCListSnapshot` | sets of requests for TLC |
| `DurableBlobs` | abstract specification of a node directory: what a receipt promises |
| `ReplicaStore` | one node directory, system call by system call; implements `DurableBlobs` |
| `MCReplicaStore` | symmetry for TLC |
| `Repair` | degraded reads, repair and generation `repair`, with the row locks |
| `MCRepair` | symmetry for TLC |
| `UploadHistory` | abstract specification of uploads: each request has its effect in one step, once |
| `Multipart` | the four operations on uploads, with write intents, expiry and the collector; implements `UploadHistory` |
| `MCMultipart` | a set of requests for TLC |
| `WriteGcFrames` | proofs: types, what each action changes, mutual exclusion by the locks |
| `WriteGcHistory` | proofs: one outcome per identity, refinement of `VersionHistory` |
| `WriteGcBytes` | proofs: what the collector removes, and that committed bytes stay |
| `ReplicaStoreProofs` | proofs: no partial blob, refinement of `DurableBlobs` |
| `MultipartProofs` | proofs: uploads end once, completions are their parts, answers hold, refinement of `UploadHistory` |
| `MultipartBytes` | proofs, on `MultipartProofs`: the bytes of versions and open parts stay |
| `RepairProofs` | proofs: tasks end once, under their generation, with one repair |
| `ListSnapshotProofs` | proofs: listings and pages, one maker of a bucket, one snapshot of a request, one moment for a reader |

### WriteGc and the code

A *mutation* is a request: a record of its kind, its request key and its intent.
The digests of the code (`intent_digest`, `version_id`) are functions of these
fields, so the record stands for them. A *call* is one execution of a mutation
by some process; several calls may execute the same mutation, one after the
other (a retry) or at the same time.

| Variable | Code |
|---|---|
| `files` | the directories: node, content, mtime of each `.blob` |
| `intents`, `receipts`, `scans` | rows of `write_intents`, `mutation_receipts`, `orphan_scans` |
| `versions`, `head` | `object_versions` of a key by `version_sequence`; `object_heads` |
| `replica` | `state` of the `replicas` row of each content and node |
| `gcGen` | `maintenance_generations`, kind `gc`, 1 at the start as in `schema.sql` |
| `now` | `statement_timestamp()`, `Date.now()` and file times |
| `call` | label and local variables of each execution |

Actions are the stretches between points where another call can interfere.

| Action | Code |
|---|---|
| `ReserveLock`, `ReserveIntent` | `reserveWriteIntent` to its receipt check; from the generation row to its commit |
| `Publish`, `PublishFails` | one turn of the loop of `prepareReplicas`; a failed `publish` may leave the file in place, since the directory sync and the readback come after the rename |
| `ThresholdNotMet` | `replica_threshold_not_met`: intent and files stay |
| `Begin` | `withMutation`: transaction, request lock, receipt |
| `LockKey` | `assertWriteIntent`, key lock, head, `not_found`, precondition |
| `CommitPut` | generation row `FOR SHARE`, replica rows, version, head, intent cleared, receipt, commit |
| `CommitDelete` | tombstone, head, receipt, commit; the code takes no generation row here |
| `ScanObserve`, `ScanReadClock`, `ScanList`, `CommitScan` | `liveDigests`; clock; listing and classification; the recording transaction |
| `GcLock`, `GcReadClock`, `GcJudge`, `GcUnlink`, `CommitGc` | `garbageCollect`: lock, fences and listing; clock and retention; the reachability query of one item; its unlink; run and receipt |
| `CommitAdvance` | `advanceMaintenanceGeneration('gc')` |
| `Abort` | process death, lost connection or any failing statement or file operation, at any point: the transaction rolls back, files stay as they are |
| `Tick` | time passes |

Locks are not variables. A transaction holds its locks until it ends, so that a
lock is held exactly by the calls whose label lies between the acquisition and
the end (`HoldsRequest`, `HoldsKey`, `HoldsGcRow`). `FOR SHARE` of the generation row
is held only within one action, because nothing between its acquisition and the
commit can block or be observed.

What one step stands for, and why that is sound. Statements of a transaction
between two lock waits form one action: they touch rows that other transactions
can change only under a lock this one holds (versions and heads of the key,
receipts and intents of the request, the references behind the generation row) or, for
`replicas`, rows that the write path overwrites without reading. They become
visible with the commit. The retry of a request is a new call
of the same mutation; nothing bounds how often.

What is abstracted in `WriteGc`:

- one principal, and buckets that exist;
- one clock. The age test of a scan uses the service clock, retention and expiry
  the database clock, mtimes the file system clock; the properties about time
  hold for clocks that agree. `CollectsOnlyGarbage` uses time only as the one clock of the database;
- `publish` is one outcome per node and a listing is one snapshot. A listing is
  really a sequence of `readdir` and `stat`; every entry it returns is checked again
  before it counts, by the reachability query of the collection;
- temporary files, which the collector removes by age only: see `ReplicaStore`;
- corrupt bytes: the content of a `.blob` is its name. See `Repair` and `ReplicaStore`;
- multipart parts as a source of reachability: see `Multipart`;
- a store configured with fewer than three nodes publishes on those only: the other nodes
  behave as nodes whose `publish` fails.

### ListSnapshot and the code

This module is about statements and what they see. `createBucket` runs READ
COMMITTED, `createListSnapshot` REPEATABLE READ; unique indexes are checked against
the committed rows in both (`Taken`, `Duplicate`), whatever the statement's view is.

| Variable | Code |
|---|---|
| `buckets`, `receipts`, `snapshots` | rows of `buckets`, `mutation_receipts`, `list_snapshots` |
| `versions` | `object_versions` of each bucket in commit order; the last row of a key is its `object_heads` row |
| `call` | label and request of each execution; `seen`, the view of a REPEATABLE READ transaction |
| `reader` | a client: the listing it reads, what it has got, `nextOffset` |

| Action | Code |
|---|---|
| `Start` | `BEGIN` and the statement that waits for the request lock, which fixes the view under REPEATABLE READ |
| `Lock` | the lock is granted; receipt: replay or conflict, or work |
| `SelectBucket`, `InsertBucket`, `CommitBucket` | `createBucket`: name check; insert, which waits for an uncommitted row of the name; receipt and commit |
| `Materialize` | `createListSnapshot` from `requireBucket` to its commit: one step, as it reads its own view and writes rows no one waits for while the request lock is held |
| `AnswerError`, `Abort` | the answer to a raw database error; process death, lost connection |
| `Write` | a `putObject` or `deleteObject` commits (`WriteGc` has their steps) |
| `Open`, `GetPage`, `Close` | a client takes the first page, follows `nextOffset`, has it all |

Keys are numbers in their bytewise order, a prefix is the set of keys it selects,
the first page holds `FirstPage` items (16 in the code), `MaxItems` is
`MAX_LIST_ITEMS` (256). A listing is what the query selects (`Selected`), as the sequence that is ordered
by key (`Listed`); a lemma shows that there is one and that it has every item. Other principals and replayed answers, which show what
the first answer showed, are left out.

### ReplicaStore and the code

`WriteGc` takes `publish` for one step with a receipt or without. This module looks inside, at one
directory: the others are the same and share nothing with it.

| Variable | Code |
|---|---|
| `dir` | the directory as processes see it: the file under each final and temporary name |
| `onDisk` | what may be under each name after a crash of the host: every link and unlink since the last sync of the directory |
| `bytes`, `synced` | the bytes of each file, as the digest they have; whether they are sure to be on disk |
| `receipts` | digests that `publish` has answered for, and that nobody has removed or damaged since |
| `sweeping` | `deleteEntry` between its unlink and its sync |
| `call` | label, digest and open file of each execution |

| Action | Code |
|---|---|
| `Publish`, `Verify` | `publish` is called; `verify` chooses the path |
| `OpenExisting`, `Adopt` | the path over a verified blob: `open`, `sync` of the file |
| `Create`, `Write`, `SyncFile`, `Rename` | the path through a temporary file |
| `SyncDirectory`, `Readback` | both paths: `syncDirectory`; `verify` again, receipt or `integrity_failure` |
| `Fail` | any system call fails, or the process dies; the temporary file is unlinked or stays |
| `CollectTemporary`, `CollectBlob`, `CollectorEnds` | `deleteEntry` in two steps |
| `HostCrash` | each name shows something that may have been on disk, unsynced bytes may be lost |
| `Rot` | the environment: the bytes of a blob change |

A file is named by the temporary name it was created under, which a random UUID makes new. The
collector and rot leave a digest alone while a publication of it is between its first `verify` and
its receipt (`Settling`): for the collector this is what `CollectsOnlyGarbage` says of `WriteGc`, as the
intent makes the digest reachable; rot in that instant would let a readback meet a file of
another publisher whose rename is not final, and is an assumption. With these two, the
branch of `OpenExisting` without a file and that of `Readback` without a receipt are there but
never taken. The directory itself exists and is on disk.

### Repair and the code

| Variable | Code |
|---|---|
| `whole`, `verified` | nodes whose file, whose row in `replicas` is verified, for one content |
| `tasks` | `state` of the `repair_tasks` row of each version, node and generation |
| `generation`, `receipts` | `maintenance_generations`, kind `repair`; receipts of repairs |
| `faults`, `failures` | counters of the bounds |
| `call` | label, local variables and uncommitted rows of each execution |

| Action | Code |
|---|---|
| `StartRead`, `Verify` | `readObject` verifies the replicas of its version one by one |
| `ReadGeneration`, `ReportRow`, `ReportTask`, `CommitRead` | `recordReplicaIssues`, statement by statement |
| `StartRepair`, `Replay` | `repair` reads the generation; `replayMutation`; the early refusals |
| `FindSource`, `PublishTarget`, `PublishFails` | a verified source on another node; `publish` on the target |
| `LockRequest`, `LockGeneration`, `LockTask`, `LockRow`, `CommitRepair` | the mutation: request lock, generation `FOR SHARE`, task `FOR UPDATE`, row of `replicas`, commit |
| `StartAdvance`, `MoveGeneration`, `SelectTasks`, `Supersede`, `CommitAdvance` | `advanceMaintenanceGeneration('repair')`; its `UPDATE repair_tasks` locks the rows it chose one after the other and looks again at each |
| `Victim` | PostgreSQL finds a cycle of waits and aborts one of the calls in it |
| `Abort`, `Damage`, `PutAgain` | a call dies; the environment: a file is lost or damaged; a PUT of the same content publishes it again |

Locks are derived from the labels, as in `WriteGc`, and from the rows that a transaction has written
(`Blockers`); what a transaction writes is seen when it commits. Missing and corrupt files are
treated alike; `observed_state` decides nothing and is left out. There is one content, which may
have several versions; the expected generation of a repair is that of its task, as any other is
refused at once. Advances come under ever new request keys. `PutAgain` is a step, since `WriteGc` has
its inside; it may place files on nodes from which it has no receipt, which leaves a whole file under a row that says nothing of it.

### Multipart and the code

| Variable | Code |
|---|---|
| `state`, `expired`, `parts` | `multipart_uploads` and whether `expires_at` has passed; `multipart_parts` |
| `versions` | versions that completions inserted: the intent that its upload stores, the content |
| `receipts`, `intents`, `live` | `mutation_receipts`; `write_intents`, and those that have not expired |
| `files`, `verified` | blobs of each node; rows of `replicas` that say verified |
| `doomed` | the file that a collection has judged and not yet unlinked, holding the GC row |
| `call` | label, request, bytes, `is_expired` and receipts of `publish` of each execution |

| Action | Code |
|---|---|
| `Initiate` | `initiateMultipart` |
| `StartPart`, `StartComplete`, `StartAbort` | the reads before the first lock: upload, receipt, parts |
| `ReadPart` | `readPartBytes` of one part |
| `Reserve`, `Publish` | `reserveWriteIntent`; `prepareReplicas` on all nodes |
| `Begin` | `withMutation`: request lock, receipt; `SELECT ... FOR UPDATE` of the upload starts |
| `LockForPart`, `CommitPart` | `putMultipartPart` from the row lock; behind the GC row |
| `LockForComplete`, `LockKey`, `CommitComplete` | `completeMultipart` from the row lock; key and precondition; behind the GC row |
| `Replay` | a completion that found its upload completed, under another request key |
| `CommitAbort` | `abortMultipart` |
| `Abort` | death at any point |
| `Expire`, `ExpireIntent` | time passes `expires_at` of an upload, of an intent that protects no attempt |
| `GcJudge`, `GcUnlink` | the reachability query of one file; its unlink, or the end of the collection |

The bytes of a part are one letter and those of an object the word of its parts, so that order
and identity of parts show in the result. `is_expired` is computed when the statement starts and may be old when
the row is granted; `late` keeps it. The collector may judge any file that nothing refers to: scans, ages
and retention only restrict this. `MAX_BYTES` of the joined bytes is left out; uploads share one key.
Of the preconditions of a completion, "none" and "absent" are modelled. `assertPrecondition` also admits a version id that must be the head; with one key
whose versions all come from completions it would be decided under the same key lock as "absent", and `WriteGc` has it for PUT.
The collector leaves the rows in `replicas` of what it unlinks, as the code does: they go on saying
`verified`, and a later version of the same bytes that misses a node inherits the row there (`recordReplicaRows`
does nothing on conflict). `NeededStays` therefore counts only rows that have their file.

## 3. Properties and runs

| Property | What could go wrong |
|---|---|
| `CommittedBytes` | a committed version whose replica rows are below the threshold, or a row `verified` whose file is gone |
| `CollectsOnlyGarbage` | an unlink, some steps after its reachability query, of bytes that became referenced meanwhile |
| `OnlyFencedCollections` | an unlink by a stale worker, of a file its scan never listed, or before the retention |
| `OneOutcome` | a duplicate key in receipts, intents or versions; a receipt without its version; a request answered and still reserved |
| `IntentHeld` | `write intent is missing` (500) for a request whose concurrent twin cleared the row |
| `LinearHistory` | a lost update, a precondition decided on an old head, an identity that takes effect twice |
| `EveryCallEnds` | a cycle of lock waits, a sweep without end |
| `ReaderSeesOneMoment` | pages that mix revisions, skip or repeat a key while writers move the heads |
| `ReadersEnd` | a client that follows `nextOffset` for ever |
| `BucketMadeOnce` | two creations of one name that both succeed |
| `SnapshotPerReceipt` | a second snapshot or receipt of an identity, made on a view without the first |
| `NoPartialBlob` | a partial or unsynced file under a final name, seen by a reader or left by a crash |
| `ReceiptsAreDurable` | a receipt for a blob whose rename a crash undoes, because some other process was to sync it; refinement of `DurableBlobs` |
| `TasksAreFenced` | a repair under a generation that was left, a task that ends twice |
| `OneRepairPerTask` | two repairs of a task under two request keys, a repair without its receipt |
| `DamageHeals` | a file that stays damaged: a task that no worker may take, work that no GET records again, a cycle of waits; says nothing of rows |
| `WorkGetsDone` | recorded work that is never finished, or finished with the row of the replica left bad, after deaths, failed publications, overlapping repairs and advances |
| `UploadEndsOnce` | a completion and an abort that both succeed, a part that reaches a closed upload or is overwritten |
| `LinearUploads` | a request that has its effect twice or in no single step: a completion of parts or a precondition that were so only before, an answer that no order of the requests explains |
| `CompletedIsItsParts` | a version of parts that were not the upload's when it closed, a second version |
| `AnswersHold` | an answered part, completion or abort that another execution contradicts |
| `NeededStays` | parts collected under an open upload, or bytes of a version that a closed upload shared |
| `ExactRetryReplays` | an overlapping retry that gets a raw database error; violated, see below |
| `DegradedReadLeavesWork` | a degraded answer with no task that a worker may take; violated, see below |
| `DegradedReadIsServed` | a GET with whole bytes in hand that waits in a cycle of locks; violated, see below |
| `TypeOK` | the type invariant (of each module); in `ListSnapshot` also the CHECK of `item_count` |

| Run | Instance | Shows |
|---|---|---|
| `collector` | 2 calls; two PUTs of the same bytes, a scan, its collection; 1 node; 4 instants, `Ttl` 2, `Window` 1 | writers against the collector: adoption of old files, renewal and expiry of intents, aborts, retries |
| `sweep` | 2 calls; one PUT, a scan, its collections under two generations, an advance; 2 nodes, threshold 1 | a collection of several items cut at any point, against a retry; the generation fence and the retention |
| `history` | 2 calls; two contents under one request key, compare-and-set, two tombstones; 3 nodes, threshold 2 | identities, preconditions and threshold; refinement of `VersionHistory` |
| `liveness` | as `collector`, 2 instants, strong fairness | every call ends |
| `expired_intent` | 2 calls; one PUT, a scan, its collection; 2 nodes; `Window` 3 and `Ttl` 2 | violation of `CommittedBytes`, see below |
| `lists` | 2 calls, 1 client; two creations of one name, two listings under one request key; 3 keys, 3 versions; first page 1, pages of 1 and 2, `MaxItems` 2 | unique indexes against stale views; listings empty, of one page, of several, and too long; pages against writers |
| `list_retry` | 2 calls; one creation, one listing; 1 key, 1 version | violation of `ExactRetryReplays` |
| `publication` | 2 calls, 1 digest, 3 temporary names | two publishers of one blob, their failures, crashes of the host, rot, the collector |
| `repairs` | 2 calls; 2 nodes, threshold 1, one node spared; 1 fault per replica, 1 failure, 2 generations, 2 request keys; strong fairness | reads, repairs and advances against each other; that files heal and recorded work ends with file and row verified |
| `lost_repair` | as `repairs` with 2 faults, no node spared, 1 generation and request key | violation of `DegradedReadLeavesWork` |
| `repair_deadlock` | as `lost_repair` with 1 fault | violation of `DegradedReadIsServed` |
| `uploads` | 2 calls; 1 upload of 2 parts with 2 possible contents; 3 puts, 3 completions, an abort; 1 node | the races of an upload with itself, with time and with the collector; refinement of `UploadHistory` |

Bounds and why they are enough. Two calls: every interference in this code is
between a call and one other (a writer and the collection, two executions of one
request, two writers of a key), and since a call that has ended is free to start again, sequences
of any length over the same mutations occur. One key and one or two contents: keys
interact through nothing but contents, and contents not at all. Four instants let an
intent be reserved, expire, be renewed and the file it left outlive its retention. The real threshold of two of
three nodes is in `history`; the runs about the collector use fewer nodes because nodes
differ only in which of them a file is on. `MaxTime` bounds the clock, `NodeCount`,
`Ttl`, `Window` and the sets of mutations bound the rest; `gcGen` and
the histories are bounded by the mutations, each of which commits once. The symmetry of the
safety runs permutes calls, which no definition distinguishes; `liveness` uses none.
Deadlock is checked in every run; but an aborting environment
can always move, so that it is `EveryCallEnds` that speaks about waiting.

Fairness. `SF_vars(Step(c))` for each call: its own code goes on as long as it
can. For steps that wait for a lock this needs strong fairness, which PostgreSQL
gives by serving lock waiters in order of arrival; for the other steps, which
stay enabled, it is weak fairness of the running process. Clients, failures and the clock
get none. `ReadersEnd` assumes instead that a client which began to read goes on
(`WF_vars` of its two steps); nothing in the service may keep it from ending.

`lists` has three keys against `MaxItems` 2 so that a listing can be too
long by one, and pages that end before, at and beyond the last item; three versions fill a listing
of two and rewrite or delete one of its keys between two pages. `MaxVersions` is its one bound on counting.

`publication` has a third temporary name so that a file that was left behind can be there beside those of two
publishers; the directories of the code differ in nothing but their path. In `repairs` one node is spared because a
repair needs a source: were every replica bad nothing could heal. Its other replica is lost or damaged
once, or never placed, which counts as its fault; `lost_repair` shows why once. `MaxFailures`
is 1 because after a failure every other call starts from a state that is in the run anyway. One failure and one
advance may come anywhere. In `uploads` one node suffices for what the properties say, since
an upload knows its bytes and not where they are; a publication that misses its threshold
ends the attempt, and thresholds of several nodes are the matter of `history` and `sweep`.

The fairness of `repairs`: a call goes on or, in a cycle of waits, one of its calls is aborted
(`SF` of `Step` or `Victim`, which is PostgreSQL's queue and detector); clients read the object again
and again (`SF` of `StartRead`); for each node that is not spared workers take up the pending task of the current
generation again and again (`SF` of `StartCurrent`). The last two are what an operator is asked to do
(`docs/operations.md`), strong because a free call is not always there. No part of the program schedules
reads or repairs: `DamageHeals` and `WorkGetsDone` are what the code makes of such clients and workers, not what it does alone.

### A retry that overlaps

`createListSnapshot` asks for REPEATABLE READ, and its first statement is the
one that waits for the request lock, so that the view is older than the lock. An exact
retry that overlaps the first execution waits, gets the lock, does not see the receipt that
was committed meanwhile, and fails on the primary key of `list_snapshots`. `docs/requirements.md:20`
says that it replays. The error leaves as `internal_error` 500, because
`translateDatabaseError` (`src/repository.js:136`) has no caller. The data stay correct: that is
what `lists` shows. Taking the lock for the session before `BEGIN`, or
translating the error and retrying, would answer as documented. `InsertBucket` reaches the same label
`failed`: two requests that create one bucket name take different request
locks, both find the name free, and one fails on the primary key of `buckets`, where
`docs/api.md:36` says that it conflicts.

### Damage that comes back

A repair task is known by version, node and generation, and a report of a task that is there only
updates its `observed_state` (`src/service.js:356`). A replica that is damaged again in the generation in
which it was repaired finds its task in state `repaired`: the GET answers with the id of that task, `repair` refuses
it, and nothing is pending until an operator advances the generation. `docs/requirements.md:25` promises
"durable repair work" with every degraded receipt. `lost_repair` shows the shortest history;
the files of replicas that have one fault each do heal (`DamageHeals`). A GET that read the generation just before an advance superseded its
task leaves no work either, but the next GET does. Setting a `repaired` task back to `pending` on conflict would do.

### Rows that stay bad

The row of a replica may stay bad although its file is whole and nothing is pending. There are two ways.

- A late report: a GET meets the damaged file, a repair of the task that another GET recorded commits, and then
  the first GET reports. Its transaction sets the row back (`src/service.js:339`) and finds the task `repaired`, which it leaves.
- A lost commit: a repair publishes its target, and an advance supersedes its task before it locks the generation. The file is whole, the
  row was never turned.

In both every later GET finds the file whole and records nothing; there is no task to repair. The replica is counted among
`corrupt_replicas` or `missing_replicas`, and its versions perhaps among `under_replicated_versions` (`state`), until a write of the same bytes gets
a receipt from the node, or the file is damaged once more and a later generation repairs it. No bytes are lost. The model has both histories (without `\ whole` in `DegradedReadLeavesWork`
TLC finds the first with a single fault), and `DamageHeals` holds in spite of them because it is about files only. What can be said of
rows is `WorkGetsDone`: a pending task of the current generation is repaired with file and row verified together, or an advance leaves it behind.

### Two orders of row locks

A GET that records a bad replica updates its row in `replicas` and then its task; a repair locks the task and then
updates the row. When both meet, PostgreSQL aborts one of them. If it is the GET, the client
gets `internal_error` although whole bytes of another replica had been verified; nothing retries
(`repair_deadlock`). No state is damaged, and `DamageHeals` and `WorkGetsDone` hold with such victims. Locking the task
first in `recordReplicaIssues`, or in its own transaction after the answer, would avoid it.

### The window of a write

`CommittedBytes` needs `Window < Ttl`: no PUT attempt takes longer from its
reservation to its commit than its intent lives. `docs/requirements.md:18` states
this of "the supported bounded write/retry window", and the default
`OBJECT_WRITE_INTENT_TTL_MS` of 300 s makes it likely; but no code bounds
the attempt (there is no deadline on `publish` or on a lock wait), and
`assertWriteIntent` does not look at `expires_at`. The run `expired_intent` lets
an attempt outlive its intent, and the code then commits a
version with a `verified` replica row whose file a legitimate
collection has removed, against `docs/architecture.md:29` ("metadata must never
expose an unverified version"). A test of `expires_at` in `assertWriteIntent`, under
the generation row, would make the property independent of time.

Each property has a mutant, a plausible bug of the code, under which its run
finds a violation: an intent that is not renewed, a request or a key that is not locked, a generation
row read without a lock, a receipt that is not consulted, a threshold that
counts attempts, a fence that forgets the generation of the scan, a fence checked before the publication only,
a task that is not looked at again under its lock,
a repair that marks the row of its source, a part or an upload read without a lock, a file that is not synced. The mutated operators stand in
module directly before the definition they would replace.

## 4. Theorems

For every set of calls, mutations, keys, contents, digests, uploads, buckets and clients, and every number of nodes,
threshold, time-to-live, generation and bound, under the assumptions at the head of each module: counts are
natural numbers, and the threshold is at least one and at most the number of nodes, which is finite; the
fields of a request have the types of its kind; null values are none of the values they stand beside. Two say a
little more. `NamesAssumption` (`ReplicaStore`): no temporary name is a final one. `CompletionAssumption` (`Multipart`): two completions of one
upload with one request key and one precondition are one request, since nothing else enters `intentDigest`.

| Module | Theorem | Statement |
|---|---|---|
| `WriteGcFrames` | `TypeCorrect` | `Spec => []TypeOK` |
| `WriteGcHistory` | `OneOutcomePerIdentity` | `Spec => []OneOutcome` |
| | `IntentIsHeld` | `Spec => []IntentHeld` |
| | `HistoryIsLinear` | `Spec => LinearHistory`, the refinement of `VersionHistory` |
| `WriteGcBytes` | `GcCollectsOnlyGarbage` | `Spec => CollectsOnlyGarbage` |
| | `GcIsFenced` | `Spec => OnlyFencedCollections` |
| | `CommittedBytesStay` | `Window < Ttl` implies `Spec => []CommittedBytes` |
| `ReplicaStoreProofs` | `StoreTypes`, `StoreWhole` | `Spec => []TypeOK`, `Spec => []NoPartialBlob` |
| | `StoreKeepsPromises` | `Spec => ReceiptsAreDurable`, the refinement of `DurableBlobs` |
| `MultipartProofs` | `UploadAnswersHold`, `UploadsComplete` | `Spec => []AnswersHold`, `Spec => []CompletedIsItsParts` |
| | `UploadsEndOnce` | `Spec => UploadEndsOnce` |
| | `UploadsAreLinear` | `Spec => LinearUploads`, the refinement of `UploadHistory` |
| `MultipartBytes` | `UploadTypes`, `UploadBytesStay` | `Spec => []TypeOK`, `Spec => []NeededStays` |
| `RepairProofs` | `RepairTypes`, `RepairsOnce` | `Spec => []TypeOK`, `Spec => []OneRepairPerTask` |
| | `RepairTasksFenced` | `Spec => TasksAreFenced` |
| `ListSnapshotProofs` | `ListTypes`, `BucketsMadeOnce` | `Spec => []TypeOK`, `Spec => []BucketMadeOnce` |
| | `SnapshotsPerReceipt` | `Spec => []SnapshotPerReceipt` |
| | `ReadersSeeOneMoment` | `Spec => []ReaderSeesOneMoment` |

The runs with fairness check these of a stronger specification, which implies `Spec`. `StoreDurable`, `UploadsInOrder`,
`UploadsGuarded`, `RepairsFenced` and `ListsConsistent` state the inductive invariants themselves. Each was first checked by TLC, as an
invariant of the run of its module.

### WriteGc

The invariants are built in layers, each inductive relative to the ones
before; each was first checked by TLC as an invariant of the runs above.

1. `Typed`: the type invariant and, for each label, the kinds of mutation that reach it.
2. `Locks`: no two calls hold the same request, the same key or the generation row. It is what
   `RequestFree`, `KeyFree` and `GcRowFree` establish at the acquisition.
3. `Identities`: `OneOutcome` is not inductive. An insert adds no duplicate because its call
   holds the request lock and saw no receipt (`Unanswered`); a PUT finds its intent because the row is
   there, at least as young as the attempt, until some execution of the request has committed
   (`Reserved`); a version is filed under its own key (`Filed`).
4. `Heads`: the head is the last version, and what a call decided under the key lock still holds.
   With `Identities`, every commit is an `Accept` of `VersionHistory` and every other step stutters.
5. `Collector`: one file per place, and the holder of the generation row has passed both fences, works
   on files of its own scan that are old enough and, once judged, unreachable. Judgement stays
   true until the unlink because making a digest reachable takes the generation row.
6. `Bytes`: verified rows have their file and a committed version (`Backed`), committed versions their
   threshold (`Enough`), and the nodes an attempt has receipts from keep the file (`Attempted`), which is where
   `Window < Ttl` enters: the attempt's intent has not expired, so that its digest is reachable.

### ReplicaStore

`NoPartialBlob` says nothing of files that are still being written, so it is not inductive. `Durable` adds who may change a file: a call that
writes, syncs or renames one has it alone, under no final name in the directory or on disk (`Exclusive`); its bytes are whole once
written and on disk before the rename (`Written`). A rename therefore puts a whole file in place, and the names
that a crash may show of a digest are `Final` once the directory was synced, because no step in between
places anything else there. A receipt is given on a final digest, and every later step keeps it final or takes the receipt away. With `Durable`, each
step is a `Place`, `Promise`, `Lose` or `Crash` of `DurableBlobs`, or a stutter.

### Multipart

`Uploads`: the request lock and the row lock of the upload exclude (`Exclusion`). What a call checked after it got the row
still holds (`Checked`: the upload is open, the part is not there, the bytes that were read are those of the parts), and a request that is held
is unanswered (`Asked`). A version is the only one of its upload and is its parts (`Versions`). Bytes that a completion
read before any lock are safe because a part is written once, and all were there when it began.

With `Keyed`, which says that what a completion found of the key still holds until it commits, each step is one of
`UploadHistory` or a stutter. Two steps take some care: an execution that finds its part or its completion already there
takes effect at its answer, as `PutPart` or `Confirm`; and a retry that replays a completed upload is a stutter if another execution of its
request was answered since it looked. The run `uploads` has one upload, so that no completion there is refused by its precondition; the theorem covers any number.

`Guarded` adds the collector: from its reservation on, an attempt has a live intent and its files, or its
request was answered and it will give up (`Protected`), so that what it commits has its threshold (`Enough`); and a doomed file is
unreachable, since everything that makes one reachable waits for the generation row (`DoomedUnreachable`). A part is
needed while its upload is open and has not expired, and the bytes of a version always. Time enters as in the module: an intent expires only when it protects no attempt.

### Repair

`Fencing`: the row of a task is locked by one call, and who moves the generation is alone (`Exclusion`). Hence a task that
a repair or an advance found pending is pending until it commits, and the generation that a repair compared with its task's stands still while it is
shared (`Checked`). Repaired tasks and receipts correspond (`Receipts`). Nothing is said of replicas: their rows and files may disagree with the tasks
at any time. That files become whole again (`DamageHeals`), and that recorded work ends with file and row verified (`WorkGetsDone`), is left
to TLC; that rows and files always agree in the end is not true ("Rows that stay bad").

### ListSnapshot

`Consistent`: the view of a listing is a past of every bucket (`Seen`), because the rows of a bucket only grow, and it stays one however stale the view
gets. A request that makes a bucket is unanswered while it holds its lock, and an uncommitted row is nobody else's (`Unanswered`, `InsertedOnce`). A listing cannot
say so, as it looks for its receipt in its view; there it is the unique indexes that keep identities and snapshots single (`Answered`). What a client holds is a
beginning of a snapshot up to its offset (`Reading`): a page goes on where the pages before it ended (`PageGoesOn`), so that at the end the client holds
all of it, which is the listing of a past.

### What stays with TLC

- `EveryCallEnds`, `ReadersEnd`, `DamageHeals` and `WorkGetsDone`: liveness under fairness is beyond the prover.
- The violations: `ExactRetryReplays`, `DegradedReadLeavesWork`, `DegradedReadIsServed`, and `CommittedBytes` where `Window` is not less than `Ttl`.

No definition that is proved about is recursive. The theorems use induction only through facts of the library about finite sets,
sequences and well-founded relations: that a finite set of numbers has a least one, that two finite sets of one size have a bijection.

## 5. Plan

The modules planned are done, and every safety property that a run checks and that holds is a theorem. What could be added:

1. An abstract specification of list snapshots: a reader gets an ordered, complete listing at once, of which the pages are shown to be an implementation.
2. One of repair: a task is pending, and ends once.

## 6. Not modelled

- HTTP decoding and routing, validation of inputs (`contracts.js`), canonical JSON, logging and the `state` summary keep no state; digests are taken to
  be collision-free, so that a value stands for its digest.
- `byteRange` and `MAX_BYTES`: they choose or refuse bytes of one request and change nothing.
- The creation of the directories: `initialize` does not sync their parents, and a crash of the host
  could take them away. The connection pool of eight: a transaction never asks for a second connection, so that
  waiting for one adds delay but no cycle.
- PostgreSQL itself and the file system are assumed to do what they document. The scripts and
  tests drive the service and were read as documentation.
