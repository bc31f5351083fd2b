------------------------------- MODULE Repair -------------------------------
(***************************************************************************)
(* Degraded reads and repair of the replicas of one content: readObject    *)
(* with recordReplicaIssues, repair, and advanceMaintenanceGeneration of   *)
(* kind 'repair', while replicas are damaged and the content is put again. *)
(*                                                                         *)
(* A replica is whole or not: missing and corrupt are treated alike.  The  *)
(* transactions lock rows of replicas and repair_tasks in the order of the *)
(* code, so that they can wait for each other; PostgreSQL then aborts one. *)
(* What a transaction writes is seen by others when it commits.            *)
(***************************************************************************)
EXTENDS Naturals, FiniteSets, FiniteSetsExt

CONSTANTS
  Call,           \* executions of GET, repair and advance
  Version,        \* data versions that have the content
  Request,        \* request keys of repairs
  NodeCount,      \* nodes are 1 .. NodeCount, in the order of NODE_IDS
  Required,       \* REQUIRED_REPLICAS
  Nothing,        \* no version, task or request
  Spared,         \* nodes whose replica stays whole
  MaxFaults,      \* bound of the faults of one replica
  MaxFailures,    \* bound of the calls that die or fail to publish
  MaxGeneration   \* bound of the generation

Node       == 1 .. NodeCount
Generation == 1 .. MaxGeneration

\* Key of repair_tasks: what deterministicId digests.
Task == [version : Version, node : Node, generation : Generation]

ASSUME BoundsAssumption ==
  /\ NodeCount \in Nat \ {0} /\ Required \in Node /\ Spared \subseteq Node
  /\ MaxFaults \in Nat /\ MaxFailures \in Nat /\ MaxGeneration \in Nat \ {0}

ASSUME NothingAssumption == Nothing \notin Version \cup Task \cup Request

VARIABLES
  whole,       \* nodes whose file is verified
  verified,    \* nodes whose row in replicas says verified
  tasks,       \* state of each row of repair_tasks
  generation,  \* maintenance generation of kind 'repair'
  receipts,    \* rows of mutation_receipts: a request and its task
  faults,      \* faults of each replica so far
  failures,    \* calls that died or failed to publish so far
  call         \* local state of each execution

vars == <<whole, verified, tasks, generation, receipts, faults, failures, call>>

database == <<verified, tasks, generation, receipts>>

failed == <<faults, failures>>

PC == {"idle",
       "verifying", "reporting",            \* GET
       "replaying", "sourcing", "publishing",
       "request", "generation",             \* repair, advance: next lock
       "row", "task",                       \* any: next lock
       "selecting",                         \* advance
       "commit"}

Idle == [pc |-> "idle", kind |-> "none", version |-> Nothing, task |-> Nothing,
         request |-> Nothing, at |-> 0, generation |-> 0,
         issues |-> {}, chosen |-> {}, rows |-> {}, tasks |-> {}]

-----------------------------------------------------------------------------
(* Locks.                                                                  *)

HoldsRequest(d) == call[d].kind = "repair" /\ call[d].pc \in {"generation", "task", "row", "commit"}

SharesGeneration(d) == call[d].kind = "repair" /\ call[d].pc \in {"task", "row", "commit"}

HoldsGeneration(d) == call[d].kind = "advance" /\ call[d].pc \in {"selecting", "task", "commit"}

\* Calls that c waits for.
Blockers(c) ==
  {d \in Call \ {c} :
     CASE call[c].pc \in {"replaying", "request"} ->
            /\ HoldsRequest(d)
            /\ call[d].task = call[c].task /\ call[d].request = call[c].request
       [] call[c].pc = "generation" /\ call[c].kind = "repair" -> HoldsGeneration(d)
       [] call[c].pc = "generation" -> SharesGeneration(d) \/ HoldsGeneration(d)
       [] call[c].pc = "row"        -> call[c].at \in call[d].rows
       [] call[c].pc = "task"       -> call[c].task \in call[d].tasks
       [] OTHER                     -> FALSE}

Granted(c) == Blockers(c) = {}

\* The detector of PostgreSQL finds c in a cycle of waits.
Deadlocked(c) ==
  \E cycle \in SUBSET Call :
    /\ c \in cycle
    /\ \A d \in cycle : Blockers(d) \cap cycle # {}
    /\ \A d \in cycle : \E e \in cycle : d \in Blockers(e)

-----------------------------------------------------------------------------
\* Bug: the connection is released before its transaction ends.
Leak(c) == call' = [call EXCEPT ![c].pc = "idle"]

Return(c) == call' = [call EXCEPT ![c] = Idle]

Goto(c, label) == call' = [call EXCEPT ![c].pc = label]

\* A PUT that reached its threshold left the content on some nodes.
Init ==
  /\ whole \in {nodes \in SUBSET Node : Cardinality(nodes) >= Required /\ Spared \subseteq nodes}
  /\ verified = whole
  /\ tasks = [t \in Task |-> "none"]
  /\ generation = 1
  /\ receipts = {}
  /\ faults = [n \in Node |-> IF n \in whole THEN 0 ELSE 1]
  /\ failures = 0
  /\ call = [c \in Call |-> Idle]

-----------------------------------------------------------------------------
(* readObject.                                                             *)

StartRead(c, v) ==
  /\ call[c].pc = "idle"
  /\ call' = [call EXCEPT ![c] =
       [Idle EXCEPT !.pc = "verifying", !.kind = "read", !.version = v, !.at = 1]]
  /\ UNCHANGED <<whole, database, failed>>

\* The files of the manifest are verified one after the other.
Verify(c) ==
  LET n == call[c].at
      issues == IF n \in whole THEN call[c].issues ELSE call[c].issues \cup {n}
  IN
  /\ call[c].pc = "verifying"
  /\ IF n < NodeCount
     THEN call' = [call EXCEPT ![c].at = n + 1, ![c].issues = issues]
     ELSE IF issues = {} THEN Return(c)
     ELSE call' = [call EXCEPT ![c].pc = "reporting", ![c].at = Min(issues), ![c].issues = issues]
  /\ UNCHANGED <<whole, database, failed>>

\* Bug: one task per version and node, whatever the generation.
IdWithoutGeneration(v, n, g) == [version |-> v, node |-> n, generation |-> 1]

\* deterministicId('rpr', ...)
TaskId(v, n, g) == [version |-> v, node |-> n, generation |-> g]

\* recordReplicaIssues reads the generation without a lock.
ReadGeneration(c) ==
  /\ call[c].pc = "reporting"
  /\ call' = [call EXCEPT ![c].pc = "row", ![c].generation = generation,
                          ![c].task = TaskId(call[c].version, call[c].at, generation)]
  /\ UNCHANGED <<whole, database, failed>>

\* The issue after the one that c has recorded.
NextIssues(c) == {n \in call[c].issues : n > call[c].at}

\* UPDATE replicas
ReportRow(c) ==
  /\ call[c].kind = "read" /\ call[c].pc = "row" /\ Granted(c)
  /\ call' = [call EXCEPT ![c].pc = "task", ![c].rows = @ \cup {call[c].at}]
  /\ UNCHANGED <<whole, database, failed>>

\* INSERT INTO repair_tasks ... ON CONFLICT
ReportTask(c) ==
  LET held == call[c].tasks \cup {call[c].task} IN
  /\ call[c].kind = "read" /\ call[c].pc = "task" /\ Granted(c)
  /\ call' = IF NextIssues(c) = {}
             THEN [call EXCEPT ![c].pc = "commit", ![c].tasks = held]
             ELSE LET n == Min(NextIssues(c)) IN
                  [call EXCEPT ![c].pc = "row", ![c].tasks = held, ![c].at = n,
                               ![c].task = TaskId(call[c].version, n, call[c].generation)]
  /\ UNCHANGED <<whole, database, failed>>

\* ON CONFLICT leaves the state of a task that is there.
Recorded(t) == IF tasks[t] = "none" THEN "pending" ELSE tasks[t]

CommitRead(c) ==
  /\ call[c].kind = "read" /\ call[c].pc = "commit"
  /\ verified' = verified \ call[c].rows
  /\ tasks' = [t \in Task |-> IF t \in call[c].tasks THEN Recorded(t) ELSE tasks[t]]
  /\ Return(c)
  /\ UNCHANGED <<whole, generation, receipts, failed>>

-----------------------------------------------------------------------------
(* repair.  The expected generation is the task's: any other is refused.   *)

StartRepair(c, t, r) ==
  /\ call[c].pc = "idle" /\ tasks[t] # "none"
  /\ call' = [call EXCEPT ![c] =
       [Idle EXCEPT !.pc = "replaying", !.kind = "repair", !.task = t, !.request = r,
                    !.generation = generation]]
  /\ UNCHANGED <<whole, database, failed>>

Receipt(c) == [task |-> call[c].task, request |-> call[c].request]

\* replayMutation, and the check of the generation that was read before.
Replay(c) ==
  /\ call[c].pc = "replaying" /\ Granted(c)
  /\ IF Receipt(c) \in receipts \/ call[c].generation # call[c].task.generation
     THEN Return(c)
     ELSE call' = [call EXCEPT ![c].pc = "sourcing", ![c].at = 1]
  /\ UNCHANGED <<whole, database, failed>>

\* Bug: the row of the source is marked.
Source(c) == call[c].at

Target(c) == call[c].task.node

\* The first verified file of another node.
FindSource(c) ==
  LET n == call[c].at IN
  /\ call[c].pc = "sourcing"
  /\ IF n \in whole \ {call[c].task.node}
     THEN call' = [call EXCEPT ![c].pc = "publishing", ![c].at = Target(c)]
     ELSE IF n < NodeCount THEN call' = [call EXCEPT ![c].at = n + 1]
     ELSE Return(c)
  /\ UNCHANGED <<whole, database, failed>>

Placed(c) == whole \cup {call[c].task.node}

PublishTarget(c) ==
  /\ call[c].pc = "publishing"
  /\ whole' = Placed(c)
  /\ Goto(c, "request")
  /\ UNCHANGED <<database, failed>>

\* publish fails with or without the file in its place.
PublishFails(c) ==
  /\ call[c].pc = "publishing"
  /\ whole' \in {whole, Placed(c)}
  /\ failures' = failures + 1 /\ failures' <= MaxFailures
  /\ Return(c)
  /\ UNCHANGED <<database, faults>>

LockRequest(c) ==
  /\ call[c].kind = "repair" /\ call[c].pc = "request" /\ Granted(c)
  /\ IF Receipt(c) \in receipts THEN Return(c) ELSE Goto(c, "generation")
  /\ UNCHANGED <<whole, database, failed>>

\* Bug: the generation that was read before the publication is trusted.
FencedBefore(c) == call[c].generation = call[c].task.generation

Fenced(c) == generation = call[c].task.generation

\* FOR SHARE
LockGeneration(c) ==
  /\ call[c].kind = "repair" /\ call[c].pc = "generation" /\ Granted(c)
  /\ IF Fenced(c) THEN Goto(c, "task") ELSE Return(c)
  /\ UNCHANGED <<whole, database, failed>>

\* Bug: the state of the task is not checked again.
Known(t) == tasks[t] # "none"

Workable(t) == tasks[t] = "pending"

\* FOR UPDATE
LockTask(c) ==
  /\ call[c].kind = "repair" /\ call[c].pc = "task" /\ Granted(c)
  /\ IF Workable(call[c].task)
     THEN call' = [call EXCEPT ![c].pc = "row", ![c].tasks = {call[c].task}]
     ELSE Return(c)
  /\ UNCHANGED <<whole, database, failed>>

LockRow(c) ==
  /\ call[c].kind = "repair" /\ call[c].pc = "row" /\ Granted(c)
  /\ call' = [call EXCEPT ![c].pc = "commit", ![c].rows = {call[c].at}]
  /\ UNCHANGED <<whole, database, failed>>

CommitRepair(c) ==
  /\ call[c].kind = "repair" /\ call[c].pc = "commit"
  /\ verified' = verified \cup call[c].rows
  /\ tasks' = [tasks EXCEPT ![call[c].task] = "repaired"]
  /\ receipts' = receipts \cup {Receipt(c)}
  /\ Return(c)
  /\ UNCHANGED <<whole, generation, failed>>

-----------------------------------------------------------------------------
(* advanceMaintenanceGeneration of kind 'repair', with a new request key.  *)

StartAdvance(c) ==
  /\ call[c].pc = "idle" /\ generation < MaxGeneration
  /\ call' = [call EXCEPT ![c] = [Idle EXCEPT !.pc = "generation", !.kind = "advance"]]
  /\ UNCHANGED <<whole, database, failed>>

\* UPDATE maintenance_generations: one at a time, within the bound.
MoveGeneration(c) ==
  /\ call[c].kind = "advance" /\ call[c].pc = "generation" /\ Granted(c)
  /\ IF generation < MaxGeneration THEN Goto(c, "selecting") ELSE Return(c)
  /\ UNCHANGED <<whole, database, failed>>

\* The row that the UPDATE turns to next, in no order; held is what it has locked.
TurnTo(c, chosen, held) ==
  IF chosen = {} THEN call' = [call EXCEPT ![c].pc = "commit", ![c].tasks = held]
  ELSE \E t \in chosen :
    call' = [call EXCEPT ![c].pc = "task", ![c].tasks = held,
                         ![c].task = t, ![c].chosen = chosen \ {t}]

\* UPDATE repair_tasks starts with the pending tasks that it sees.
SelectTasks(c) ==
  /\ call[c].pc = "selecting"
  /\ TurnTo(c, {t \in Task : tasks[t] = "pending" /\ t.generation <= generation}, {})
  /\ UNCHANGED <<whole, database, failed>>

\* It locks one after the other, and looks again at each.
Supersede(c) ==
  LET t == call[c].task IN
  /\ call[c].kind = "advance" /\ call[c].pc = "task" /\ Granted(c)
  /\ TurnTo(c, call[c].chosen, call[c].tasks \cup (IF tasks[t] = "pending" THEN {t} ELSE {}))
  /\ UNCHANGED <<whole, database, failed>>

CommitAdvance(c) ==
  /\ call[c].kind = "advance" /\ call[c].pc = "commit"
  /\ generation' = generation + 1
  /\ tasks' = [t \in Task |-> IF t \in call[c].tasks THEN "superseded" ELSE tasks[t]]
  /\ Return(c)
  /\ UNCHANGED <<whole, verified, receipts, failed>>

-----------------------------------------------------------------------------
\* PostgreSQL breaks a cycle: the request is answered with internal_error.
Victim(c) ==
  /\ Deadlocked(c)
  /\ Return(c)
  /\ UNCHANGED <<whole, database, failed>>

\* A call dies between two steps; its transaction is rolled back.
Abort(c) ==
  /\ call[c].pc # "idle"
  /\ failures' = failures + 1 /\ failures' <= MaxFailures
  /\ Return(c)
  /\ UNCHANGED <<whole, database, faults>>

\* The file of a node is lost or damaged.
Damage(n) ==
  /\ n \in whole \ Spared /\ faults[n] < MaxFaults
  /\ whole' = whole \ {n}
  /\ faults' = [faults EXCEPT ![n] = @ + 1]
  /\ UNCHANGED <<database, failures, call>>

\* A PUT of the same content, under any key, publishes it on some nodes, and
\* has receipts from some of them.
PutAgain(nodes) ==
  /\ Cardinality(nodes) >= Required
  /\ \A d \in Call : call[d].rows \cap nodes = {}
  /\ \E placed \in SUBSET Node : nodes \subseteq placed /\ whole' = whole \cup placed
  /\ verified' = verified \cup nodes
  /\ UNCHANGED <<tasks, generation, receipts, failed, call>>

ReadStep(c) ==
  Verify(c) \/ ReadGeneration(c) \/ ReportRow(c) \/ ReportTask(c) \/ CommitRead(c)

RepairStep(c) ==
  \/ Replay(c) \/ FindSource(c) \/ PublishTarget(c) \/ PublishFails(c)
  \/ LockRequest(c) \/ LockGeneration(c) \/ LockTask(c) \/ LockRow(c) \/ CommitRepair(c)

AdvanceStep(c) == MoveGeneration(c) \/ SelectTasks(c) \/ Supersede(c) \/ CommitAdvance(c)

Step(c) == ReadStep(c) \/ RepairStep(c) \/ AdvanceStep(c)

Next ==
  \/ \E c \in Call :
       \/ Step(c) \/ Victim(c) \/ Abort(c) \/ StartAdvance(c)
       \/ \E v \in Version : StartRead(c, v)
       \/ \E t \in Task, r \in Request : StartRepair(c, t, r)
  \/ \E n \in Node : Damage(n)
  \/ \E nodes \in SUBSET Node : PutAgain(nodes)

Spec == Init /\ [][Next]_vars

\* A worker takes up the current task of node n.
StartCurrent(n) ==
  \E c \in Call, t \in Task, r \in Request :
    /\ t.node = n /\ t.generation = generation /\ tasks[t] = "pending"
    /\ StartRepair(c, t, r)

\* Clients read, and workers repair, again and again; PostgreSQL serves those
\* who wait for a lock.
Fairness ==
  /\ \A c \in Call : SF_vars(Step(c) \/ Victim(c))
  /\ SF_vars(\E c \in Call, v \in Version : StartRead(c, v))
  /\ \A n \in Node \ Spared : SF_vars(StartCurrent(n))

FairSpec == Spec /\ Fairness
-----------------------------------------------------------------------------
(* Properties.                                                             *)

\* Every variable stays in its domain; an idle call holds nothing.
TypeOK ==
  /\ whole \subseteq Node /\ verified \subseteq Node
  /\ tasks \in [Task -> {"none", "pending", "repaired", "superseded"}]
  /\ generation \in Generation
  /\ receipts \subseteq [task : Task, request : Request]
  /\ faults \in [Node -> 0 .. MaxFaults + 1] /\ failures \in 0 .. MaxFailures
  /\ \A c \in Call :
       /\ call[c].pc \in PC /\ call[c].kind \in {"none", "read", "repair", "advance"}
       /\ call[c].version \in Version \cup {Nothing} /\ call[c].request \in Request \cup {Nothing}
       /\ call[c].task \in Task \cup {Nothing}
       /\ call[c].at \in 0 .. NodeCount /\ call[c].generation \in 0 .. MaxGeneration
       /\ call[c].issues \subseteq Node /\ call[c].rows \subseteq Node
       /\ call[c].chosen \subseteq Task /\ call[c].tasks \subseteq Task
       /\ call[c].pc = "idle" => call[c] = Idle

\* A task ends once: it is repaired under its own generation, by a worker that
\* no advance has overtaken, or superseded by a later one, also if the GET that
\* records it read the generation before the advance.
TasksAreFenced ==
  [][\A t \in Task :
       LET from == tasks[t]
           to   == tasks'[t]
       IN from # to =>
            \/ from = "none" /\ to = "pending"
            \/ from = "pending" /\ to = "repaired" /\ t.generation = generation
            \/ from = "pending" /\ to = "superseded" /\ t.generation < generation']_vars

\* However many requests, retries and deaths there are for a task, one repair
\* of it is committed, with its receipt.
OneRepairPerTask ==
  \A t \in Task : Cardinality({r \in receipts : r.task = t}) = (IF tasks[t] = "repaired" THEN 1 ELSE 0)

\* The file of a replica that is lost or damaged once becomes whole again, if
\* clients read and workers repair, whatever deaths, advances, overlapping
\* reports and cycles of lock waits come in between.  Its row is another matter:
\* the next property.
DamageHeals == \A n \in Node : n \notin whole ~> n \in whole

\* Work that a GET recorded in time gets done: a pending task of the current
\* generation is repaired, with the file whole and its row verified at once,
\* unless an advance makes it stale.  Nothing is promised to a row without
\* pending work: a report that comes after the repair leaves it bad for good.
WorkGetsDone ==
  \A t \in Task :
    tasks[t] = "pending" /\ t.generation = generation ~>
      \/ tasks[t] = "repaired" /\ t.node \in whole \cap verified
      \/ generation > t.generation

\* A GET that met bad replicas leaves a pending task for each that is still bad.
\* The code does not: a task that was already repaired stays repaired.
DegradedReadLeavesWork ==
  [][\A c \in Call : CommitRead(c) =>
       \A n \in call[c].issues \ whole : \E t \in Task :
         t.version = call[c].version /\ t.node = n /\ tasks'[t] = "pending"]_vars

\* A GET that found a whole replica is not caught in a cycle of lock waits.
\* The code does not prevent it: GET locks the row of a replica and then its
\* task, repair the task and then the row.
DegradedReadIsServed ==
  \A c \in Call : call[c].kind = "read" /\ call[c].issues # Node => ~Deadlocked(c)
=============================================================================
