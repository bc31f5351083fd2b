---------------------------- MODULE RepairProofs ----------------------------
(***************************************************************************)
(* Proofs about Repair for any number of calls, versions, nodes, requests  *)
(* and generations: a task ends once, under its generation, with one       *)
(* repair.                                                                 *)
(*                                                                         *)
(* The argument is that of the row locks.  A task that a repair or an      *)
(* advance has locked and found pending is pending until it commits, and   *)
(* the generation does not move under a repair that shares it.             *)
(***************************************************************************)
EXTENDS Repair, FiniteSetTheorems, WellFoundedInduction, TLAPS

-----------------------------------------------------------------------------
(* The inductive invariant.                                                *)

CallState ==
  [pc : PC, kind : {"none", "read", "repair", "advance"},
   version : Version \cup {Nothing}, task : Task \cup {Nothing}, request : Request \cup {Nothing},
   at : 0 .. NodeCount, generation : 0 .. MaxGeneration,
   issues : SUBSET Node, chosen : SUBSET Task, rows : SUBSET Node, tasks : SUBSET Task]

\* What the kind and the label of a call say of its record.
Shape(s) ==
  /\ s.pc = "idle" => s = Idle
  /\ s.pc # "idle" => s.kind # "none"
  /\ s.kind = "read" =>
       /\ s.pc \in {"verifying", "reporting", "row", "task", "commit"}
       /\ s.version \in Version /\ s.at \in Node
       /\ s.pc \in {"row", "task", "commit"} => s.task \in Task /\ s.generation \in Generation
  /\ s.kind = "repair" =>
       /\ s.pc \in PC \ {"idle", "verifying", "reporting", "selecting"}
       /\ s.task \in Task /\ s.request \in Request
       /\ s.pc # "replaying" => s.at \in Node
  /\ s.kind = "advance" =>
       /\ s.pc \in {"generation", "selecting", "task", "commit"}
       /\ s.pc = "task" => s.task \in Task

Types ==
  /\ whole \subseteq Node /\ verified \subseteq Node
  /\ tasks \in [Task -> {"none", "pending", "repaired", "superseded"}]
  /\ generation \in Generation
  /\ receipts \subseteq [task : Task, request : Request]
  /\ faults \in [Node -> 0 .. MaxFaults + 1] /\ failures \in 0 .. MaxFailures
  /\ call \in [Call -> CallState] /\ \A c \in Call : Shape(call[c])

\* The row of a task is locked by one call; who moves the generation is alone.
Exclusion ==
  \A c, d \in Call : c # d =>
    /\ call[c].tasks \cap call[d].tasks = {}
    /\ HoldsGeneration(c) => ~HoldsGeneration(d) /\ ~SharesGeneration(d)

\* What a call has checked of what it has locked is still so.
Checked(s) ==
  /\ s.kind = "repair" /\ s.pc \in {"task", "row", "commit"} => generation = s.task.generation
  /\ s.kind = "repair" /\ s.pc \in {"row", "commit"} =>
       s.task \in s.tasks /\ tasks[s.task] = "pending"
  /\ s.kind = "advance" =>
       /\ \A t \in s.tasks : tasks[t] = "pending" /\ t.generation <= generation
       /\ s.pc = "task" => \A t \in s.chosen \cup {s.task} : t.generation <= generation
       /\ s.pc \in {"selecting", "task", "commit"} => generation < MaxGeneration

\* A task is repaired if and only if it has a receipt, and then it has one.
Receipts ==
  /\ \A r \in receipts : tasks[r.task] = "repaired"
  /\ \A r, s \in receipts : r.task = s.task => r = s
  /\ \A t \in Task : tasks[t] = "repaired" => \E r \in receipts : r.task = t

Fencing == Types /\ Exclusion /\ (\A c \in Call : Checked(call[c])) /\ Receipts

-----------------------------------------------------------------------------
(* Nodes and records.                                                      *)

\* The order of numbers is well founded.
LEMMA NumbersWellFounded == IsWellFoundedOn({s \in Nat \X Nat : s[1] < s[2]}, Nat)
  BY NatLessThanWellFounded DEF OpToRel

\* A call is at a node, or at none.
LEMMA NodesAreNumbers == \A n \in Node : n \in 0 .. NodeCount /\ n \in Nat
  BY BoundsAssumption DEF Node

\* Of some nodes there is a first.
LEMMA FirstNode ==
  ASSUME NEW nodes \in SUBSET Node, nodes # {}
  PROVE  Min(nodes) \in nodes
<1> DEFINE R == {s \in Nat \X Nat : s[1] < s[2]}
<1>1. nodes \subseteq Nat
  BY BoundsAssumption DEF Node
<1>2. PICK n \in nodes : \A m \in nodes : <<m, n>> \notin R
  <2>1. IsWellFoundedOn(R, Nat)
    BY NumbersWellFounded
  <2> HIDE DEF R
  <2> QED
    BY <1>1, <2>1, WFMin
<1>3. \A m \in nodes : m \in Nat /\ n \in Nat /\ ~(m < n)
  BY <1>1, <1>2
<1>4. \A m \in nodes : n <= m
  BY <1>3
<1> QED
  BY <1>4 DEF Min

\* The record of an idle call is in order.
LEMMA IdleShape ==
  /\ Idle \in CallState /\ Shape(Idle) /\ Idle.pc = "idle" /\ Idle.kind = "none"
  /\ Idle.tasks = {} /\ Idle.rows = {} /\ Idle.issues = {} /\ Idle.chosen = {}
  BY BoundsAssumption DEF Idle, CallState, PC, Shape

\* The initial state is in order.
LEMMA InitFencing == Init => Fencing
<1> SUFFICES ASSUME Init PROVE Fencing
  OBVIOUS
<1>1. generation \in Generation /\ failures \in 0 .. MaxFailures
  BY BoundsAssumption DEF Init, Generation
<1>2. whole \subseteq Node /\ verified \subseteq Node /\ faults \in [Node -> 0 .. MaxFaults + 1]
  BY BoundsAssumption DEF Init
<1>3. Types
  BY <1>1, <1>2, IdleShape DEF Init, Types
<1>4. \A c \in Call : call[c] = Idle
  BY DEF Init
<1>5. Exclusion /\ \A c \in Call : Checked(call[c])
  BY <1>4, IdleShape DEF Exclusion, HoldsGeneration, SharesGeneration, Checked
<1>6. Receipts
  BY DEF Init, Receipts
<1> QED
  BY <1>3, <1>5, <1>6 DEF Fencing

-----------------------------------------------------------------------------
(* Locks.                                                                  *)

\* What a record says of the generation.
Moves(s)  == s.kind = "advance" /\ s.pc \in {"selecting", "task", "commit"}
Shares(s) == s.kind = "repair" /\ s.pc \in {"task", "row", "commit"}

\* What is known of the record of a call.
LEMMA CallFacts ==
  ASSUME Fencing, NEW c \in Call
  PROVE  call[c] \in CallState /\ Shape(call[c]) /\ Checked(call[c])
  BY DEF Fencing, Types

\* The row of a task that a call is granted, no other has locked.
LEMMA TaskGranted ==
  ASSUME NEW c \in Call, Granted(c), call[c].pc = "task"
  PROVE  \A d \in Call \ {c} : call[c].task \notin call[d].tasks
  BY DEF Granted, Blockers

\* Who is granted the generation shares it with repairs, or is alone.
LEMMA GenerationGranted ==
  ASSUME NEW c \in Call, Granted(c), call[c].pc = "generation"
  PROVE  \A d \in Call \ {c} :
           ~HoldsGeneration(d) /\ (call[c].kind # "repair" => ~SharesGeneration(d))
  BY DEF Granted, Blockers

\* The record of one call changes to one in order.
LEMMA CallTyped ==
  ASSUME Fencing, NEW c \in Call, NEW s \in CallState, Shape(s),
         call' = [call EXCEPT ![c] = s]
  PROVE  /\ call' \in [Call -> CallState] /\ \A e \in Call : Shape(call'[e])
         /\ \A e \in Call : call'[e] = IF e = c THEN s ELSE call[e]
  BY DEF Fencing, Types

\* Locks stay exclusive if a call takes only free ones.
LEMMA ExclusionKept ==
  ASSUME Fencing, NEW c \in Call, NEW s,
         \A e \in Call : call'[e] = IF e = c THEN s ELSE call[e],
         \A d \in Call \ {c} : s.tasks \cap call[d].tasks = {},
         Moves(s) => HoldsGeneration(c) \/ \A d \in Call \ {c} : ~HoldsGeneration(d) /\ ~SharesGeneration(d),
         Shares(s) => SharesGeneration(c) \/ \A d \in Call \ {c} : ~HoldsGeneration(d)
  PROVE  Exclusion'
<1> SUFFICES ASSUME NEW d \in Call, NEW e \in Call, d # e
             PROVE  /\ call'[d].tasks \cap call'[e].tasks = {}
                    /\ Moves(call'[d]) => ~Moves(call'[e]) /\ ~Shares(call'[e])
  BY DEF Exclusion, HoldsGeneration, SharesGeneration, Moves, Shares
<1>1. \A f, g \in Call : f # g =>
        /\ call[f].tasks \cap call[g].tasks = {}
        /\ Moves(call[f]) => ~Moves(call[g]) /\ ~Shares(call[g])
  BY DEF Fencing, Exclusion, HoldsGeneration, SharesGeneration, Moves, Shares
<1>2. /\ Moves(s) => Moves(call[c]) \/ \A f \in Call \ {c} : ~Moves(call[f]) /\ ~Shares(call[f])
      /\ Shares(s) => Shares(call[c]) \/ \A f \in Call \ {c} : ~Moves(call[f])
  BY DEF HoldsGeneration, SharesGeneration, Moves, Shares
<1> QED
  BY <1>1, <1>2

\* A step of one call that changes no task, generation or receipt.
LEMMA QuietStep ==
  ASSUME Fencing, NEW c \in Call, NEW s \in CallState, Shape(s), Checked(s),
         call' = [call EXCEPT ![c] = s], UNCHANGED database,
         whole' \subseteq Node, faults' = faults, failures' \in 0 .. MaxFailures,
         \A d \in Call \ {c} : s.tasks \cap call[d].tasks = {},
         Moves(s) => HoldsGeneration(c) \/ \A d \in Call \ {c} : ~HoldsGeneration(d) /\ ~SharesGeneration(d),
         Shares(s) => SharesGeneration(c) \/ \A d \in Call \ {c} : ~HoldsGeneration(d)
  PROVE  Fencing'
<1>1. \A e \in Call : call'[e] = IF e = c THEN s ELSE call[e]
  BY CallTyped
<1>2. Types'
  BY CallTyped DEF Fencing, Types, database
<1>3. Exclusion'
  BY <1>1, ExclusionKept
<1>4. ASSUME NEW e \in Call
      PROVE  Checked(call[e])'
  <2>1. Checked(call'[e])
    BY <1>1, CallFacts
  <2> QED
    BY <2>1 DEF Checked, database
<1>5. Receipts'
  BY DEF Fencing, Receipts, database
<1> QED
  BY <1>2, <1>3, <1>4, <1>5 DEF Fencing

\* A call that returns, and nothing else.
LEMMA ReturnStep ==
  ASSUME Fencing, NEW c \in Call, Return(c), UNCHANGED database,
         whole' \subseteq Node, faults' = faults, failures' \in 0 .. MaxFailures
  PROVE  Fencing'
<1>1. Checked(Idle) /\ ~Moves(Idle) /\ ~Shares(Idle)
  BY IdleShape DEF Checked, Moves, Shares
<1> QED
  BY <1>1, IdleShape, QuietStep DEF Return

\* A step that gives a call a record that holds what the call held.
LEMMA HoldingStep ==
  ASSUME Fencing, NEW c \in Call, NEW s \in CallState, Shape(s), Checked(s),
         call' = [call EXCEPT ![c] = s], UNCHANGED <<whole, database, failed>>,
         s.tasks \subseteq call[c].tasks,
         Moves(s) => Moves(call[c]), Shares(s) => Shares(call[c])
  PROVE  Fencing'
<1>1. whole' \subseteq Node /\ faults' = faults /\ failures' \in 0 .. MaxFailures
  BY DEF Fencing, Types, failed
<1>2. \A d \in Call \ {c} : s.tasks \cap call[d].tasks = {}
  BY DEF Fencing, Exclusion
<1>3. (Moves(s) => HoldsGeneration(c)) /\ (Shares(s) => SharesGeneration(c))
  BY DEF Moves, Shares, HoldsGeneration, SharesGeneration
<1> QED
  BY <1>1, <1>2, <1>3, QuietStep

\* The record of a call whose label changes.
LEMMA GotoRecord ==
  ASSUME Fencing, NEW c \in Call, NEW label \in PC, Goto(c, label)
  PROVE  \E s \in CallState :
           /\ call' = [call EXCEPT ![c] = s] /\ s.pc = label
           /\ s.kind = call[c].kind /\ s.version = call[c].version /\ s.task = call[c].task
           /\ s.request = call[c].request /\ s.at = call[c].at /\ s.generation = call[c].generation
           /\ s.issues = call[c].issues /\ s.chosen = call[c].chosen
           /\ s.rows = call[c].rows /\ s.tasks = call[c].tasks
<1> DEFINE s == [call[c] EXCEPT !.pc = label]
<1>1. call[c] \in CallState
  BY CallFacts
<1>2. s \in CallState /\ s.pc = label
  BY <1>1 DEF CallState
<1>3. call' = [call EXCEPT ![c] = s]
  BY DEF Goto, Fencing, Types
<1>4. /\ s.kind = call[c].kind /\ s.version = call[c].version /\ s.task = call[c].task
      /\ s.request = call[c].request /\ s.at = call[c].at /\ s.generation = call[c].generation
      /\ s.issues = call[c].issues /\ s.chosen = call[c].chosen
      /\ s.rows = call[c].rows /\ s.tasks = call[c].tasks
  BY <1>1 DEF CallState
<1> HIDE DEF s
<1> QED
  BY <1>2, <1>3, <1>4

-----------------------------------------------------------------------------
(* The steps that commit nothing.                                          *)

\* A GET starts with the first node.
LEMMA StartReadKeeps ==
  ASSUME Fencing, NEW c \in Call, NEW v \in Version, StartRead(c, v)
  PROVE  Fencing'
<1> DEFINE s == [Idle EXCEPT !.pc = "verifying", !.kind = "read", !.version = v, !.at = 1]
<1>1. 1 \in Node /\ Idle \in CallState /\ Idle.tasks = {}
  BY IdleShape, BoundsAssumption DEF Node
<1>2. s \in CallState
  BY <1>1, NodesAreNumbers DEF CallState, PC
<1>3. s.pc = "verifying" /\ s.kind = "read" /\ s.version = v /\ s.at = 1 /\ s.tasks = {}
  BY <1>1 DEF CallState
<1>4. call' = [call EXCEPT ![c] = s] /\ UNCHANGED <<whole, database, failed>>
  BY DEF StartRead
<1> HIDE DEF s
<1>5. Shape(s) /\ Checked(s) /\ ~Moves(s) /\ ~Shares(s)
  BY <1>1, <1>3 DEF Shape, Checked, Moves, Shares
<1> QED
  BY <1>2, <1>3, <1>4, <1>5, HoldingStep

\* A repair starts with its task and the generation that it read.
LEMMA StartRepairKeeps ==
  ASSUME Fencing, NEW c \in Call, NEW t \in Task, NEW r \in Request, StartRepair(c, t, r)
  PROVE  Fencing'
<1> DEFINE s == [Idle EXCEPT !.pc = "replaying", !.kind = "repair", !.task = t, !.request = r,
                             !.generation = generation]
<1>1. generation \in 0 .. MaxGeneration /\ Idle \in CallState /\ Idle.tasks = {}
  BY IdleShape, BoundsAssumption DEF Generation, Fencing, Types
<1>2. s \in CallState
  BY <1>1 DEF CallState, PC
<1>3. s.pc = "replaying" /\ s.kind = "repair" /\ s.task = t /\ s.request = r /\ s.tasks = {}
  BY <1>1 DEF CallState
<1>4. call' = [call EXCEPT ![c] = s] /\ UNCHANGED <<whole, database, failed>>
  BY DEF StartRepair
<1> HIDE DEF s
<1>5. Shape(s) /\ Checked(s) /\ ~Moves(s) /\ ~Shares(s)
  BY <1>3 DEF Shape, Checked, Moves, Shares, PC
<1> QED
  BY <1>2, <1>3, <1>4, <1>5, HoldingStep

\* An advance starts without a lock.
LEMMA StartAdvanceKeeps ==
  ASSUME Fencing, NEW c \in Call, StartAdvance(c)
  PROVE  Fencing'
<1> DEFINE s == [Idle EXCEPT !.pc = "generation", !.kind = "advance"]
<1>1. Idle \in CallState /\ Idle.tasks = {}
  BY IdleShape
<1>2. s \in CallState
  BY <1>1 DEF CallState, PC
<1>3. s.pc = "generation" /\ s.kind = "advance" /\ s.tasks = {}
  BY <1>1 DEF CallState
<1>4. call' = [call EXCEPT ![c] = s] /\ UNCHANGED <<whole, database, failed>>
  BY DEF StartAdvance
<1> HIDE DEF s
<1>5. Shape(s) /\ Checked(s) /\ ~Moves(s) /\ ~Shares(s)
  BY <1>3 DEF Shape, Checked, Moves, Shares
<1> QED
  BY <1>2, <1>3, <1>4, <1>5, HoldingStep

\* A GET goes from node to node, and turns to the first of its issues.
LEMMA VerifyKeeps ==
  ASSUME Fencing, NEW c \in Call, Verify(c)
  PROVE  Fencing'
<1> DEFINE n == call[c].at
           issues == IF n \in whole THEN call[c].issues ELSE call[c].issues \cup {n}
<1>1. /\ call[c] \in CallState /\ Shape(call[c]) /\ call[c].pc = "verifying"
      /\ UNCHANGED <<whole, database, failed>>
  BY CallFacts DEF Verify
<1>2. call[c].kind = "read" /\ n \in Node /\ call[c].version \in Version
  BY <1>1 DEF Shape, CallState
<1>3. issues \in SUBSET Node
  BY <1>1, <1>2 DEF CallState
<1>4. CASE Return(c)
  BY <1>1, <1>4, ReturnStep DEF failed, Fencing, Types
<1>5. CASE n < NodeCount /\ call' = [call EXCEPT ![c].at = n + 1, ![c].issues = issues]
  <2> DEFINE s == [call[c] EXCEPT !.at = n + 1, !.issues = issues]
  <2>1. n + 1 \in Node
    BY <1>2, <1>5, BoundsAssumption DEF Node
  <2>2. s \in CallState
    BY <1>1, <1>3, <2>1, NodesAreNumbers DEF CallState
  <2>3. call' = [call EXCEPT ![c] = s]
    BY <1>5 DEF Fencing, Types
  <2>4. /\ s.pc = "verifying" /\ s.kind = "read" /\ s.version = call[c].version /\ s.at = n + 1
        /\ s.tasks = call[c].tasks
    BY <1>1, <1>2 DEF CallState
  <2> HIDE DEF s, issues
  <2>5. Shape(s) /\ Checked(s) /\ ~Moves(s) /\ ~Shares(s)
    BY <1>2, <2>1, <2>4 DEF Shape, Checked, Moves, Shares
  <2> QED
    BY <1>1, <2>2, <2>3, <2>4, <2>5, HoldingStep
<1>6. CASE issues # {} /\ call' = [call EXCEPT ![c].pc = "reporting", ![c].at = Min(issues), ![c].issues = issues]
  <2> DEFINE first == Min(issues)
             s == [call[c] EXCEPT !.pc = "reporting", !.at = first, !.issues = issues]
  <2>1. first \in Node
    BY <1>3, <1>6, FirstNode
  <2>2. call' = [call EXCEPT ![c] = s]
    BY <1>6 DEF Fencing, Types
  <2> HIDE DEF first, issues
  <2>3. s \in CallState
    BY <1>1, <1>3, <2>1, NodesAreNumbers DEF CallState, PC
  <2>4. /\ s.pc = "reporting" /\ s.kind = "read" /\ s.version = call[c].version /\ s.at = first
        /\ s.tasks = call[c].tasks
    BY <1>1, <1>2 DEF CallState
  <2> HIDE DEF s
  <2>5. Shape(s) /\ Checked(s) /\ ~Moves(s) /\ ~Shares(s)
    BY <1>2, <2>1, <2>4 DEF Shape, Checked, Moves, Shares
  <2> QED
    BY <1>1, <2>2, <2>3, <2>4, <2>5, HoldingStep
<1> QED
  BY <1>4, <1>5, <1>6 DEF Verify

\* GET reads the generation of its tasks.
LEMMA ReadGenerationKeeps ==
  ASSUME Fencing, NEW c \in Call, ReadGeneration(c)
  PROVE  Fencing'
<1> DEFINE t == TaskId(call[c].version, call[c].at, generation)
           s == [call[c] EXCEPT !.pc = "row", !.generation = generation, !.task = t]
<1>1. /\ call[c] \in CallState /\ Shape(call[c]) /\ call[c].pc = "reporting"
      /\ UNCHANGED <<whole, database, failed>>
  BY CallFacts DEF ReadGeneration
<1>2. call[c].kind = "read" /\ call[c].at \in Node /\ call[c].version \in Version
  BY <1>1 DEF Shape, CallState
<1>3. generation \in Generation /\ generation \in 0 .. MaxGeneration
  BY BoundsAssumption DEF Fencing, Types, Generation
<1>4. t \in Task
  BY <1>2, <1>3 DEF Task, TaskId
<1>5. call' = [call EXCEPT ![c] = s]
  BY DEF ReadGeneration, Fencing, Types
<1> HIDE DEF t
<1>6. s \in CallState
  BY <1>1, <1>3, <1>4 DEF CallState, PC
<1>7. /\ s.pc = "row" /\ s.kind = "read" /\ s.version = call[c].version /\ s.at = call[c].at
      /\ s.task = t /\ s.generation = generation /\ s.tasks = call[c].tasks
  BY <1>1, <1>2 DEF CallState
<1> HIDE DEF s
<1>8. Shape(s) /\ Checked(s) /\ ~Moves(s) /\ ~Shares(s)
  BY <1>2, <1>3, <1>4, <1>7 DEF Shape, Checked, Moves, Shares
<1> QED
  BY <1>1, <1>5, <1>6, <1>7, <1>8, HoldingStep

\* GET locks the row of a replica.
LEMMA ReportRowKeeps ==
  ASSUME Fencing, NEW c \in Call, ReportRow(c)
  PROVE  Fencing'
<1> DEFINE s == [call[c] EXCEPT !.pc = "task", !.rows = @ \cup {call[c].at}]
<1>1. /\ call[c] \in CallState /\ Shape(call[c]) /\ call[c].pc = "row" /\ call[c].kind = "read"
      /\ UNCHANGED <<whole, database, failed>>
  BY CallFacts DEF ReportRow
<1>2. /\ call[c].at \in Node /\ call[c].version \in Version /\ call[c].task \in Task
      /\ call[c].generation \in Generation
  BY <1>1 DEF Shape
<1>3. call' = [call EXCEPT ![c] = s]
  BY DEF ReportRow, Fencing, Types
<1>4. s \in CallState
  BY <1>1, <1>2 DEF CallState, PC
<1>5. /\ s.pc = "task" /\ s.kind = "read" /\ s.version = call[c].version /\ s.at = call[c].at
      /\ s.task = call[c].task /\ s.generation = call[c].generation /\ s.tasks = call[c].tasks
  BY <1>1 DEF CallState
<1> HIDE DEF s
<1>6. Shape(s) /\ Checked(s) /\ ~Moves(s) /\ ~Shares(s)
  BY <1>2, <1>5 DEF Shape, Checked, Moves, Shares
<1> QED
  BY <1>1, <1>3, <1>4, <1>5, <1>6, HoldingStep

\* GET locks the row of a task, and goes on with the next issue.
LEMMA ReportTaskKeeps ==
  ASSUME Fencing, NEW c \in Call, ReportTask(c)
  PROVE  Fencing'
<1> DEFINE held == call[c].tasks \cup {call[c].task}
<1>1. /\ call[c] \in CallState /\ Shape(call[c]) /\ call[c].pc = "task" /\ call[c].kind = "read"
      /\ UNCHANGED <<whole, database, failed>> /\ Granted(c)
  BY CallFacts DEF ReportTask
<1>2. /\ call[c].at \in Node /\ call[c].version \in Version /\ call[c].task \in Task
      /\ call[c].generation \in Generation
  BY <1>1 DEF Shape
<1>3. /\ held \in SUBSET Task
      /\ \A d \in Call \ {c} : held \cap call[d].tasks = {}
  BY <1>1, <1>2, TaskGranted DEF CallState, Fencing, Exclusion
<1>4. PICK s \in CallState : /\ call' = [call EXCEPT ![c] = s]
                             /\ s.pc \in {"commit", "row"} /\ s.kind = "read" /\ s.tasks = held
                             /\ s.version = call[c].version /\ s.generation = call[c].generation
                             /\ s.at \in Node /\ s.task \in Task
  <2>1. CASE NextIssues(c) = {}
    <3> DEFINE s == [call[c] EXCEPT !.pc = "commit", !.tasks = held]
    <3>1. call' = [call EXCEPT ![c] = s]
      BY <2>1 DEF ReportTask, Fencing, Types
    <3> HIDE DEF held
    <3>2. s \in CallState
      BY <1>1, <1>3 DEF CallState, PC
    <3>3. /\ s.pc = "commit" /\ s.kind = "read" /\ s.tasks = held
          /\ s.version = call[c].version /\ s.generation = call[c].generation
          /\ s.at = call[c].at /\ s.task = call[c].task
      BY <1>1 DEF CallState
    <3> HIDE DEF s
    <3> QED
      BY <1>2, <3>1, <3>2, <3>3
  <2>2. CASE NextIssues(c) # {}
    <3> DEFINE n == Min(NextIssues(c))
               t == TaskId(call[c].version, n, call[c].generation)
               s == [call[c] EXCEPT !.pc = "row", !.tasks = held, !.at = n, !.task = t]
    <3>1. n \in Node
      <4>1. NextIssues(c) \in SUBSET Node
        BY <1>1 DEF NextIssues, CallState
      <4> QED
        BY <2>2, <4>1, FirstNode
    <3>2. t \in Task
      BY <1>2, <3>1 DEF Task, TaskId
    <3>3. call' = [call EXCEPT ![c] = s]
      BY <2>2 DEF ReportTask, Fencing, Types
    <3> HIDE DEF held, n, t
    <3>4. s \in CallState
      BY <1>1, <1>3, <3>1, <3>2, NodesAreNumbers DEF CallState, PC
    <3>5. /\ s.pc = "row" /\ s.kind = "read" /\ s.tasks = held
          /\ s.version = call[c].version /\ s.generation = call[c].generation
          /\ s.at = n /\ s.task = t
      BY <1>1 DEF CallState
    <3> HIDE DEF s
    <3> QED
      BY <3>1, <3>2, <3>3, <3>4, <3>5
  <2> QED
    BY <2>1, <2>2
<1> HIDE DEF held
<1>5. Shape(s) /\ Checked(s) /\ ~Moves(s) /\ ~Shares(s)
  BY <1>2, <1>4 DEF Shape, Checked, Moves, Shares
<1>6. whole' \subseteq Node /\ faults' = faults /\ failures' \in 0 .. MaxFailures
  BY <1>1 DEF Fencing, Types, failed
<1> QED
  BY <1>1, <1>3, <1>4, <1>5, <1>6, QuietStep

\* Repair looks for its receipt, and then for a source.
LEMMA SourceKeeps ==
  ASSUME Fencing, NEW c \in Call, Replay(c) \/ FindSource(c)
  PROVE  Fencing'
<1>1. /\ call[c] \in CallState /\ Shape(call[c]) /\ call[c].pc \in {"replaying", "sourcing"}
      /\ UNCHANGED <<whole, database, failed>>
  BY CallFacts DEF Replay, FindSource
<1>2. /\ call[c].kind = "repair" /\ call[c].task \in Task /\ call[c].request \in Request
      /\ call[c].pc = "sourcing" => call[c].at \in Node
  BY <1>1 DEF Shape, CallState
<1>3. CASE Return(c)
  BY <1>1, <1>3, ReturnStep DEF failed, Fencing, Types
<1>4. ASSUME NEW label \in {"sourcing", "publishing"}, NEW n \in Node,
             call' = [call EXCEPT ![c].pc = label, ![c].at = n]
      PROVE  Fencing'
  <2> DEFINE s == [call[c] EXCEPT !.pc = label, !.at = n]
  <2>1. call' = [call EXCEPT ![c] = s]
    BY <1>4 DEF Fencing, Types
  <2>2. s \in CallState
    BY <1>1, NodesAreNumbers DEF CallState, PC
  <2>3. /\ s.pc = label /\ s.kind = "repair" /\ s.task = call[c].task /\ s.at = n
        /\ s.request = call[c].request /\ s.tasks = call[c].tasks
    BY <1>1, <1>2 DEF CallState
  <2> HIDE DEF s
  <2>4. Shape(s) /\ Checked(s) /\ ~Moves(s) /\ ~Shares(s)
    BY <1>2, <2>3 DEF Shape, Checked, Moves, Shares, PC
  <2> QED
    BY <1>1, <2>1, <2>2, <2>3, <2>4, HoldingStep
<1>5. CASE Replay(c) /\ ~Return(c)
  <2>1. call' = [call EXCEPT ![c].pc = "sourcing", ![c].at = 1] /\ 1 \in Node
    BY <1>5, BoundsAssumption DEF Replay, Node
  <2> QED
    BY <1>4, <2>1
<1>6. CASE FindSource(c) /\ ~Return(c)
  <2>1. call[c].task.node \in Node /\ call[c].at \in Node /\ call[c].pc = "sourcing"
    BY <1>2, <1>6 DEF FindSource, Task
  <2>2. CASE call' = [call EXCEPT ![c].pc = "publishing", ![c].at = call[c].task.node]
    BY <1>4, <2>1, <2>2
  <2>3. CASE call[c].at < NodeCount /\ call' = [call EXCEPT ![c].at = call[c].at + 1]
    <3>1. call[c].at + 1 \in Node
      BY <2>1, <2>3, BoundsAssumption DEF Node
    <3>2. call' = [call EXCEPT ![c].pc = "sourcing", ![c].at = call[c].at + 1]
      BY <1>1, <2>1, <2>3 DEF CallState, Fencing, Types
    <3> QED
      BY <1>4, <3>1, <3>2
  <2> QED
    BY <1>6, <2>2, <2>3 DEF FindSource, Target
<1> QED
  BY <1>3, <1>5, <1>6

\* Repair publishes, or fails to, with or without the file.
LEMMA PublishKeeps ==
  ASSUME Fencing, NEW c \in Call, PublishTarget(c) \/ PublishFails(c)
  PROVE  Fencing'
<1>1. /\ call[c] \in CallState /\ Shape(call[c]) /\ call[c].pc = "publishing"
      /\ UNCHANGED database /\ faults' = faults
  BY CallFacts DEF PublishTarget, PublishFails, failed
<1>2. /\ call[c].kind = "repair" /\ call[c].task \in Task /\ call[c].request \in Request
      /\ call[c].at \in Node
  BY <1>1 DEF Shape, CallState
<1>3. whole' \subseteq Node
  BY <1>2 DEF PublishTarget, PublishFails, Placed, Task, Fencing, Types
<1>4. CASE PublishTarget(c)
  <2>1. Goto(c, "request") /\ "request" \in PC /\ failures' \in 0 .. MaxFailures
    BY <1>4 DEF PublishTarget, PC, failed, Fencing, Types
  <2>2. PICK s \in CallState : /\ call' = [call EXCEPT ![c] = s] /\ s.pc = "request"
                               /\ s.kind = "repair" /\ s.task = call[c].task
                               /\ s.request = call[c].request /\ s.at = call[c].at
                               /\ s.tasks = call[c].tasks
    BY <1>2, <2>1, GotoRecord
  <2>3. Shape(s) /\ Checked(s) /\ ~Moves(s) /\ ~Shares(s)
    BY <1>2, <2>2 DEF Shape, Checked, Moves, Shares, PC
  <2>4. \A d \in Call \ {c} : s.tasks \cap call[d].tasks = {}
    BY <2>2 DEF Fencing, Exclusion
  <2> QED
    BY <1>1, <1>3, <2>1, <2>2, <2>3, <2>4, QuietStep
<1>5. CASE PublishFails(c)
  <2>1. Return(c) /\ failures' \in 0 .. MaxFailures
    BY <1>5, BoundsAssumption DEF PublishFails, Fencing, Types
  <2> QED
    BY <1>1, <1>3, <2>1, ReturnStep
<1> QED
  BY <1>4, <1>5

\* Repair locks its request, and then shares the generation of its task.
LEMMA FenceKeeps ==
  ASSUME Fencing, NEW c \in Call, LockRequest(c) \/ LockGeneration(c)
  PROVE  Fencing'
<1>1. /\ call[c] \in CallState /\ Shape(call[c]) /\ call[c].kind = "repair"
      /\ call[c].pc \in {"request", "generation"}
      /\ UNCHANGED <<whole, database, failed>> /\ Granted(c)
  BY CallFacts DEF LockRequest, LockGeneration
<1>2. call[c].task \in Task /\ call[c].request \in Request /\ call[c].at \in Node
  BY <1>1 DEF Shape
<1>3. whole' \subseteq Node /\ faults' = faults /\ failures' \in 0 .. MaxFailures
  BY <1>1 DEF Fencing, Types, failed
<1>4. CASE Return(c)
  BY <1>1, <1>3, <1>4, ReturnStep
<1>5. ASSUME NEW label \in {"generation", "task"}, Goto(c, label),
             label = "task" => Fenced(c) /\ call[c].pc = "generation"
      PROVE  Fencing'
  <2>1. PICK s \in CallState : /\ call' = [call EXCEPT ![c] = s] /\ s.pc = label
                               /\ s.kind = "repair" /\ s.task = call[c].task
                               /\ s.request = call[c].request /\ s.at = call[c].at
                               /\ s.tasks = call[c].tasks
    <3>1. label \in PC
      BY DEF PC
    <3> QED
      BY <1>1, <1>5, <3>1, GotoRecord
  <2>2. Shape(s) /\ Checked(s) /\ ~Moves(s)
    BY <1>2, <1>5, <2>1 DEF Shape, Checked, Moves, PC, Fenced
  <2>3. Shares(s) => \A d \in Call \ {c} : ~HoldsGeneration(d)
    BY <1>1, <1>5, <2>1, GenerationGranted DEF Shares
  <2>4. \A d \in Call \ {c} : s.tasks \cap call[d].tasks = {}
    BY <2>1 DEF Fencing, Exclusion
  <2> QED
    BY <1>1, <1>3, <2>1, <2>2, <2>3, <2>4, QuietStep
<1> QED
  BY <1>4, <1>5 DEF LockRequest, LockGeneration

\* Repair locks the row of a task that is pending.
LEMMA LockTaskKeeps ==
  ASSUME Fencing, NEW c \in Call, LockTask(c)
  PROVE  Fencing'
<1> DEFINE t == call[c].task
           s == [call[c] EXCEPT !.pc = "row", !.tasks = {t}]
<1>1. /\ call[c] \in CallState /\ Shape(call[c]) /\ Checked(call[c])
      /\ call[c].kind = "repair" /\ call[c].pc = "task"
      /\ UNCHANGED <<whole, database, failed>> /\ Granted(c)
  BY CallFacts DEF LockTask
<1>2. t \in Task /\ call[c].request \in Request /\ call[c].at \in Node
  BY <1>1 DEF Shape
<1>3. whole' \subseteq Node /\ faults' = faults /\ failures' \in 0 .. MaxFailures
  BY <1>1 DEF Fencing, Types, failed
<1>4. CASE Return(c)
  BY <1>1, <1>3, <1>4, ReturnStep
<1>5. CASE ~Return(c)
  <2>1. tasks[t] = "pending" /\ call' = [call EXCEPT ![c] = s]
    BY <1>5 DEF LockTask, Workable, Fencing, Types
  <2>2. s \in CallState
    BY <1>1, <1>2 DEF CallState, PC
  <2>3. /\ s.pc = "row" /\ s.kind = "repair" /\ s.task = t /\ s.tasks = {t}
        /\ s.request = call[c].request /\ s.at = call[c].at
    BY <1>1 DEF CallState
  <2> HIDE DEF s
  <2>4. Shape(s) /\ ~Moves(s)
    BY <1>2, <2>3 DEF Shape, Moves, PC
  <2>5. Checked(s)
    BY <1>1, <2>1, <2>3 DEF Checked
  <2>6. SharesGeneration(c)
    BY <1>1 DEF SharesGeneration
  <2>7. \A d \in Call \ {c} : s.tasks \cap call[d].tasks = {}
    BY <1>1, <2>3, TaskGranted
  <2> QED
    BY <1>1, <1>3, <2>1, <2>2, <2>4, <2>5, <2>6, <2>7, QuietStep
<1> QED
  BY <1>4, <1>5

\* Repair locks the row of the replica.
LEMMA LockRowKeeps ==
  ASSUME Fencing, NEW c \in Call, LockRow(c)
  PROVE  Fencing'
<1> DEFINE s == [call[c] EXCEPT !.pc = "commit", !.rows = {call[c].at}]
<1>1. /\ call[c] \in CallState /\ Shape(call[c]) /\ Checked(call[c])
      /\ call[c].kind = "repair" /\ call[c].pc = "row"
      /\ UNCHANGED <<whole, database, failed>>
  BY CallFacts DEF LockRow
<1>2. call[c].task \in Task /\ call[c].request \in Request /\ call[c].at \in Node
  BY <1>1 DEF Shape
<1>3. call' = [call EXCEPT ![c] = s]
  BY DEF LockRow, Fencing, Types
<1>4. s \in CallState
  BY <1>1, <1>2 DEF CallState, PC
<1>5. /\ s.pc = "commit" /\ s.kind = "repair" /\ s.task = call[c].task /\ s.tasks = call[c].tasks
      /\ s.request = call[c].request /\ s.at = call[c].at
  BY <1>1 DEF CallState
<1> HIDE DEF s
<1>6. Shape(s) /\ ~Moves(s) /\ Shares(call[c])
  BY <1>1, <1>2, <1>5 DEF Shape, Moves, Shares, PC
<1>7. Checked(s)
  BY <1>1, <1>5 DEF Checked
<1> QED
  BY <1>1, <1>3, <1>4, <1>5, <1>6, <1>7, HoldingStep

\* Advance is alone with the generation, below its bound.
LEMMA MoveGenerationKeeps ==
  ASSUME Fencing, NEW c \in Call, MoveGeneration(c)
  PROVE  Fencing'
<1>1. /\ call[c] \in CallState /\ Checked(call[c])
      /\ call[c].kind = "advance" /\ call[c].pc = "generation"
      /\ UNCHANGED <<whole, database, failed>> /\ Granted(c)
  BY CallFacts DEF MoveGeneration
<1>2. whole' \subseteq Node /\ faults' = faults /\ failures' \in 0 .. MaxFailures
  BY <1>1 DEF Fencing, Types, failed
<1>3. CASE Return(c)
  BY <1>1, <1>2, <1>3, ReturnStep
<1>4. CASE generation < MaxGeneration /\ Goto(c, "selecting")
  <2>1. PICK s \in CallState : /\ call' = [call EXCEPT ![c] = s] /\ s.pc = "selecting"
                               /\ s.kind = "advance" /\ s.tasks = call[c].tasks
    <3>1. "selecting" \in PC
      BY DEF PC
    <3> QED
      BY <1>1, <1>4, <3>1, GotoRecord
  <2>2. Shape(s) /\ Checked(s) /\ ~Shares(s)
    BY <1>1, <1>4, <2>1 DEF Shape, Checked, Shares
  <2>3. \A d \in Call \ {c} : ~HoldsGeneration(d) /\ ~SharesGeneration(d)
    BY <1>1, GenerationGranted
  <2>4. \A d \in Call \ {c} : s.tasks \cap call[d].tasks = {}
    BY <2>1 DEF Fencing, Exclusion
  <2> QED
    BY <1>1, <1>2, <2>1, <2>2, <2>3, <2>4, QuietStep
<1> QED
  BY <1>3, <1>4 DEF MoveGeneration

\* Advance turns to the next task of those that were pending when it looked,
\* with locks on tasks that are.
LEMMA TurnKeeps ==
  ASSUME Fencing, NEW c \in Call, NEW chosen \in SUBSET Task, NEW held \in SUBSET Task,
         TurnTo(c, chosen, held), HoldsGeneration(c), UNCHANGED <<whole, database, failed>>,
         \A t \in held : tasks[t] = "pending" /\ t.generation <= generation,
         \A t \in chosen : t.generation <= generation,
         \A d \in Call \ {c} : held \cap call[d].tasks = {}
  PROVE  Fencing'
<1>1. /\ call[c] \in CallState /\ Checked(call[c]) /\ call[c].kind = "advance"
      /\ generation < MaxGeneration
  BY CallFacts DEF HoldsGeneration, Checked
<1>2. whole' \subseteq Node /\ faults' = faults /\ failures' \in 0 .. MaxFailures
  BY DEF Fencing, Types, failed
<1>3. PICK s \in CallState : /\ call' = [call EXCEPT ![c] = s] /\ s.kind = "advance" /\ s.tasks = held
                             /\ \/ s.pc = "commit"
                                \/ s.pc = "task" /\ s.task \in chosen /\ s.chosen \subseteq chosen
  <2>1. CASE chosen = {}
    <3> DEFINE s == [call[c] EXCEPT !.pc = "commit", !.tasks = held]
    <3>1. call' = [call EXCEPT ![c] = s]
      BY <2>1 DEF TurnTo, Fencing, Types
    <3>2. s \in CallState /\ s.pc = "commit" /\ s.kind = "advance" /\ s.tasks = held
      BY <1>1 DEF CallState, PC
    <3> HIDE DEF s
    <3> QED
      BY <3>1, <3>2
  <2>2. CASE chosen # {}
    <3>1. PICK t \in chosen :
            call' = [call EXCEPT ![c].pc = "task", ![c].tasks = held,
                                 ![c].task = t, ![c].chosen = chosen \ {t}]
      BY <2>2 DEF TurnTo
    <3> DEFINE rest == chosen \ {t}
               s == [call[c] EXCEPT !.pc = "task", !.tasks = held, !.task = t, !.chosen = rest]
    <3>2. call' = [call EXCEPT ![c] = s]
      BY <3>1 DEF Fencing, Types
    <3>3. rest \in SUBSET Task /\ rest \subseteq chosen /\ t \in Task
      OBVIOUS
    <3> HIDE DEF rest
    <3>4. /\ s \in CallState /\ s.pc = "task" /\ s.kind = "advance" /\ s.tasks = held
          /\ s.task = t /\ s.chosen = rest
      BY <1>1, <3>3 DEF CallState, PC
    <3> HIDE DEF s
    <3> QED
      BY <3>2, <3>3, <3>4
  <2> QED
    BY <2>1, <2>2
<1>4. Shape(s) /\ Checked(s) /\ ~Shares(s)
  BY <1>1, <1>3 DEF Shape, Checked, Shares
<1> QED
  BY <1>2, <1>3, <1>4, QuietStep

\* Advance looks for pending tasks, and locks those that still are.
LEMMA SupersedeKeeps ==
  ASSUME Fencing, NEW c \in Call, SelectTasks(c) \/ Supersede(c)
  PROVE  Fencing'
<1>1. /\ call[c] \in CallState /\ Shape(call[c]) /\ Checked(call[c])
      /\ UNCHANGED <<whole, database, failed>>
  BY CallFacts DEF SelectTasks, Supersede
<1>2. CASE SelectTasks(c)
  <2> DEFINE chosen == {t \in Task : tasks[t] = "pending" /\ t.generation <= generation}
  <2>1. HoldsGeneration(c)
    BY <1>1, <1>2 DEF SelectTasks, HoldsGeneration, Shape, CallState
  <2>2. TurnTo(c, chosen, {}) /\ chosen \in SUBSET Task /\ \A t \in chosen : t.generation <= generation
    BY <1>2 DEF SelectTasks
  <2> HIDE DEF chosen
  <2> QED
    BY <1>1, <2>1, <2>2, TurnKeeps
<1>3. CASE Supersede(c)
  <2> DEFINE t == call[c].task
             held == call[c].tasks \cup (IF tasks[t] = "pending" THEN {t} ELSE {})
  <2>1. /\ HoldsGeneration(c) /\ t \in Task /\ Granted(c) /\ call[c].pc = "task"
        /\ call[c].kind = "advance"
    BY <1>1, <1>3 DEF Supersede, HoldsGeneration, Shape
  <2>2. /\ \A k \in call[c].tasks : tasks[k] = "pending" /\ k.generation <= generation
        /\ \A k \in call[c].chosen \cup {t} : k.generation <= generation
    BY <1>1, <2>1 DEF Checked
  <2>3. held \in SUBSET Task /\ call[c].chosen \in SUBSET Task
    BY <1>1, <2>1 DEF CallState
  <2>4. \A k \in held : tasks[k] = "pending" /\ k.generation <= generation
    BY <2>2
  <2>5. \A d \in Call \ {c} : held \cap call[d].tasks = {}
    BY <2>1, TaskGranted DEF Fencing, Exclusion
  <2>6. TurnTo(c, call[c].chosen, held)
    BY <1>3 DEF Supersede
  <2> HIDE DEF held
  <2> QED
    BY <1>1, <2>1, <2>2, <2>3, <2>4, <2>5, <2>6, TurnKeeps
<1> QED
  BY <1>2, <1>3

-----------------------------------------------------------------------------
(* The steps that commit, and those of the environment.                    *)

\* What the others have checked outlives a commit of c: it changes pending
\* tasks only if it has locked them, and the generation if it holds it.
LEMMA OthersKept ==
  ASSUME Fencing, NEW c \in Call, Return(c),
         \A t \in Task : tasks[t] = "pending" => tasks'[t] = "pending" \/ t \in call[c].tasks,
         generation' = generation \/ (HoldsGeneration(c) /\ generation' = generation + 1)
  PROVE  /\ call' \in [Call -> CallState] /\ \A e \in Call : Shape(call'[e])
         /\ Exclusion' /\ \A e \in Call : Checked(call[e])'
<1>1. /\ call' \in [Call -> CallState] /\ \A e \in Call : Shape(call'[e])
      /\ \A e \in Call : call'[e] = IF e = c THEN Idle ELSE call[e]
  BY IdleShape, CallTyped DEF Return
<1>2. Exclusion'
  <2>1. ~Moves(Idle) /\ ~Shares(Idle)
    BY IdleShape DEF Moves, Shares
  <2> QED
    BY <1>1, <2>1, IdleShape, ExclusionKept
<1>3. ASSUME NEW e \in Call
      PROVE  Checked(call[e])'
  <2>1. CASE e = c
    BY <1>1, <2>1, IdleShape DEF Checked
  <2>2. CASE e # c
    <3>1. /\ call'[e] = call[e] /\ call[e] \in CallState /\ Shape(call[e]) /\ Checked(call[e])
      BY <1>1, <2>2, CallFacts
    <3>2. \A t \in call[e].tasks : tasks[t] = "pending" => tasks'[t] = "pending"
      BY <2>2, <3>1 DEF Fencing, Exclusion, CallState
    <3>3. call[e].kind = "repair" /\ call[e].pc \in {"task", "row", "commit"} => generation' = generation
      BY <2>2 DEF Fencing, Exclusion, SharesGeneration
    <3>4. call[e].kind = "advance" /\ call[e].pc \in {"selecting", "task", "commit"} => generation' = generation
      BY <2>2 DEF Fencing, Exclusion, HoldsGeneration
    <3>5. call[e].kind = "advance" => generation <= generation' /\ generation' \in Nat /\ generation \in Nat
      BY BoundsAssumption DEF Fencing, Types, Generation
    <3>6. \A t \in Task : t.generation \in Nat
      BY BoundsAssumption DEF Task, Generation
    <3>7. call[e].tasks \subseteq Task /\ call[e].chosen \subseteq Task
          /\ (call[e].kind = "advance" /\ call[e].pc = "task" => call[e].task \in Task)
      BY <3>1 DEF CallState, Shape
    <3>8. call[e].kind = "repair" => Checked(call[e])'
      BY <3>1, <3>2, <3>3 DEF Checked
    <3>9. ASSUME call[e].kind = "advance", NEW t \in call[e].tasks
          PROVE  tasks'[t] = "pending" /\ t.generation <= generation'
      BY <3>1, <3>2, <3>5, <3>6, <3>7, <3>9 DEF Checked
    <3>10. call[e].kind = "advance" => Checked(call[e])'
      BY <3>1, <3>4, <3>9 DEF Checked
    <3> QED
      BY <3>1, <3>8, <3>10 DEF Checked
  <2> QED
    BY <2>1, <2>2
<1> QED
  BY <1>1, <1>2, <1>3

\* GET records tasks that are new.
LEMMA CommitReadKeeps ==
  ASSUME Fencing, NEW c \in Call, CommitRead(c)
  PROVE  Fencing'
<1>1. /\ verified' = verified \ call[c].rows /\ Return(c)
      /\ tasks' = [t \in Task |-> IF t \in call[c].tasks THEN Recorded(t) ELSE tasks[t]]
      /\ UNCHANGED <<whole, generation, receipts, failed>>
  BY DEF CommitRead
<1>2. \A t \in Task : tasks'[t] = tasks[t] \/ (tasks[t] = "none" /\ tasks'[t] = "pending")
  BY <1>1 DEF Recorded
<1>3. tasks' \in [Task -> {"none", "pending", "repaired", "superseded"}]
  BY <1>1, <1>2 DEF Fencing, Types
<1>4. /\ call' \in [Call -> CallState] /\ \A e \in Call : Shape(call'[e])
      /\ Exclusion' /\ \A e \in Call : Checked(call[e])'
  BY <1>1, <1>2, OthersKept
<1>5. Types'
  BY <1>1, <1>3, <1>4 DEF Fencing, Types, failed
<1>6. Receipts'
  <2>1. \A r \in receipts : r.task \in Task
    BY DEF Fencing, Types
  <2> QED
    BY <1>1, <1>2, <2>1 DEF Fencing, Receipts
<1> QED
  BY <1>4, <1>5, <1>6 DEF Fencing

\* Repair ends a task that is pending under its generation, with the receipt.
LEMMA CommitRepairKeeps ==
  ASSUME Fencing, NEW c \in Call, CommitRepair(c)
  PROVE  Fencing'
<1>1. PICK t \in Task : t = call[c].task /\ t \in call[c].tasks /\ tasks[t] = "pending"
  BY CallFacts DEF CommitRepair, Shape, Checked
<1>2. /\ call[c] \in CallState /\ call[c].request \in Request
  BY CallFacts DEF CommitRepair, Shape
<1> DEFINE r == [task |-> t, request |-> call[c].request]
<1>3. /\ verified' = verified \cup call[c].rows /\ Return(c)
      /\ tasks' = [tasks EXCEPT ![t] = "repaired"]
      /\ receipts' = receipts \cup {r}
      /\ UNCHANGED <<whole, generation, failed>>
  BY <1>1 DEF CommitRepair, Receipt
<1>4. \A k \in Task : tasks'[k] = IF k = t THEN "repaired" ELSE tasks[k]
  BY <1>3 DEF Fencing, Types
<1>5. tasks' \in [Task -> {"none", "pending", "repaired", "superseded"}]
  BY <1>3 DEF Fencing, Types
<1>6. /\ call' \in [Call -> CallState] /\ \A e \in Call : Shape(call'[e])
      /\ Exclusion' /\ \A e \in Call : Checked(call[e])'
  BY <1>1, <1>3, <1>4, OthersKept
<1>7. Types'
  <2>1. call[c].rows \subseteq Node /\ r \in [task : Task, request : Request]
    BY <1>2 DEF CallState
  <2> QED
    BY <1>3, <1>5, <1>6, <2>1 DEF Fencing, Types, failed
<1>8. Receipts'
  <2>1. r.task = t /\ r \in receipts'
    BY <1>3
  <2>2. \A s \in receipts : s.task \in Task /\ s.task # t
    BY <1>1 DEF Fencing, Types, Receipts
  <2> HIDE DEF r
  <2> QED
    BY <1>3, <1>4, <2>1, <2>2 DEF Fencing, Receipts
<1> QED
  BY <1>6, <1>7, <1>8 DEF Fencing

\* Advance supersedes the tasks that it has locked.
LEMMA CommitAdvanceKeeps ==
  ASSUME Fencing, NEW c \in Call, CommitAdvance(c)
  PROVE  Fencing'
<1>1. /\ generation' = generation + 1 /\ Return(c)
      /\ tasks' = [t \in Task |-> IF t \in call[c].tasks THEN "superseded" ELSE tasks[t]]
      /\ UNCHANGED <<whole, verified, receipts, failed>>
  BY DEF CommitAdvance
<1>2. /\ generation < MaxGeneration /\ HoldsGeneration(c)
      /\ \A t \in call[c].tasks : tasks[t] = "pending"
  BY CallFacts DEF CommitAdvance, Checked, HoldsGeneration
<1>3. generation' \in Generation
  BY <1>1, <1>2, BoundsAssumption DEF Fencing, Types, Generation
<1>4. \A t \in Task : tasks'[t] = tasks[t] \/ (t \in call[c].tasks /\ tasks'[t] = "superseded")
  BY <1>1
<1>5. tasks' \in [Task -> {"none", "pending", "repaired", "superseded"}]
  BY <1>1 DEF Fencing, Types
<1>6. /\ call' \in [Call -> CallState] /\ \A e \in Call : Shape(call'[e])
      /\ Exclusion' /\ \A e \in Call : Checked(call[e])'
  BY <1>1, <1>2, <1>4, OthersKept
<1>7. Types'
  BY <1>1, <1>3, <1>5, <1>6 DEF Fencing, Types, failed
<1>8. Receipts'
  <2>1. \A r \in receipts : r.task \in Task
    BY DEF Fencing, Types
  <2> QED
    BY <1>1, <1>2, <1>4, <2>1 DEF Fencing, Receipts
<1> QED
  BY <1>6, <1>7, <1>8 DEF Fencing

\* A transaction that is rolled back.
LEMMA AbortKeeps ==
  ASSUME Fencing, NEW c \in Call, Victim(c) \/ Abort(c)
  PROVE  Fencing'
<1>1. Return(c) /\ UNCHANGED <<whole, database>> /\ faults' = faults /\ failures' \in 0 .. MaxFailures
  BY BoundsAssumption DEF Victim, Abort, failed, Fencing, Types
<1> QED
  BY <1>1, ReturnStep DEF Fencing, Types

\* Files are damaged, or published again.
LEMMA FilesKeep ==
  ASSUME Fencing,
         \/ \E n \in Node : Damage(n)
         \/ \E nodes \in SUBSET Node : PutAgain(nodes)
         \/ UNCHANGED vars
  PROVE  Fencing'
<1>1. /\ UNCHANGED <<tasks, generation, receipts, failures, call>>
      /\ whole' \subseteq Node /\ verified' \subseteq Node
  BY DEF Damage, PutAgain, vars, database, failed, Fencing, Types
<1>2. faults' \in [Node -> 0 .. MaxFaults + 1]
  <2>1. ASSUME NEW n \in Node, Damage(n)
        PROVE  faults' \in [Node -> 0 .. MaxFaults + 1]
    <3>1. faults[n] + 1 \in 0 .. MaxFaults + 1
      BY <2>1, BoundsAssumption DEF Damage, Fencing, Types
    <3> QED
      BY <2>1, <3>1 DEF Damage, Fencing, Types
  <2> QED
    BY <2>1 DEF PutAgain, vars, failed, Fencing, Types
<1>3. Types'
  BY <1>1, <1>2 DEF Fencing, Types
<1>4. Exclusion' /\ \A e \in Call : Checked(call[e])'
  BY <1>1 DEF Fencing, Exclusion, HoldsGeneration, SharesGeneration, Checked
<1>5. Receipts'
  BY <1>1 DEF Fencing, Receipts
<1> QED
  BY <1>3, <1>4, <1>5 DEF Fencing

\* The invariant is inductive.
LEMMA NextFencing == Fencing /\ [Next]_vars => Fencing'
<1> SUFFICES ASSUME Fencing, [Next]_vars PROVE Fencing'
  OBVIOUS
<1>1. ASSUME NEW c \in Call, ReadStep(c) PROVE Fencing'
  BY <1>1, VerifyKeeps, ReadGenerationKeeps, ReportRowKeeps, ReportTaskKeeps, CommitReadKeeps
     DEF ReadStep
<1>2. ASSUME NEW c \in Call, RepairStep(c) PROVE Fencing'
  BY <1>2, SourceKeeps, PublishKeeps, FenceKeeps, LockTaskKeeps, LockRowKeeps, CommitRepairKeeps
     DEF RepairStep
<1>3. ASSUME NEW c \in Call, AdvanceStep(c) PROVE Fencing'
  BY <1>3, MoveGenerationKeeps, SupersedeKeeps, CommitAdvanceKeeps DEF AdvanceStep
<1>4. ASSUME NEW c \in Call,
             \/ Victim(c) \/ Abort(c) \/ StartAdvance(c)
             \/ \E v \in Version : StartRead(c, v)
             \/ \E t \in Task, r \in Request : StartRepair(c, t, r)
      PROVE  Fencing'
  BY <1>4, AbortKeeps, StartAdvanceKeeps, StartReadKeeps, StartRepairKeeps
<1>5. CASE \/ \E n \in Node : Damage(n)
           \/ \E nodes \in SUBSET Node : PutAgain(nodes)
           \/ UNCHANGED vars
  BY <1>5, FilesKeep
<1> QED
  BY <1>1, <1>2, <1>3, <1>4, <1>5 DEF Next, Step

-----------------------------------------------------------------------------
(* Theorems.                                                               *)

\* The invariant holds of every behaviour of reads and repairs.
THEOREM RepairsFenced == Spec => []Fencing
  BY InitFencing, NextFencing, PTL DEF Spec

\* Every variable stays in its domain; an idle call holds nothing.
THEOREM RepairTypes == Spec => []TypeOK
<1>1. Fencing => TypeOK
  <2> SUFFICES ASSUME Fencing PROVE TypeOK
    OBVIOUS
  <2>1. ASSUME NEW c \in Call
        PROVE  /\ call[c].pc \in PC /\ call[c].kind \in {"none", "read", "repair", "advance"}
               /\ call[c].version \in Version \cup {Nothing} /\ call[c].request \in Request \cup {Nothing}
               /\ call[c].task \in Task \cup {Nothing}
               /\ call[c].at \in 0 .. NodeCount /\ call[c].generation \in 0 .. MaxGeneration
               /\ call[c].issues \subseteq Node /\ call[c].rows \subseteq Node
               /\ call[c].chosen \subseteq Task /\ call[c].tasks \subseteq Task
               /\ call[c].pc = "idle" => call[c] = Idle
    <3>1. call[c] \in CallState /\ Shape(call[c])
      BY CallFacts
    <3> QED
      BY <3>1 DEF CallState, Shape
  <2> QED
    BY <2>1 DEF TypeOK, Fencing, Types
<1> QED
  BY <1>1, RepairsFenced, PTL

\* However many requests, retries and deaths there are for a task, one repair
\* of it is committed, with its receipt.
THEOREM RepairsOnce == Spec => []OneRepairPerTask
<1>1. Fencing => OneRepairPerTask
  <2> SUFFICES ASSUME Fencing, NEW t \in Task
               PROVE  Cardinality({r \in receipts : r.task = t}) = (IF tasks[t] = "repaired" THEN 1 ELSE 0)
    BY DEF OneRepairPerTask
  <2>1. CASE tasks[t] = "repaired"
    <3>1. PICK r \in receipts : {s \in receipts : s.task = t} = {r}
      BY <2>1 DEF Fencing, Receipts
    <3> QED
      BY <2>1, <3>1, FS_Singleton
  <2>2. CASE tasks[t] # "repaired"
    <3>1. {r \in receipts : r.task = t} = {}
      BY <2>2 DEF Fencing, Receipts
    <3> QED
      BY <2>2, <3>1, FS_EmptySet
  <2> QED
    BY <2>1, <2>2
<1> QED
  BY <1>1, RepairsFenced, PTL

\* What a step may do to a task.
LEMMA TaskChanges ==
  ASSUME Fencing, [Next]_vars, NEW t \in Task, tasks[t] # tasks'[t]
  PROVE  \/ tasks[t] = "none" /\ tasks'[t] = "pending"
         \/ tasks[t] = "pending" /\ tasks'[t] = "repaired" /\ t.generation = generation
         \/ tasks[t] = "pending" /\ tasks'[t] = "superseded" /\ t.generation < generation'
<1>1. ASSUME NEW c \in Call, CommitRead(c)
      PROVE  tasks[t] = "none" /\ tasks'[t] = "pending"
  BY <1>1 DEF CommitRead, Recorded
<1>2. ASSUME NEW c \in Call, CommitRepair(c)
      PROVE  tasks[t] = "pending" /\ tasks'[t] = "repaired" /\ t.generation = generation
  <2>1. call[c].task \in Task /\ tasks[call[c].task] = "pending" /\ generation = call[c].task.generation
    BY <1>2, CallFacts DEF CommitRepair, Shape, Checked
  <2> QED
    BY <1>2, <2>1 DEF CommitRepair, Fencing, Types
<1>3. ASSUME NEW c \in Call, CommitAdvance(c)
      PROVE  tasks[t] = "pending" /\ tasks'[t] = "superseded" /\ t.generation < generation'
  <2>1. t \in call[c].tasks /\ tasks'[t] = "superseded" /\ generation' = generation + 1
    BY <1>3 DEF CommitAdvance
  <2>2. tasks[t] = "pending" /\ t.generation <= generation
    BY <1>3, <2>1, CallFacts DEF CommitAdvance, Checked
  <2>3. t.generation \in Nat /\ generation \in Nat
    BY BoundsAssumption DEF Task, Generation, Fencing, Types
  <2> QED
    BY <2>1, <2>2, <2>3
<1>4. CASE \/ \E c \in Call :
                \/ Verify(c) \/ ReadGeneration(c) \/ ReportRow(c) \/ ReportTask(c)
                \/ Replay(c) \/ FindSource(c) \/ PublishTarget(c) \/ PublishFails(c)
                \/ LockRequest(c) \/ LockGeneration(c) \/ LockTask(c) \/ LockRow(c)
                \/ MoveGeneration(c) \/ SelectTasks(c) \/ Supersede(c)
                \/ Victim(c) \/ Abort(c) \/ StartAdvance(c)
                \/ \E v \in Version : StartRead(c, v)
                \/ \E k \in Task, r \in Request : StartRepair(c, k, r)
           \/ \E n \in Node : Damage(n)
           \/ \E nodes \in SUBSET Node : PutAgain(nodes)
           \/ UNCHANGED vars
  <2>1. tasks' = tasks
    BY <1>4 DEF Verify, ReadGeneration, ReportRow, ReportTask, Replay, FindSource, PublishTarget,
                PublishFails, LockRequest, LockGeneration, LockTask, LockRow, MoveGeneration,
                SelectTasks, Supersede, Victim, Abort, StartAdvance, StartRead, StartRepair,
                Damage, PutAgain, vars, database
  <2> QED
    BY <2>1
<1> QED
  BY <1>1, <1>2, <1>3, <1>4 DEF Next, Step, ReadStep, RepairStep, AdvanceStep

\* A task ends once: it is repaired under its own generation, by a worker that
\* no advance has overtaken, or superseded by a later one, also if the GET that
\* records it read the generation before the advance.
THEOREM RepairTasksFenced == Spec => TasksAreFenced
<1>1. Fencing /\ [Next]_vars =>
        [\A t \in Task :
           LET from == tasks[t]
               to   == tasks'[t]
           IN from # to =>
                \/ from = "none" /\ to = "pending"
                \/ from = "pending" /\ to = "repaired" /\ t.generation = generation
                \/ from = "pending" /\ to = "superseded" /\ t.generation < generation']_vars
  BY TaskChanges
<1> QED
  BY <1>1, RepairsFenced, PTL DEF Spec, TasksAreFenced
=============================================================================
