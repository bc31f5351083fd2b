--------------------------- MODULE WriteGcFrames ----------------------------
(***************************************************************************)
(* Proofs about WriteGc for every value of its constants: types, what each *)
(* action leaves alone, and mutual exclusion by the three locks.           *)
(* The other proof modules of WriteGc stand on this one.                   *)
(***************************************************************************)
EXTENDS WriteGc, TLAPS

-----------------------------------------------------------------------------
(* Types, and which kind of mutation each label belongs to.                *)

\* What the label of a call says of its mutation.
Shape(s) ==
  /\ s.pc # "idle" => s.mut \in Mutation
  /\ s.pc \in {"reserve", "reserving", "publishing"} => s.mut.kind = "put"
  /\ s.pc \in {"observe", "observed", "listing"} => s.mut.kind = "scan"
  /\ s.pc = "begin" => s.mut.kind # "put"
  /\ s.pc = "deciding" => s.mut.kind \in {"put", "delete"}
  /\ s.pc \in {"listed", "sweeping"} => s.mut.kind = "gc"
  /\ s.pc # "sweeping" => s.doomed = {}

\* The type invariant with the shape of every call.
Typed == TypeOK /\ \A c \in Call : Shape(call[c])

\* The record of an idle call is in order.
LEMMA IdleShape == Idle \in CallState /\ Shape(Idle)
  BY CountsAssumption DEF Idle, CallState, PC, Node, Time, Shape

\* The initial state is in order.
LEMMA InitTyped == Init => Typed
<1> SUFFICES ASSUME Init PROVE Typed
  OBVIOUS
<1>1. now \in Time
  BY CountsAssumption DEF Init, Time
<1>2. versions \in [Key -> Seq(Versions)] /\ head \in [Key -> Versions \cup {Absent}]
  BY DEF Init
<1>3. replica \in [Content -> [Node -> {"none", "missing", "verified"}]]
  BY DEF Init
<1>4. call \in [Call -> CallState] /\ \A c \in Call : Shape(call[c])
  BY IdleShape DEF Init
<1> QED
  BY <1>1, <1>2, <1>3, <1>4 DEF Init, TypeOK, Typed

\* If the record of one call changes to one in order, all stay in order.
LEMMA CallTyped ==
  ASSUME Typed, NEW c \in Call, NEW s \in CallState, Shape(s),
         call' = [call EXCEPT ![c] = s]
  PROVE  call' \in [Call -> CallState] /\ \A d \in Call : Shape(call'[d])
  BY DEF Typed, TypeOK

\* A call that returns leaves an idle record.
LEMMA ReturnTyped ==
  ASSUME Typed, NEW c \in Call, Return(c)
  PROVE  call' \in [Call -> CallState] /\ \A d \in Call : Shape(call'[d])
  BY CallTyped, IdleShape DEF Return

\* A call that moves to a label its mutation allows stays in order.
LEMMA GotoTyped ==
  ASSUME Typed, NEW c \in Call, NEW label \in PC, Goto(c, label),
         Shape([call[c] EXCEPT !.pc = label])
  PROVE  call' \in [Call -> CallState] /\ \A d \in Call : Shape(call'[d])
<1> DEFINE s == [call[c] EXCEPT !.pc = label]
<1>1. s \in CallState
  BY DEF Typed, TypeOK, CallState
<1>2. call' = [call EXCEPT ![c] = s]
  BY DEF Goto, Typed, TypeOK, CallState
<1> QED
  BY <1>1, <1>2, CallTyped

\* The fields of a mutation, from its kind.
LEMMA Fields ==
  ASSUME NEW m \in Mutation
  PROVE  /\ m.kind = "put" => m \in Puts /\ m.key \in Key /\ m.content \in Content
         /\ m.kind \in {"put", "delete"} => m \in Versions /\ m.key \in Key
         /\ m.kind = "scan" => m \in Scans /\ m.minAge \in Nat /\ m.expected \in Nat
         /\ m.kind = "gc" => m.scan \in Scans /\ m.retention \in Nat /\ m.expected \in Nat
  BY MutationAssumption DEF Puts, Versions, Scans

\* The type layer is inductive, action by action.
LEMMA NextTyped == Typed /\ [Next]_vars => Typed'
<1> SUFFICES ASSUME Typed, [Next]_vars PROVE Typed'
  OBVIOUS
<1> DEFINE CallOK == call' \in [Call -> CallState] /\ \A d \in Call : Shape(call'[d])
<1>0. ASSUME NEW c \in Call
      PROVE  call[c] \in CallState /\ Shape(call[c])
  BY DEF Typed, TypeOK
<1>1. ASSUME NEW c \in Call, NEW m \in Mutation, Start(c, m) PROVE Typed'
  <2> DEFINE label == CASE m.kind = "put"  -> "reserve"
                        [] m.kind = "scan" -> "observe"
                        [] OTHER           -> "begin"
             s == [call[c] EXCEPT !.mut = m, !.pc = label]
  <2>1. label \in {"reserve", "observe", "begin"}
    OBVIOUS
  <2>2. s \in CallState
    BY <2>1, <1>0 DEF CallState, PC
  <2>3. Shape(s)
    BY <1>0, <1>1 DEF Shape, Start, CallState
  <2>4. call' = [call EXCEPT ![c] = s]
    BY <1>1, <1>0 DEF Start, CallState, Typed, TypeOK
  <2>5. CallOK
    BY CallTyped, <2>2, <2>3, <2>4
  <2> QED
    BY <2>5, <1>1 DEF Start, database, Typed, TypeOK
<1>2. ASSUME NEW c \in Call, ReserveLock(c) PROVE Typed'
  <2>1. CASE Return(c)
    BY <2>1, <1>2, ReturnTyped DEF ReserveLock, database, Typed, TypeOK
  <2>2. CASE Goto(c, "reserving")
    <3>1. CallOK
      <4>1. Shape([call[c] EXCEPT !.pc = "reserving"])
        BY <1>2, <1>0 DEF Shape, ReserveLock, CallState
      <4>2. "reserving" \in PC
        BY DEF PC
      <4> QED
        BY <2>2, <4>1, <4>2, GotoTyped
    <3> QED
      BY <3>1, <1>2 DEF ReserveLock, database, Typed, TypeOK
  <2> QED
    BY <1>2, <2>1, <2>2 DEF ReserveLock
<1>3. ASSUME NEW c \in Call, ReserveIntent(c) PROVE Typed'
  <2>1. CASE Return(c) /\ UNCHANGED intents
    BY <2>1, <1>3, ReturnTyped DEF ReserveIntent, Typed, TypeOK
  <2>2. CASE intents' = Renewed(call[c].mut)
             /\ call' = [call EXCEPT ![c].pc = "publishing", ![c].since = now]
    <3> DEFINE s == [call[c] EXCEPT !.pc = "publishing", !.since = now]
    <3>1. s \in CallState /\ Shape(s)
      BY <1>0, <1>3 DEF Shape, CallState, PC, Typed, TypeOK, ReserveIntent
    <3>2. call' = [call EXCEPT ![c] = s]
      BY <2>2, <1>0 DEF CallState, Typed, TypeOK
    <3>3. CallOK
      BY CallTyped, <3>1, <3>2
    <3>4. call[c].mut \in Puts
      BY <1>0, <1>3 DEF Shape, ReserveIntent, Puts
    <3>5. now + Ttl \in Nat
      BY CountsAssumption DEF Typed, TypeOK, Time
    <3>6. intents' \subseteq IntentRow
      BY <2>2, <3>4, <3>5 DEF Renewed, IntentRow, Typed, TypeOK
    <3> QED
      BY <3>3, <3>6, <1>3 DEF ReserveIntent, Typed, TypeOK
  <2> QED
    BY <1>3, <2>1, <2>2 DEF ReserveIntent
<1>4. ASSUME NEW c \in Call, Publish(c) \/ PublishFails(c) PROVE Typed'
  <2>1. PICK g \in SUBSET Node :
          call' = [call EXCEPT ![c] = [call[c] EXCEPT !.next = call[c].next + 1, !.got = g]]
    <3>1. CASE Publish(c)
      <4>1. call[c].got \cup {call[c].next} \in SUBSET Node
        BY <3>1, <1>0 DEF Publish, Publishing, CallState, Node
      <4>2. call' = [call EXCEPT ![c] =
               [call[c] EXCEPT !.next = call[c].next + 1, !.got = call[c].got \cup {call[c].next}]]
        BY <3>1, <1>0 DEF Publish, CallState, Typed, TypeOK
      <4> QED
        BY <4>1, <4>2
    <3>2. CASE PublishFails(c)
      <4>1. call[c].got \in SUBSET Node
        BY <1>0 DEF CallState
      <4>2. call' = [call EXCEPT ![c] =
               [call[c] EXCEPT !.next = call[c].next + 1, !.got = call[c].got]]
        BY <3>2, <1>0 DEF PublishFails, CallState, Typed, TypeOK
      <4> QED
        BY <4>1, <4>2
    <3> QED
      BY <1>4, <3>1, <3>2
  <2> DEFINE s == [call[c] EXCEPT !.next = call[c].next + 1, !.got = g]
  <2>2. call[c].pc = "publishing" /\ call[c].next \in Node
    BY <1>4, <1>0 DEF Publish, PublishFails, Publishing, CallState, Node
  <2>3. s \in CallState /\ Shape(s)
    <3>1. call[c].next + 1 \in 1 .. NodeCount + 1
      BY <2>2, CountsAssumption DEF Node
    <3>2. s \in CallState
      BY <3>1, <1>0 DEF CallState
    <3> QED
      BY <3>2, <2>2, <1>0 DEF Shape, CallState
  <2>4. CallOK
    BY CallTyped, <2>1, <2>3
  <2>5. call[c].mut.content \in Content
    BY <2>2, <1>0, Fields DEF Shape
  <2>6. files' \subseteq Entry
    BY <2>2, <2>5, <1>4 DEF Publish, PublishFails, Placed, Entry, Typed, TypeOK
  <2> QED
    BY <2>4, <2>6, <1>4 DEF Publish, PublishFails, database, Typed, TypeOK
<1>5. ASSUME NEW c \in Call, ThresholdNotMet(c) \/ Abort(c) PROVE Typed'
  BY <1>5, ReturnTyped DEF ThresholdNotMet, Abort, database, Typed, TypeOK
<1>6. ASSUME NEW c \in Call, Begin(c) PROVE Typed'
  <2>1. CASE Return(c)
    BY <2>1, <1>6, ReturnTyped DEF Begin, database, Typed, TypeOK
  <2>2. CASE Goto(c, "mutating")
    <3>1. CallOK
      <4>1. Shape([call[c] EXCEPT !.pc = "mutating"])
        BY <1>6, <1>0 DEF Shape, Begin, Prepared, CallState
      <4>2. "mutating" \in PC
        BY DEF PC
      <4> QED
        BY <2>2, <4>1, <4>2, GotoTyped
    <3> QED
      BY <3>1, <1>6 DEF Begin, database, Typed, TypeOK
  <2> QED
    BY <1>6, <2>1, <2>2 DEF Begin
<1>7. ASSUME NEW c \in Call, LockKey(c) PROVE Typed'
  <2>1. CASE Return(c)
    BY <2>1, <1>7, ReturnTyped DEF LockKey, database, Typed, TypeOK
  <2>2. CASE Goto(c, "deciding")
    <3>1. CallOK
      <4>1. Shape([call[c] EXCEPT !.pc = "deciding"])
        BY <1>7, <1>0 DEF Shape, LockKey, CallState
      <4>2. "deciding" \in PC
        BY DEF PC
      <4> QED
        BY <2>2, <4>1, <4>2, GotoTyped
    <3> QED
      BY <3>1, <1>7 DEF LockKey, database, Typed, TypeOK
  <2> QED
    BY <1>7, <2>1, <2>2 DEF LockKey
<1>8. ASSUME NEW c \in Call, CommitPut(c) \/ CommitDelete(c) PROVE Typed'
  <2> DEFINE m == call[c].mut
  <2>1. m \in Mutation /\ m \in Versions /\ m.key \in Key
    BY <1>8, <1>0, Fields DEF CommitPut, CommitDelete, Shape
  <2>2. CommitVersion(m) /\ Return(c)
    BY <1>8 DEF CommitPut, CommitDelete
  <2>3. versions' \in [Key -> Seq(Versions)]
    BY <2>1, <2>2 DEF CommitVersion, Typed, TypeOK
  <2>4. head' \in [Key -> Versions \cup {Absent}] /\ receipts' \subseteq Mutation
    BY <2>1, <2>2 DEF CommitVersion, Typed, TypeOK
  <2>5. CallOK
    BY <2>2, ReturnTyped
  <2>6. intents' \subseteq IntentRow
    BY <1>8 DEF CommitPut, CommitDelete, Typed, TypeOK
  <2>7. replica' \in [Content -> [Node -> {"none", "missing", "verified"}]]
    <3>1. CASE CommitPut(c)
      <4>1. m.content \in Content
        BY <3>1, <2>1, Fields DEF CommitPut
      <4> QED
        BY <3>1, <4>1 DEF CommitPut, Typed, TypeOK
    <3>2. CASE CommitDelete(c)
      BY <3>2 DEF CommitDelete, Typed, TypeOK
    <3> QED
      BY <1>8, <3>1, <3>2
  <2> QED
    BY <2>3, <2>4, <2>5, <2>6, <2>7, <1>8 DEF CommitPut, CommitDelete, Typed, TypeOK
<1>9. ASSUME NEW c \in Call, ScanObserve(c) PROVE Typed'
  <2> DEFINE s == [call[c] EXCEPT !.pc = "observed", !.live = {x \in Content : Reachable(x)}]
  <2>1. s \in CallState /\ Shape(s)
    BY <1>0, <1>9 DEF Shape, CallState, PC, Typed, TypeOK, ScanObserve
  <2>2. call' = [call EXCEPT ![c] = s]
    BY <1>0, <1>9 DEF ScanObserve, CallState, Typed, TypeOK
  <2>3. CallOK
    BY CallTyped, <2>1, <2>2
  <2> QED
    BY <2>3, <1>9 DEF ScanObserve, database, Typed, TypeOK
<1>10. ASSUME NEW c \in Call, ScanList(c) PROVE Typed'
  <2>1. PICK e \in SUBSET Entry :
          call' = [call EXCEPT ![c] = [call[c] EXCEPT !.pc = "begin", !.items = e]]
    <3> DEFINE e == {f \in files : /\ f.content \notin call[c].live
                                   /\ f.mtime + call[c].mut.minAge <= call[c].since}
    <3>1. e \in SUBSET Entry
      BY DEF Typed, TypeOK
    <3>2. call' = [call EXCEPT ![c] = [call[c] EXCEPT !.pc = "begin", !.items = e]]
      BY <1>0, <1>10 DEF ScanList, CallState, Typed, TypeOK
    <3> QED
      BY <3>1, <3>2
  <2>2. LET s == [call[c] EXCEPT !.pc = "begin", !.items = e] IN s \in CallState /\ Shape(s)
    BY <1>0, <1>10 DEF Shape, CallState, PC, ScanList
  <2>3. CallOK
    BY CallTyped, <2>1, <2>2
  <2> QED
    BY <2>3, <1>10 DEF ScanList, database, Typed, TypeOK
<1>11. ASSUME NEW c \in Call, CommitScan(c) PROVE Typed'
  <2>1. call[c].mut \in Scans /\ call[c].mut \in Mutation
    BY <1>0, <1>11, Fields DEF CommitScan, Shape
  <2>2. CallOK
    BY <1>11, ReturnTyped DEF CommitScan
  <2>3. scans' \subseteq [scan : Scans, items : SUBSET Entry] /\ receipts' \subseteq Mutation
    BY <2>1, <1>0, <1>11 DEF CommitScan, CallState, Typed, TypeOK
  <2> QED
    BY <2>2, <2>3, <1>11 DEF CommitScan, Typed, TypeOK
<1>12. ASSUME NEW c \in Call, GcLock(c) PROVE Typed'
  <2>1. CASE Return(c)
    BY <2>1, <1>12, ReturnTyped DEF GcLock, database, Typed, TypeOK
  <2>2. CASE ~Return(c)
    <3>1. PICK e \in SUBSET Entry :
            call' = [call EXCEPT ![c] = [call[c] EXCEPT !.pc = "listed", !.items = e]]
      <4>1. PICK q \in scans :
              call' = [call EXCEPT ![c].pc = "listed",
                ![c].items = {f \in files : \E e \in q.items : SamePlace(e, f) /\ f.mtime <= e.mtime}]
        BY <1>12, <2>2 DEF GcLock
      <4> DEFINE e == {f \in files : \E e \in q.items : SamePlace(e, f) /\ f.mtime <= e.mtime}
      <4>2. e \in SUBSET Entry
        BY DEF Typed, TypeOK
      <4>3. call' = [call EXCEPT ![c] = [call[c] EXCEPT !.pc = "listed", !.items = e]]
        BY <4>1, <1>0 DEF CallState, Typed, TypeOK
      <4> QED
        BY <4>2, <4>3
    <3>2. LET s == [call[c] EXCEPT !.pc = "listed", !.items = e] IN s \in CallState /\ Shape(s)
      BY <1>0, <1>12 DEF Shape, CallState, PC, GcLock
    <3>3. CallOK
      BY CallTyped, <3>1, <3>2
    <3> QED
      BY <3>3, <1>12 DEF GcLock, database, Typed, TypeOK
  <2> QED
    BY <2>1, <2>2
<1>13. ASSUME NEW c \in Call, GcReadClock(c) PROVE Typed'
  <2> DEFINE e == {f \in call[c].items : f.mtime + call[c].mut.retention <= now}
             s == [call[c] EXCEPT !.pc = "sweeping", !.items = e]
  <2>1. s \in CallState /\ Shape(s)
    BY <1>0, <1>13 DEF Shape, CallState, PC, GcReadClock
  <2>2. call' = [call EXCEPT ![c] = s]
    BY <1>0, <1>13 DEF GcReadClock, CallState, Typed, TypeOK
  <2>3. CallOK
    BY CallTyped, <2>1, <2>2
  <2> QED
    BY <2>3, <1>13 DEF GcReadClock, database, Typed, TypeOK
<1>14. ASSUME NEW c \in Call, GcJudge(c) PROVE Typed'
  <2>1. PICK f \in call[c].items :
          call' = [call EXCEPT ![c].items = call[c].items \ {f},
                               ![c].doomed = IF Reachable(f.content) THEN {} ELSE {f}]
    BY <1>14, <1>0 DEF GcJudge, Typed, TypeOK
  <2> DEFINE s == [call[c] EXCEPT !.items = call[c].items \ {f},
                                  !.doomed = IF Reachable(f.content) THEN {} ELSE {f}]
  <2>2. s \in CallState /\ Shape(s)
    BY <1>0, <1>14 DEF Shape, CallState, GcJudge
  <2>3. call' = [call EXCEPT ![c] = s]
    BY <2>1, <1>0 DEF CallState, Typed, TypeOK
  <2>4. CallOK
    BY CallTyped, <2>2, <2>3
  <2> QED
    BY <2>4, <1>14 DEF GcJudge, database, Typed, TypeOK
<1>15. ASSUME NEW c \in Call, GcUnlink(c) PROVE Typed'
  <2> DEFINE s == [call[c] EXCEPT !.doomed = {}]
  <2>1. s \in CallState /\ Shape(s)
    BY <1>0, <1>15 DEF Shape, CallState, GcUnlink
  <2>2. call' = [call EXCEPT ![c] = s]
    BY <1>0, <1>15 DEF GcUnlink, CallState, Typed, TypeOK
  <2>3. CallOK
    BY CallTyped, <2>1, <2>2
  <2> QED
    BY <2>3, <1>15 DEF GcUnlink, database, Typed, TypeOK
<1>16. ASSUME NEW c \in Call, CommitGc(c) \/ CommitAdvance(c) PROVE Typed'
  <2>1. call[c].mut \in Mutation
    BY <1>0, <1>16 DEF CommitGc, CommitAdvance, Shape
  <2>2. CallOK
    BY <1>16, ReturnTyped DEF CommitGc, CommitAdvance
  <2> QED
    BY <2>1, <2>2, <1>16 DEF CommitGc, CommitAdvance, Typed, TypeOK
<1>17. ASSUME NEW c \in Call, ScanReadClock(c) PROVE Typed'
  <2> DEFINE s == [call[c] EXCEPT !.pc = "listing", !.since = now]
  <2>1. s \in CallState /\ Shape(s)
    BY <1>0, <1>17 DEF Shape, CallState, PC, Typed, TypeOK, ScanReadClock
  <2>2. call' = [call EXCEPT ![c] = s]
    BY <1>0, <1>17 DEF ScanReadClock, CallState, Typed, TypeOK
  <2>3. CallOK
    BY CallTyped, <2>1, <2>2
  <2> QED
    BY <2>3, <1>17 DEF ScanReadClock, database, Typed, TypeOK
<1>18. ASSUME Tick PROVE Typed'
  BY <1>18, CountsAssumption DEF Tick, database, Typed, TypeOK, Time
<1>19. CASE UNCHANGED vars
  BY <1>19 DEF vars, Typed, TypeOK
<1> QED
  BY <1>1, <1>2, <1>3, <1>4, <1>5, <1>6, <1>7, <1>8, <1>9, <1>10, <1>11, <1>12, <1>13,
     <1>14, <1>15, <1>16, <1>17, <1>18, <1>19
  DEF Next, Step, PutStep, ScanStep, GcStep

\* The type layer holds in every reachable state.
LEMMA TypedAlways == Spec => []Typed
  BY InitTyped, NextTyped, PTL DEF Spec

\* Every variable stays in its domain, whatever the constants.
THEOREM TypeCorrect == Spec => []TypeOK
<1>1. Typed => TypeOK
  BY DEF Typed
<1> QED
  BY <1>1, TypedAlways, PTL

-----------------------------------------------------------------------------
(* Frames: what a step leaves alone and where each label is entered.       *)

\* Steps of a call, with the environment's share in them.
CallStep(c) == Step(c) \/ Abort(c) \/ \E m \in Mutation : Start(c, m)

\* Labels at which a call holds its request lock.
HoldingPCs == {"reserving", "mutating", "deciding", "listed", "sweeping"}

\* The label of a call after a step tells which action it was.
Entered(c) ==
  LET s == call'[c] IN
  /\ s.pc \in HoldingPCs \cup {"publishing"} => s.mut = call[c].mut
  /\ s.pc = "reserving"  => ReserveLock(c)
  /\ s.pc = "publishing" => ReserveIntent(c) \/ Publish(c) \/ PublishFails(c)
  /\ s.pc = "mutating"   => Begin(c)
  /\ s.pc = "deciding"   => LockKey(c)
  /\ s.pc = "listed"     => GcLock(c)
  /\ s.pc = "sweeping"   => GcReadClock(c) \/ GcJudge(c) \/ GcUnlink(c)

\* A step of a call changes no other call, and its new label tells the action.
LEMMA Frame ==
  ASSUME Typed, NEW c \in Call, CallStep(c)
  PROVE  Entered(c) /\ \A d \in Call \ {c} : call'[d] = call[d]
<1> DEFINE Same == \A d \in Call \ {c} : call'[d] = call[d]
<1>0. call \in [Call -> CallState] /\ call[c] \in CallState /\ Shape(call[c])
  BY DEF Typed, TypeOK
<1>1. CASE Return(c)
  <2>1. call'[c] = Idle /\ Same
    BY <1>1, <1>0 DEF Return
  <2> QED
    BY <2>1 DEF Entered, HoldingPCs, Idle
<1>2. ASSUME NEW m \in Mutation, Start(c, m) PROVE Entered(c) /\ Same
  <2>1. call'[c].pc \in {"reserve", "observe", "begin"} /\ Same
    BY <1>2, <1>0 DEF Start, CallState
  <2> QED
    BY <2>1 DEF Entered, HoldingPCs
<1>3. ASSUME NEW label \in PC, Goto(c, label)
      PROVE  call'[c].pc = label /\ call'[c].mut = call[c].mut /\ Same
  BY <1>3, <1>0 DEF Goto, CallState
<1>4. CASE ReserveLock(c)
  <2>1. Return(c) \/ Goto(c, "reserving")
    BY <1>4 DEF ReserveLock
  <2>2. "reserving" \in PC
    BY DEF PC
  <2> QED
    BY <1>4, <2>1, <2>2, <1>1, <1>3 DEF Entered
<1>5. CASE ReserveIntent(c) /\ ~Return(c)
  <2>1. call'[c].pc = "publishing" /\ call'[c].mut = call[c].mut /\ Same
    BY <1>5, <1>0 DEF ReserveIntent, CallState
  <2> QED
    BY <2>1, <1>5 DEF Entered
<1>6. CASE Publish(c) \/ PublishFails(c)
  <2>1. call'[c].pc = "publishing" /\ call'[c].mut = call[c].mut /\ Same
    BY <1>6, <1>0 DEF Publish, PublishFails, Publishing, CallState
  <2> QED
    BY <2>1, <1>6 DEF Entered
<1>7. CASE Begin(c)
  <2>1. Return(c) \/ Goto(c, "mutating")
    BY <1>7 DEF Begin
  <2>2. "mutating" \in PC
    BY DEF PC
  <2> QED
    BY <1>7, <2>1, <2>2, <1>1, <1>3 DEF Entered
<1>8. CASE LockKey(c)
  <2>1. Return(c) \/ Goto(c, "deciding")
    BY <1>8 DEF LockKey
  <2>2. "deciding" \in PC
    BY DEF PC
  <2> QED
    BY <1>8, <2>1, <2>2, <1>1, <1>3 DEF Entered
<1>9. CASE ScanObserve(c) \/ ScanReadClock(c) \/ ScanList(c)
  <2>1. call'[c].pc \in {"observed", "listing", "begin"} /\ Same
    BY <1>9, <1>0 DEF ScanObserve, ScanReadClock, ScanList, CallState
  <2> QED
    BY <2>1 DEF Entered, HoldingPCs
<1>10. CASE GcLock(c) /\ ~Return(c)
  <2>1. call'[c].pc = "listed" /\ call'[c].mut = call[c].mut /\ Same
    BY <1>10, <1>0 DEF GcLock, CallState
  <2> QED
    BY <2>1, <1>10 DEF Entered
<1>11. CASE GcReadClock(c) \/ GcJudge(c) \/ GcUnlink(c)
  <2>1. call[c].pc \in {"listed", "sweeping"}
    BY <1>11 DEF GcReadClock, GcJudge, GcUnlink
  <2> DEFINE Post == call'[c].pc = "sweeping" /\ call'[c].mut = call[c].mut /\ Same
  <2>2. ASSUME GcReadClock(c) PROVE Post
    BY <2>2, <1>0 DEF GcReadClock, CallState
  <2>3. ASSUME GcJudge(c) PROVE Post
    <3>1. PICK f \in call[c].items :
            call' = [call EXCEPT ![c].items = call[c].items \ {f},
                                 ![c].doomed = IF Reachable(f.content) THEN {} ELSE {f}]
      BY <2>3 DEF GcJudge
    <3> QED
      BY <3>1, <2>3, <1>0 DEF GcJudge, CallState
  <2>4. ASSUME GcUnlink(c) PROVE Post
    BY <2>4, <1>0 DEF GcUnlink, CallState
  <2>5. call'[c].pc = "sweeping" /\ call'[c].mut = call[c].mut /\ Same
    BY <1>11, <2>2, <2>3, <2>4
  <2> QED
    BY <2>5, <1>11 DEF Entered
<1>12. ASSUME \/ ThresholdNotMet(c) \/ CommitPut(c) \/ CommitDelete(c) \/ CommitScan(c)
              \/ CommitGc(c) \/ CommitAdvance(c) \/ Abort(c)
       PROVE  Return(c)
  BY <1>12 DEF ThresholdNotMet, CommitPut, CommitDelete, CommitScan, CommitGc, CommitAdvance, Abort
<1> QED
  BY <1>1, <1>2, <1>4, <1>5, <1>6, <1>7, <1>8, <1>9, <1>10, <1>11, <1>12
  DEF CallStep, Step, PutStep, ScanStep, GcStep

\* Which actions change which part of the shared state.
LEMMA Changes ==
  ASSUME NEW c \in Call, CallStep(c)
  PROVE  /\ UNCHANGED now
         /\ files' = files \/ Publish(c) \/ PublishFails(c) \/ GcUnlink(c)
         /\ intents' = intents \/ ReserveIntent(c) \/ CommitPut(c)
         /\ UNCHANGED <<versions, head>> \/ CommitPut(c) \/ CommitDelete(c)
         /\ replica' = replica \/ CommitPut(c)
         /\ scans' = scans \/ CommitScan(c)
         /\ gcGen' = gcGen \/ CommitAdvance(c)
         /\ \/ receipts' = receipts
            \/ CommitPut(c) \/ CommitDelete(c) \/ CommitScan(c) \/ CommitGc(c) \/ CommitAdvance(c)
  BY DEF CallStep, Step, PutStep, ScanStep, GcStep, Start, Abort, ReserveLock, ReserveIntent,
         Publish, PublishFails, ThresholdNotMet, Begin, LockKey, CommitPut, CommitDelete,
         ScanObserve, ScanReadClock, ScanList, CommitScan, GcLock, GcReadClock, GcJudge, GcUnlink, CommitGc,
         CommitAdvance, database

\* Next is a tick or a step of some call.
LEMMA NextCases == Next <=> Tick \/ \E c \in Call : CallStep(c)
  BY DEF Next, CallStep

\* Committing m adds m to the committed versions and nothing else.
LEMMA CommitAdds ==
  ASSUME Typed, NEW m \in Versions, m.key \in Key, CommitVersion(m),
         NEW v \in Versions, v.key \in Key
  PROVE  Committed(v)' <=> Committed(v) \/ v = m
<1>1. versions[m.key] \in Seq(Versions) /\ versions' = [versions EXCEPT ![m.key] = Append(@, m)]
  BY DEF CommitVersion, Typed, TypeOK
<1>2. CASE v.key # m.key
  <2>1. versions'[v.key] = versions[v.key] /\ v # m
    BY <1>1, <1>2 DEF Typed, TypeOK
  <2> QED
    BY <2>1 DEF Committed
<1>3. CASE v.key = m.key
  <2> DEFINE s == versions[m.key]
             t == versions'[m.key]
  <2>1. t = Append(s, m)
    BY <1>1 DEF Typed, TypeOK
  <2>2. /\ DOMAIN s = 1 .. Len(s) /\ DOMAIN t = 1 .. Len(s) + 1 /\ Len(s) \in Nat
        /\ \A i \in 1 .. Len(s) : t[i] = s[i]
        /\ t[Len(s) + 1] = m
    BY <1>1, <2>1
  <2>3. (\E i \in DOMAIN t : t[i] = v) <=> (\E i \in DOMAIN s : s[i] = v) \/ v = m
    <3>1. ASSUME NEW i \in DOMAIN t, t[i] = v PROVE (\E j \in DOMAIN s : s[j] = v) \/ v = m
      BY <3>1, <2>2
    <3>2. ASSUME NEW i \in DOMAIN s, s[i] = v PROVE \E j \in DOMAIN t : t[j] = v
      BY <3>2, <2>2
    <3>3. ASSUME v = m PROVE \E j \in DOMAIN t : t[j] = v
      <4>1. Len(s) + 1 \in DOMAIN t
        BY <2>2
      <4> QED
        BY <4>1, <2>2, <3>3
    <3> QED
      BY <3>1, <3>2, <3>3
  <2> QED
    BY <2>3, <1>3 DEF Committed
<1> QED
  BY <1>2, <1>3

-----------------------------------------------------------------------------
(* Mutual exclusion.                                                       *)

\* No two calls hold the same request, the same key or the GC row.
Locks ==
  /\ \A c, d \in Call : c # d /\ HoldsRequest(c) /\ HoldsRequest(d) =>
       ~SameIdentity(call[c].mut, call[d].mut)
  /\ \A c, d \in Call : c # d /\ HoldsKey(c) /\ HoldsKey(d) =>
       call[c].mut.key # call[d].mut.key
  /\ \A c, d \in Call : HoldsGcRow(c) /\ HoldsGcRow(d) => c = d

\* Identity of requests is symmetric.
LEMMA SameIdentitySymmetric ==
  ASSUME NEW m, NEW n PROVE SameIdentity(m, n) <=> SameIdentity(n, m)
  BY DEF SameIdentity

\* A lock is held after a step if it was held before or was free.
LEMMA AcquireRequest ==
  ASSUME Typed, NEW c \in Call, CallStep(c), HoldsRequest(c)'
  PROVE  call'[c].mut = call[c].mut /\ (HoldsRequest(c) \/ RequestFree(call[c].mut))
<1>1. Entered(c)
  BY Frame
<1>2. call'[c].mut = call[c].mut
  BY <1>1 DEF Entered, HoldingPCs, HoldsRequest
<1>3. CASE call'[c].pc \in {"reserving", "mutating"}
  BY <1>1, <1>2, <1>3 DEF Entered, ReserveLock, Begin
<1>4. CASE call'[c].pc \in {"deciding", "listed", "sweeping"}
  BY <1>1, <1>2, <1>4 DEF Entered, HoldsRequest, LockKey, GcLock, GcReadClock, GcJudge, GcUnlink
<1> QED
  BY <1>3, <1>4 DEF HoldsRequest

\* The key lock is only taken by LockKey, when it is free.
LEMMA AcquireKey ==
  ASSUME Typed, NEW c \in Call, CallStep(c), HoldsKey(c)'
  PROVE  call'[c].mut = call[c].mut /\ LockKey(c) /\ KeyFree(call[c].mut.key)
<1>1. Entered(c) /\ call'[c].pc = "deciding"
  BY Frame DEF HoldsKey
<1>2. ~Return(c)
  BY <1>1 DEF Return, Idle, Typed, TypeOK
<1> QED
  BY <1>1, <1>2 DEF Entered, HoldingPCs, LockKey

\* The generation row is held after a step if it was held or was free.
LEMMA AcquireGcRow ==
  ASSUME Typed, NEW c \in Call, CallStep(c), HoldsGcRow(c)'
  PROVE  call'[c].mut = call[c].mut /\ (HoldsGcRow(c) \/ GcRowFree)
<1>1. Entered(c)
  BY Frame
<1> QED
  BY <1>1 DEF Entered, HoldingPCs, HoldsGcRow, GcLock, GcReadClock, GcJudge, GcUnlink

\* Nobody holds a lock at the start.
LEMMA InitLocks == Init => Locks
  BY DEF Init, Locks, Idle, HoldsRequest, HoldsKey, HoldsGcRow

\* Mutual exclusion is inductive: a lock is only taken when it is free.
LEMMA NextLocks == Typed /\ Locks /\ [Next]_vars => Locks'
<1> SUFFICES ASSUME Typed, Locks, [Next]_vars PROVE Locks'
  OBVIOUS
<1>1. CASE call' = call
  BY <1>1 DEF Locks, HoldsRequest, HoldsKey, HoldsGcRow
<1>2. ASSUME NEW c \in Call, CallStep(c) PROVE Locks'
  <2>1. \A d \in Call \ {c} :
          /\ call'[d] = call[d]
          /\ HoldsRequest(d)' <=> HoldsRequest(d)
          /\ HoldsKey(d)' <=> HoldsKey(d)
          /\ HoldsGcRow(d)' <=> HoldsGcRow(d)
    BY <1>2, Frame DEF HoldsRequest, HoldsKey, HoldsGcRow
  <2>2. ASSUME NEW d \in Call \ {c}, HoldsRequest(c)', HoldsRequest(d)'
        PROVE  ~SameIdentity(call'[c].mut, call'[d].mut)
    <3>0. HoldsRequest(d) /\ call'[d] = call[d]
      BY <2>1, <2>2
    <3>2. call'[c].mut = call[c].mut /\ (HoldsRequest(c) \/ RequestFree(call[c].mut))
      BY <2>2, <1>2, AcquireRequest
    <3>1. HoldsRequest(d) /\ call'[d].mut = call[d].mut /\ call'[c].mut = call[c].mut
      BY <3>0, <3>2
    <3>3. ~SameIdentity(call[c].mut, call[d].mut)
      <4>1. CASE HoldsRequest(c)
        BY <4>1, <3>1 DEF Locks
      <4>2. CASE RequestFree(call[c].mut)
        <5>1. ~SameIdentity(call[d].mut, call[c].mut)
          BY <4>2, <3>1 DEF RequestFree
        <5> QED
          BY <5>1, SameIdentitySymmetric
      <4> QED
        BY <3>2, <4>1, <4>2
    <3> QED
      BY <3>1, <3>3
  <2>3. ASSUME NEW d \in Call \ {c}, HoldsKey(c)', HoldsKey(d)'
        PROVE  call'[c].mut.key # call'[d].mut.key
    BY <2>1, <2>3, <1>2, AcquireKey DEF Locks, KeyFree
  <2>4. ASSUME NEW d \in Call \ {c}, HoldsGcRow(c)', HoldsGcRow(d)'
        PROVE  FALSE
    BY <2>1, <2>4, <1>2, AcquireGcRow DEF Locks, GcRowFree
  <2>5. ASSUME NEW x \in Call, NEW y \in Call, x # y, HoldsRequest(x)', HoldsRequest(y)'
        PROVE  ~SameIdentity(call'[x].mut, call'[y].mut)
    BY <2>1, <2>2, <2>5, SameIdentitySymmetric DEF Locks
  <2>6. ASSUME NEW x \in Call, NEW y \in Call, x # y, HoldsKey(x)', HoldsKey(y)'
        PROVE  call'[x].mut.key # call'[y].mut.key
    BY <2>1, <2>3, <2>6 DEF Locks
  <2>7. ASSUME NEW x \in Call, NEW y \in Call, HoldsGcRow(x)', HoldsGcRow(y)'
        PROVE  x = y
    BY <2>1, <2>4, <2>7 DEF Locks
  <2> QED
    BY <2>5, <2>6, <2>7 DEF Locks
<1> QED
  BY <1>1, <1>2, NextCases DEF Tick, vars

\* Mutual exclusion holds in every reachable state.
LEMMA LocksAlways == Spec => []Locks
  BY InitLocks, NextLocks, TypedAlways, PTL DEF Spec
=============================================================================
