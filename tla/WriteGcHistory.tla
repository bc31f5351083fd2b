--------------------------- MODULE WriteGcHistory ---------------------------
(***************************************************************************)
(* Proofs about WriteGc: request identities have one outcome, and PUT and  *)
(* DELETE implement VersionHistory.                                        *)
(***************************************************************************)
EXTENDS WriteGcFrames

-----------------------------------------------------------------------------
(* Identities.                                                             *)

\* A call that holds its request lock past the receipt check has no receipt.
Unanswered == \A c \in Call : HoldsRequest(c) =>
  \A r \in receipts : ~SameIdentity(r, call[c].mut)

\* A PUT attempt keeps an intent at least as young as itself until some
\* attempt of the same request has committed.
Reserved == \A c \in Call : InWindow(c) =>
  /\ call[c].since <= now
  /\ \/ call[c].mut \in receipts
     \/ \E i \in intents : i.mut = call[c].mut /\ i.expires >= call[c].since + Ttl

\* A version is in the history of its own key.
Filed == \A k \in Key : \A i \in DOMAIN versions[k] : versions[k][i].key = k

\* The identity layer.
Identities == OneOutcome /\ Unanswered /\ Reserved /\ Filed

\* Nothing is reserved, answered or committed at the start.
LEMMA InitIdentities == Init => Identities
<1> SUFFICES ASSUME Init PROVE Identities
  OBVIOUS
<1>1. \A c \in Call : ~HoldsRequest(c) /\ ~InWindow(c)
  BY DEF Init, Idle, HoldsRequest, InWindow
<1>2. \A k \in Key : DOMAIN versions[k] = {}
  BY DEF Init
<1>3. \A v \in Versions : ~Committed(v)
  <2> SUFFICES ASSUME NEW v \in Versions PROVE ~Committed(v)
    OBVIOUS
  <2>1. v.key \in Key
    BY Fields DEF Versions
  <2> QED
    BY <2>1, <1>2 DEF Committed
<1> QED
  BY <1>1, <1>2, <1>3 DEF Init, Identities, OneOutcome, Unanswered, Reserved, Filed

\* What it takes to commit: the call holds its request lock and returns, its
\* mutation gets the receipt, and nothing else does.
LEMMA ReceiptStep ==
  ASSUME Typed, NEW c \in Call, CallStep(c), receipts' # receipts
  PROVE  /\ receipts' = receipts \cup {call[c].mut}
         /\ HoldsRequest(c) /\ call'[c] = Idle
         /\ call[c].mut \in Mutation
         /\ \/ CommitPut(c) \/ CommitDelete(c)
            \/ /\ call[c].mut.kind \in {"scan", "gc", "advance"}
               /\ UNCHANGED <<intents, versions>>
<1>0. call \in [Call -> CallState] /\ Shape(call[c])
  BY DEF Typed, TypeOK
<1>1. CASE CommitPut(c) \/ CommitDelete(c)
  <2>1. CommitVersion(call[c].mut) /\ Return(c) /\ call[c].pc = "deciding"
    BY <1>1 DEF CommitPut, CommitDelete
  <2> QED
    BY <1>0, <1>1, <2>1 DEF CommitVersion, Return, HoldsRequest, Shape
<1>2. CASE CommitScan(c) \/ CommitGc(c) \/ CommitAdvance(c)
  <2>1. /\ Return(c) /\ receipts' = receipts \cup {call[c].mut} /\ HoldsRequest(c)
        /\ UNCHANGED <<intents, versions>>
    BY <1>2 DEF CommitScan, CommitGc, CommitAdvance, HoldsRequest
  <2>2. call[c].mut.kind \in {"scan", "gc", "advance"} /\ call[c].mut \in Mutation
    BY <1>0, <1>2 DEF CommitScan, CommitGc, CommitAdvance, Shape
  <2> QED
    BY <1>0, <2>1, <2>2 DEF Return
<1> QED
  BY <1>1, <1>2, Changes

\* A PUT attempt either begins with a reservation or goes on as it was.
LEMMA WindowStep ==
  ASSUME Typed, NEW c \in Call, CallStep(c), InWindow(c)'
  PROVE  /\ call'[c].mut = call[c].mut
         /\ \/ /\ ReserveIntent(c) /\ ~Return(c)
               /\ call'[c].since = now /\ call'[c].got = call[c].got
               /\ call'[c].pc = "publishing"
            \/ /\ InWindow(c) /\ call'[c].since = call[c].since
               /\ UNCHANGED intents
<1>0. /\ call \in [Call -> CallState] /\ call[c] \in CallState /\ Shape(call[c])
      /\ Entered(c) /\ call'[c].pc \in {"publishing", "mutating", "deciding"}
      /\ call'[c].mut = call[c].mut /\ call[c].mut.kind = "put"
  BY Frame DEF Typed, TypeOK, InWindow, Entered, HoldingPCs
<1>1. ~Return(c)
  BY <1>0 DEF Return, Idle
<1>2. CASE ReserveIntent(c)
  BY <1>0, <1>1, <1>2 DEF ReserveIntent, CallState
<1>3. CASE Publish(c) \/ PublishFails(c)
  BY <1>0, <1>3 DEF Publish, PublishFails, Publishing, InWindow, CallState, database
<1>4. CASE Begin(c)
  BY <1>0, <1>1, <1>4 DEF Begin, Prepared, Goto, InWindow, Shape, CallState, database
<1>5. CASE LockKey(c)
  BY <1>0, <1>1, <1>5 DEF LockKey, Goto, InWindow, CallState, database
<1> QED
  BY <1>0, <1>2, <1>3, <1>4, <1>5 DEF Entered

\* A receipt appears only for the holder of its request lock, who then returns.
LEMMA NextUnanswered ==
  ASSUME Typed, Locks, Identities, NEW c \in Call, CallStep(c)
  PROVE  Unanswered'
<1> SUFFICES ASSUME NEW d \in Call, HoldsRequest(d)', NEW r \in receipts'
             PROVE  ~SameIdentity(r, call'[d].mut)
  BY DEF Unanswered
<1>1. CASE d = c
  <2>1. call'[c].mut = call[c].mut /\ Entered(c) /\ receipts' = receipts
    BY <1>1, AcquireRequest, Frame, ReceiptStep DEF HoldsRequest, Idle
  <2>2. CASE HoldsRequest(c)
    BY <1>1, <2>1, <2>2 DEF Identities, Unanswered
  <2>3. CASE ~HoldsRequest(c)
    <3>1. ReserveLock(c) \/ Begin(c)
      BY <1>1, <2>1, <2>3
      DEF Entered, HoldsRequest, LockKey, GcLock, GcReadClock, GcJudge, GcUnlink
    <3>2. ~Return(c)
      BY <1>1 DEF Return, Idle, HoldsRequest, Typed, TypeOK
    <3>3. ~Replayed(call[c].mut) /\ ~BoundInReceipts(call[c].mut)
      BY <3>1, <3>2 DEF ReserveLock, Begin
    <3> QED
      BY <1>1, <2>1, <3>3 DEF Replayed, BoundInReceipts
  <2> QED
    BY <2>2, <2>3
<1>2. CASE d # c
  <2>1. call'[d] = call[d] /\ HoldsRequest(d)
    BY <1>2, Frame DEF HoldsRequest
  <2>2. CASE r \in receipts
    BY <2>1, <2>2 DEF Identities, Unanswered
  <2>3. CASE r \notin receipts
    <3>1. r = call[c].mut /\ HoldsRequest(c)
      BY <2>3, ReceiptStep
    <3> QED
      BY <1>2, <2>1, <3>1 DEF Locks
  <2> QED
    BY <2>2, <2>3
<1> QED
  BY <1>1, <1>2

\* The intent of an attempt is only renewed, or cleared together with a receipt.
LEMMA NextReserved ==
  ASSUME Typed, Locks, Identities, NEW c \in Call, CallStep(c)
  PROVE  Reserved'
<1> SUFFICES ASSUME NEW d \in Call, InWindow(d)'
             PROVE  /\ call'[d].since <= now
                    /\ \/ call'[d].mut \in receipts'
                       \/ \E i \in intents' : /\ i.mut = call'[d].mut
                                             /\ i.expires >= call'[d].since + Ttl
  BY Changes DEF Reserved
<1> DEFINE m == call[c].mut
<1>0. now \in Nat /\ Ttl \in Nat /\ \A e \in Call : call[e].since \in Nat
  BY CountsAssumption DEF Typed, TypeOK, Time, CallState
<1>1. receipts \subseteq receipts'
  BY ReceiptStep
<1>2. CASE InWindow(d) /\ call'[d].since = call[d].since /\ call'[d].mut = call[d].mut
  <2>1. call[d].since <= now
    BY <1>2 DEF Identities, Reserved
  <2>2. CASE call[d].mut \in receipts
    BY <1>1, <1>2, <2>1, <2>2
  <2>3. CASE call[d].mut \notin receipts
    <3>1. PICK i \in intents : i.mut = call[d].mut /\ i.expires >= call[d].since + Ttl
      BY <1>2, <2>3 DEF Identities, Reserved
    <3>2. CASE intents' = intents
      BY <1>2, <2>1, <3>1, <3>2
    <3>3. CASE ReserveIntent(c) /\ intents' # intents
      <4>1. intents' = {j \in intents : j.mut # m} \cup {[mut |-> m, expires |-> now + Ttl]}
        BY <3>3 DEF ReserveIntent, Renewed
      <4>2. CASE i.mut # m
        BY <1>2, <2>1, <3>1, <4>1, <4>2
      <4>3. CASE i.mut = m
        <5> DEFINE j == [mut |-> m, expires |-> now + Ttl]
        <5>1. j \in intents' /\ j.mut = call[d].mut /\ j.expires >= call[d].since + Ttl
          BY <1>0, <2>1, <3>1, <4>1, <4>3
        <5> QED
          BY <5>1, <1>2, <2>1
      <4> QED
        BY <4>2, <4>3
    <3>4. CASE CommitPut(c)
      <4>1. intents' = {j \in intents : ~SameIdentity(j.mut, m)} /\ receipts' = receipts \cup {m}
            /\ HoldsRequest(c) /\ InWindow(c)
        BY <3>4 DEF CommitPut, CommitVersion, HoldsRequest, InWindow
      <4>2. CASE ~SameIdentity(i.mut, m)
        BY <1>2, <2>1, <3>1, <4>1, <4>2
      <4>3. CASE SameIdentity(i.mut, m)
        <5>1. m \notin receipts
          BY <4>1 DEF Identities, Unanswered, SameIdentity
        <5>2. PICK j \in intents : j.mut = m
          BY <4>1, <5>1 DEF Identities, Reserved
        <5>3. i = j
          BY <4>3, <5>2 DEF Identities, OneOutcome
        <5> QED
          BY <1>2, <2>1, <3>1, <4>1, <5>2, <5>3
      <4> QED
        BY <4>2, <4>3
    <3> QED
      BY <3>2, <3>3, <3>4, Changes
  <2> QED
    BY <2>2, <2>3
<1>3. CASE d = c /\ ReserveIntent(c) /\ ~Return(c)
  <2>1. call'[c].since = now /\ call'[c].mut = m
    BY <1>3, WindowStep DEF ReserveIntent, InWindow
  <2> DEFINE j == [mut |-> m, expires |-> now + Ttl]
  <2>2. j \in intents'
    BY <1>3 DEF ReserveIntent, Renewed
  <2> QED
    BY <1>0, <1>3, <2>1, <2>2
<1>4. CASE d # c
  BY <1>2, <1>4, Frame DEF InWindow
<1> QED
  BY <1>2, <1>3, <1>4, WindowStep

\* A version is appended to the history of its own key.
LEMMA NextFiled ==
  ASSUME Typed, Identities, NEW c \in Call, CallStep(c)
  PROVE  Filed'
<1> DEFINE m == call[c].mut
<1>1. CASE UNCHANGED versions
  BY <1>1 DEF Identities, Filed
<1>2. CASE CommitPut(c) \/ CommitDelete(c)
  <2>1. CommitVersion(m) /\ m \in Mutation /\ m.kind \in {"put", "delete"}
    BY <1>2 DEF CommitPut, CommitDelete, Typed, Shape
  <2>2. m \in Versions /\ m.key \in Key
    BY <2>1, Fields
  <2> SUFFICES ASSUME NEW k \in Key, NEW i \in DOMAIN versions'[k]
               PROVE  versions'[k][i].key = k
    BY DEF Filed
  <2>3. CASE k # m.key
    BY <2>1, <2>3 DEF CommitVersion, Identities, Filed, Typed, TypeOK
  <2>4. CASE k = m.key
    <3>1. versions'[k] = Append(versions[k], m) /\ versions[k] \in Seq(Versions)
      BY <2>1, <2>2, <2>4 DEF CommitVersion, Typed, TypeOK
    <3>2. i \in DOMAIN versions[k] \/ versions'[k][i] = m
      BY <3>1
    <3>3. i \in DOMAIN versions[k] => versions'[k][i] = versions[k][i]
      BY <3>1
    <3> QED
      BY <2>4, <3>2, <3>3 DEF Identities, Filed
  <2> QED
    BY <2>3, <2>4
<1> QED
  BY <1>1, <1>2, Changes

\* No insert of receipts, intents or versions meets a duplicate key.
LEMMA NextOneOutcome ==
  ASSUME Typed, Identities, NEW c \in Call, CallStep(c)
  PROVE  OneOutcome'
<1> DEFINE m == call[c].mut
<1>0. OneOutcome /\ (HoldsRequest(c) => \A r \in receipts : ~SameIdentity(r, m))
  BY DEF Identities, Unanswered
<1>a. SameIdentity(m, m)
  BY DEF SameIdentity
<1>b. receipts' # receipts => receipts' = receipts \cup {m} /\ HoldsRequest(c)
  BY ReceiptStep
<1>c. CommitPut(c) \/ CommitDelete(c) =>
        /\ CommitVersion(m) /\ HoldsRequest(c) /\ m \in Versions /\ m.key \in Key
  <2> HAVE CommitPut(c) \/ CommitDelete(c)
  <2>1. CommitVersion(m) /\ HoldsRequest(c) /\ m \in Mutation /\ m.kind \in {"put", "delete"}
    BY DEF CommitPut, CommitDelete, HoldsRequest, Typed, Shape
  <2> QED
    BY <2>1, Fields
<1>d. ReserveIntent(c) =>
        /\ HoldsRequest(c) /\ receipts' = receipts
        /\ \/ intents' = intents
           \/ intents' = Renewed(m) /\ ~BoundInIntents(m)
  BY DEF ReserveIntent, HoldsRequest
<1>e. intents' # intents => ReserveIntent(c) \/ CommitPut(c)
  BY Changes
<1>1. ASSUME NEW r \in receipts', NEW q \in receipts', SameIdentity(r, q)
      PROVE  r = q
  <2>1. r \in receipts /\ q \in receipts => r = q
    BY <1>0, <1>1 DEF OneOutcome
  <2>2. SameIdentity(q, r)
    BY <1>1, SameIdentitySymmetric
  <2> QED
    BY <1>0, <1>b, <1>1, <2>1, <2>2
<1>2. ASSUME NEW i \in intents', NEW j \in intents', SameIdentity(i.mut, j.mut)
      PROVE  i = j
  <2>1. i \in intents /\ j \in intents => i = j
    BY <1>0, <1>2 DEF OneOutcome
  <2>2. CASE intents' \subseteq intents
    BY <2>1, <2>2
  <2>3. CASE intents' = Renewed(m) /\ ~BoundInIntents(m)
    <3> DEFINE row == [mut |-> m, expires |-> now + Ttl]
    <3>1. \A x \in intents' : x = row \/ (x \in intents /\ ~SameIdentity(x.mut, m))
      BY <2>3 DEF Renewed, BoundInIntents
    <3>2. SameIdentity(j.mut, i.mut) /\ row.mut = m
      BY <1>2, SameIdentitySymmetric
    <3> QED
      BY <1>2, <2>1, <3>1, <3>2
  <2>4. CommitPut(c) => intents' \subseteq intents
    BY DEF CommitPut
  <2> QED
    BY <1>d, <1>e, <2>2, <2>3, <2>4
<1>3. ASSUME NEW i \in intents', NEW r \in receipts'
      PROVE  ~SameIdentity(i.mut, r)
  <2>1. i \in intents /\ r \in receipts => ~SameIdentity(i.mut, r)
    BY <1>0 DEF OneOutcome
  <2>2. CASE ReserveIntent(c)
    <3>1. r \in receipts /\ (i \in intents \/ i.mut = m)
      BY <2>2, <1>d DEF Renewed
    <3>2. ~SameIdentity(r, m)
      BY <3>1, <2>2, <1>0, <1>d
    <3> QED
      BY <2>1, <3>1, <3>2, SameIdentitySymmetric
  <2>3. CASE CommitPut(c)
    <3>1. i \in intents /\ ~SameIdentity(i.mut, m)
      BY <2>3 DEF CommitPut
    <3> QED
      BY <1>b, <2>1, <3>1
  <2>4. CASE intents' = intents /\ ~CommitPut(c)
    <3>1. CASE receipts' = receipts
      BY <2>1, <2>4, <3>1
    <3>2. CASE receipts' # receipts
      <4>1. m.kind # "put"
        BY <2>4, <3>2, ReceiptStep DEF CommitDelete
      <4>2. i.mut.kind = "put"
        BY <2>4 DEF Typed, TypeOK, IntentRow, Puts
      <4>3. ~SameIdentity(i.mut, m)
        BY <4>1, <4>2 DEF SameIdentity
      <4> QED
        BY <1>b, <2>1, <2>4, <3>2, <4>3
    <3> QED
      BY <3>1, <3>2
  <2> QED
    BY <1>e, <2>2, <2>3, <2>4
<1>4. ASSUME NEW v \in Versions
      PROVE  Committed(v)' <=> v \in receipts'
  <2>1. v.key \in Key /\ v.kind \in {"put", "delete"} /\ (Committed(v) <=> v \in receipts)
    BY <1>0, Fields DEF OneOutcome, Versions
  <2>2. CASE CommitPut(c) \/ CommitDelete(c)
    <3>1. Committed(v)' <=> Committed(v) \/ v = m
      BY <1>c, <2>1, <2>2, CommitAdds
    <3>2. receipts' = receipts \cup {m}
      BY <1>c, <2>2 DEF CommitVersion
    <3> QED
      BY <2>1, <3>1, <3>2
  <2>3. CASE ~CommitPut(c) /\ ~CommitDelete(c)
    <3>1. versions' = versions
      BY <2>3, Changes
    <3>2. v \in receipts' <=> v \in receipts
      BY <2>1, <2>3, ReceiptStep
    <3> QED
      BY <2>1, <3>1, <3>2 DEF Committed
  <2> QED
    BY <2>2, <2>3
<1>5. ASSUME NEW k \in Key, NEW i \in DOMAIN versions'[k], NEW j \in DOMAIN versions'[k],
             versions'[k][i] = versions'[k][j]
      PROVE  i = j
  <2>1. CASE versions'[k] = versions[k]
    BY <1>0, <1>5, <2>1 DEF OneOutcome
  <2>2. CASE (CommitPut(c) \/ CommitDelete(c)) /\ k = m.key
    <3> DEFINE s == versions[k]
    <3>1. s \in Seq(Versions) /\ versions'[k] = Append(s, m)
      BY <1>c, <2>2 DEF CommitVersion, Typed, TypeOK
    <3>2. m \notin receipts
      BY <1>0, <1>a, <1>c, <2>2
    <3>3. ~Committed(m)
      BY <1>0, <1>c, <2>2, <3>2 DEF OneOutcome
    <3>4. \A x \in DOMAIN s : s[x] # m
      BY <2>2, <3>3 DEF Committed
    <3>5. \A x, y \in DOMAIN s : s[x] = s[y] => x = y
      BY <1>0 DEF OneOutcome
    <3>6. /\ DOMAIN versions'[k] = 1 .. Len(s) + 1 /\ DOMAIN s = 1 .. Len(s) /\ Len(s) \in Nat
          /\ \A x \in DOMAIN s : versions'[k][x] = s[x]
          /\ versions'[k][Len(s) + 1] = m
      BY <3>1
    <3> QED
      BY <1>5, <3>4, <3>5, <3>6
  <2>3. CASE (CommitPut(c) \/ CommitDelete(c)) /\ k # m.key
    BY <1>c, <2>1, <2>3 DEF CommitVersion, Typed, TypeOK
  <2> QED
    BY <2>1, <2>2, <2>3, Changes
<1> QED
  BY <1>1, <1>2, <1>3, <1>4, <1>5 DEF OneOutcome

\* The identity layer is inductive.
LEMMA NextIdentities == Typed /\ Locks /\ Identities /\ [Next]_vars => Identities'
<1> SUFFICES ASSUME Typed, Locks, Identities, [Next]_vars PROVE Identities'
  OBVIOUS
<1>1. ASSUME NEW c \in Call, CallStep(c) PROVE Identities'
  BY <1>1, NextOneOutcome, NextUnanswered, NextReserved, NextFiled DEF Identities
<1>2. CASE UNCHANGED <<intents, receipts, versions, call>> /\ now' \in {now, now + 1}
  <2>1. \A c \in Call : call[c].since \in Nat /\ now \in Nat
    BY DEF Typed, TypeOK, CallState, Time
  <2>2. Reserved'
    BY <1>2, <2>1 DEF Identities, Reserved, InWindow
  <2> QED
    BY <1>2, <2>2 DEF Identities, OneOutcome, Unanswered, HoldsRequest, Filed, Committed
<1> QED
  BY <1>1, <1>2, NextCases DEF Tick, database, vars

\* The identity layer holds in every reachable state.
LEMMA IdentitiesAlways == Spec => []Identities
  BY InitIdentities, NextIdentities, TypedAlways, LocksAlways, PTL DEF Spec

\* Whatever the constants, an identity has one outcome: no duplicate key is
\* ever inserted, whoever retries, in whatever order, after whatever abort.
THEOREM OneOutcomePerIdentity == Spec => []OneOutcome
<1>1. Identities => OneOutcome
  BY DEF Identities
<1> QED
  BY <1>1, IdentitiesAlways, PTL

\* Whatever the constants, assertWriteIntent finds the row it looks for.
THEOREM IntentIsHeld == Spec => []IntentHeld
<1>1. Identities => IntentHeld
  <2> SUFFICES ASSUME Identities, NEW c \in Call,
                      call[c].pc \in {"mutating", "deciding"}, call[c].mut.kind = "put"
               PROVE  \E i \in intents : i.mut = call[c].mut
    BY DEF IntentHeld
  <2>1. HoldsRequest(c) /\ InWindow(c)
    BY DEF HoldsRequest, InWindow
  <2>2. call[c].mut \notin receipts
    BY <2>1 DEF Identities, Unanswered, SameIdentity
  <2> QED
    BY <2>1, <2>2 DEF Identities, Reserved
<1> QED
  BY <1>1, IdentitiesAlways, PTL

-----------------------------------------------------------------------------
(* Heads, and the refinement of VersionHistory.                            *)

\* object_heads points at the last version of its key.
HeadIsLast == \A k \in Key : head[k] = History!Current(k)

\* What a call decided under the key lock still holds of the head.
Decided == \A c \in Call : HoldsKey(c) =>
  /\ PreconditionMet(call[c].mut)
  /\ call[c].mut.kind = "delete" => head[call[c].mut.key] # Absent

\* The head layer.
Heads == HeadIsLast /\ Decided

\* There is neither head nor version at the start.
LEMMA InitHeads == Init => Heads
  BY DEF Init, Heads, HeadIsLast, Decided, HoldsKey, Idle, History!Current

\* A step that changes the versions of a key is a commit under its key lock.
LEMMA VersionStep ==
  ASSUME Typed, NEW c \in Call, CallStep(c), versions' # versions \/ head' # head
  PROVE  /\ CommitPut(c) \/ CommitDelete(c)
         /\ CommitVersion(call[c].mut) /\ HoldsKey(c) /\ HoldsRequest(c)
         /\ call[c].mut \in Mutation /\ call[c].mut.key \in Key
         /\ call[c].mut \in Versions /\ call[c].mut.kind \in {"put", "delete"}
<1>1. CommitPut(c) \/ CommitDelete(c)
  BY Changes
<1>2. CommitVersion(call[c].mut) /\ call[c].pc = "deciding"
  BY <1>1 DEF CommitPut, CommitDelete
<1>3. call[c].mut \in Mutation /\ call[c].mut.kind \in {"put", "delete"}
  BY <1>2 DEF Typed, Shape
<1> QED
  BY <1>1, <1>2, <1>3, Fields DEF HoldsKey, HoldsRequest

\* A commit makes its version the last one and the head.
LEMMA NextHeadIsLast ==
  ASSUME Typed, HeadIsLast, NEW c \in Call, CallStep(c)
  PROVE  HeadIsLast'
<1>1. CASE UNCHANGED <<versions, head>>
  BY <1>1 DEF HeadIsLast, History!Current
<1>2. CASE ~UNCHANGED <<versions, head>>
  <2>1. PICK m \in Versions : CommitVersion(m) /\ m.key \in Key
    BY <1>2, VersionStep
  <2> SUFFICES ASSUME NEW k \in Key PROVE head'[k] = History!Current(k)'
    BY DEF HeadIsLast
  <2>2. CASE k # m.key
    <3>1. head'[k] = head[k] /\ versions'[k] = versions[k]
      BY <2>1, <2>2 DEF CommitVersion, Typed, TypeOK
    <3> QED
      BY <3>1 DEF HeadIsLast, History!Current
  <2>3. CASE k = m.key
    <3>1. head'[k] = m /\ versions'[k] = Append(versions[k], m) /\ versions[k] \in Seq(Versions)
      BY <2>1, <2>3 DEF CommitVersion, Typed, TypeOK
    <3>2. versions'[k] # <<>> /\ versions'[k][Len(versions'[k])] = m
      BY <3>1
    <3> QED
      BY <3>1, <3>2 DEF History!Current
  <2> QED
    BY <2>2, <2>3
<1> QED
  BY <1>1, <1>2

\* Nobody else moves the head of a key that a call has locked.
LEMMA NextDecided ==
  ASSUME Typed, Locks, Decided, NEW c \in Call, CallStep(c)
  PROVE  Decided'
<1> SUFFICES ASSUME NEW d \in Call, HoldsKey(d)'
             PROVE  /\ call'[d].mut.pre \in {NoCondition, head'[call'[d].mut.key]}
                    /\ call'[d].mut.kind = "delete" => head'[call'[d].mut.key] # Absent
  BY DEF Decided, PreconditionMet
<1>1. CASE d = c
  <2>1. call'[c].mut = call[c].mut /\ LockKey(c)
    BY <1>1, AcquireKey
  <2>2. ~Return(c)
    BY <1>1 DEF Return, Idle, HoldsKey, Typed, TypeOK
  <2>3. head' = head /\ PreconditionMet(call[c].mut)
        /\ (call[c].mut.kind = "delete" => head[call[c].mut.key] # Absent)
    BY <2>1, <2>2 DEF LockKey, database
  <2> QED
    BY <1>1, <2>1, <2>3 DEF PreconditionMet
<1>2. CASE d # c
  <2> DEFINE m == call[d].mut
  <2>1. call'[d] = call[d] /\ HoldsKey(d)
    BY <1>2, Frame DEF HoldsKey
  <2>2. m.pre \in {NoCondition, head[m.key]} /\ (m.kind = "delete" => head[m.key] # Absent)
    BY <2>1 DEF Decided, PreconditionMet
  <2>3. head'[m.key] = head[m.key]
    <3>1. CASE head' = head
      BY <3>1
    <3>2. CASE head' # head
      <4>1. CommitVersion(call[c].mut) /\ HoldsKey(c)
        BY <3>2, VersionStep
      <4>2. m.key # call[c].mut.key
        BY <1>2, <2>1, <4>1 DEF Locks
      <4>3. m.key \in Key
        BY <2>1, Fields DEF Typed, Shape, HoldsKey
      <4> QED
        BY <4>1, <4>2, <4>3 DEF CommitVersion, Typed, TypeOK
    <3> QED
      BY <3>1, <3>2
  <2> QED
    BY <2>1, <2>2, <2>3
<1> QED
  BY <1>1, <1>2

\* The head layer is inductive.
LEMMA NextHeads == Typed /\ Locks /\ Heads /\ [Next]_vars => Heads'
<1> SUFFICES ASSUME Typed, Locks, Heads, [Next]_vars PROVE Heads'
  OBVIOUS
<1>1. CASE UNCHANGED vars \/ Tick
  <2>1. UNCHANGED <<versions, head, call>>
    BY <1>1 DEF vars, Tick, database
  <2> QED
    BY <2>1 DEF Heads, HeadIsLast, Decided, HoldsKey, PreconditionMet, History!Current
<1>2. ASSUME NEW c \in Call, CallStep(c) PROVE Heads'
  BY <1>2, NextHeadIsLast, NextDecided DEF Heads
<1> QED
  BY <1>1, <1>2, NextCases

\* The identity of a call about to commit is answered by no version.
LEMMA StillUnanswered ==
  ASSUME Typed, Identities, NEW c \in Call, HoldsKey(c)
  PROVE  ~History!Answered(call[c].mut)
<1> DEFINE m == call[c].mut
<1> SUFFICES ASSUME NEW k \in Key, NEW i \in DOMAIN versions[k],
                    versions[k][i].kind = m.kind, versions[k][i].request = m.request
             PROVE  FALSE
  BY DEF History!Answered
<1> DEFINE v == versions[k][i]
<1>1. v \in Versions /\ v.key = k
  BY DEF Typed, TypeOK, Identities, Filed
<1>2. v \in receipts
  BY <1>1 DEF Committed, Identities, OneOutcome
<1>3. m.kind \in {"put", "delete"} /\ HoldsRequest(c)
  BY DEF Typed, Shape, HoldsKey, HoldsRequest
<1>4. SameIdentity(v, m)
  BY <1>3 DEF SameIdentity
<1> QED
  BY <1>2, <1>3, <1>4 DEF Identities, Unanswered

\* Every step of the write path is a step of the abstract history or leaves it.
LEMMA StepRefines ==
  Typed /\ Identities /\ Heads /\ [Next]_vars => [History!Next]_versions
<1> SUFFICES ASSUME Typed, Identities, Heads, [Next]_vars, versions' # versions
             PROVE  History!Next
  OBVIOUS
<1>1. PICK c \in Call : CallStep(c)
  BY NextCases DEF vars, Tick, database
<1> DEFINE m == call[c].mut
<1>2. /\ CommitVersion(m) /\ HoldsKey(c) /\ m \in Mutation /\ m.key \in Key
      /\ m.kind \in {"put", "delete"}
  BY <1>1, VersionStep
<1>3. ~History!Answered(m)
  BY <1>2, StillUnanswered
<1>4. m.pre \in {NoCondition, History!Current(m.key)}
  BY <1>2 DEF Heads, HeadIsLast, Decided, PreconditionMet
<1>5. m.kind = "delete" => History!Current(m.key) # Absent
  BY <1>2 DEF Heads, HeadIsLast, Decided
<1>6. History!Accept(m)
  BY <1>2, <1>3, <1>4 DEF History!Accept, CommitVersion
<1> QED
  BY <1>2, <1>5, <1>6 DEF History!Next, History!PutVersion, History!Tombstone

\* The head layer holds in every reachable state.
LEMMA HeadsAlways == Spec => []Heads
  BY InitHeads, NextHeads, TypedAlways, LocksAlways, PTL DEF Spec

\* Whatever the number of calls, nodes, keys and requests, the write path
\* implements VersionHistory: linear histories, preconditions that hold of the
\* version they are applied to, one effect per identity.
THEOREM HistoryIsLinear == Spec => LinearHistory
<1>1. Init => History!Init
  BY DEF Init, History!Init
<1> QED
  BY <1>1, StepRefines, TypedAlways, IdentitiesAlways, HeadsAlways, PTL
  DEF Spec, LinearHistory, History!Spec
=============================================================================
