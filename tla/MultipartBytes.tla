--------------------------- MODULE MultipartBytes ---------------------------
(***************************************************************************)
(* Proofs about Multipart, on MultipartProofs: the collector leaves the    *)
(* bytes of versions and of parts that may still be completed.             *)
(*                                                                         *)
(* From its reservation on, an attempt has a live intent of its content,   *)
(* or its request has been answered and it will give up; so what it placed *)
(* stays until it commits.  A file is only doomed while nothing refers to  *)
(* it, and a reference is only made while no file is doomed.               *)
(***************************************************************************)
EXTENDS MultipartProofs

-----------------------------------------------------------------------------
(* The inductive invariant.                                                *)

\* From the reservation to the end of an attempt.
Window == {"publishing", "begin", "locking", "locked", "deciding"}

\* An identity has one intent, and a live intent is there.
IntentsInOrder ==
  /\ \A i, j \in intents : SameIdentity(i.mut, j.mut) => i = j
  /\ \A m \in live : \E i \in intents : i.mut = m

\* The content of a call has a live intent and what was placed is there, or
\* its request was answered.
Protected(s) ==
  s.pc \in Window /\ s.mut.kind # "abort" =>
    \/ Bound(s.mut)
    \/ /\ [mut |-> s.mut, content |-> s.content] \in intents /\ s.mut \in live
       /\ s.pc # "publishing" => \A n \in s.got : <<n, s.content>> \in files

\* A call that goes on after the publication has its threshold of receipts.
Enough(s) ==
  s.pc \in Window \ {"publishing"} /\ s.mut.kind # "abort" => Cardinality(s.got) >= Required

\* What the collector is about to unlink, nothing refers to.
DoomedUnreachable == doomed # Nothing => ~Reachable(doomed[2])

Guarded ==
  /\ Uploads /\ IntentsInOrder
  /\ \A c \in Call : Protected(call[c]) /\ Enough(call[c])
  /\ DoomedUnreachable
  /\ NeededStays

-----------------------------------------------------------------------------
(* What steps keep.                                                        *)

\* The nodes that have a verified replica of x, with its file.
Copies(x) == {n \in Node : <<n, x>> \in files \cap verified}

\* The initial state is in order.
LEMMA InitGuarded == Init => Guarded
<1> SUFFICES ASSUME Init PROVE Guarded
  OBVIOUS
<1>1. \A c \in Call : Protected(call[c]) /\ Enough(call[c])
  BY IdleShape DEF Init, Protected, Enough, Window
<1>2. IntentsInOrder /\ DoomedUnreachable
  BY DEF Init, IntentsInOrder, DoomedUnreachable
<1>3. Needed = {}
  BY DEF Init, Needed, ReachablePart
<1> QED
  BY <1>1, <1>2, <1>3, InitUploads DEF Guarded, NeededStays

\* Nothing that is needed loses a copy, and what is needed from now on has
\* enough of them.
LEMMA NeededKept ==
  ASSUME Guarded, verified \subseteq verified',
         \A x \in Needed : \A n \in Node : <<n, x>> \in files => <<n, x>> \in files',
         \A x \in Needed' : x \in Needed \/ \E got \in SUBSET Node :
           Cardinality(got) >= Required /\ \A n \in got : <<n, x>> \in files' \cap verified'
  PROVE  NeededStays'
<1> SUFFICES ASSUME NEW x \in Needed'
             PROVE  Cardinality({n \in Node : <<n, x>> \in files' \cap verified'}) >= Required
  BY DEF NeededStays
<1> DEFINE now == {n \in Node : <<n, x>> \in files' \cap verified'}
<1>1. PICK got \in SUBSET Node : Cardinality(got) >= Required /\ got \subseteq now
  <2>1. CASE x \in Needed
    <3>1. Copies(x) \subseteq now /\ Copies(x) \in SUBSET Node /\ Cardinality(Copies(x)) >= Required
      BY <2>1 DEF Guarded, NeededStays, Copies
    <3> QED
      BY <3>1
  <2>2. CASE \E got \in SUBSET Node :
               Cardinality(got) >= Required /\ \A n \in got : <<n, x>> \in files' \cap verified'
    BY <2>2
  <2> QED
    BY <2>1, <2>2
<1>2. IsFiniteSet(now)
  BY BoundsAssumption, FS_Subset
<1>3. IsFiniteSet(got) /\ Cardinality(got) <= Cardinality(now)
  BY <1>1, <1>2, FS_Subset
<1>4. Cardinality(got) \in Nat /\ Cardinality(now) \in Nat /\ Required \in Int
  BY <1>2, <1>3, FS_CardinalityType, BoundsAssumption
<1> QED
  BY <1>1, <1>3, <1>4

\* No part becomes reachable unless one is inserted: an upload that is opened
\* has none.
LEMMA PartsShrink ==
  ASSUME parts' = parts, expired \subseteq expired',
         \A u \in Upload : state'[u] = "open" => state[u] = "open" \/ OpenParts(u) = {},
         NEW x, ReachablePart(x)'
  PROVE  ReachablePart(x)
  BY DEF ReachablePart, OpenParts

\* A step that makes nothing reachable, and unlinks nothing that is.
LEMMA KeptStep ==
  ASSUME Guarded, parts' = parts, versions' = versions, verified' = verified,
         expired \subseteq expired', intents' \subseteq intents, live' \subseteq live,
         \A u \in Upload : state'[u] = "open" => state[u] = "open" \/ OpenParts(u) = {},
         doomed' \in {doomed, Nothing},
         \A n \in Node, x \in Content : Reachable(x) /\ <<n, x>> \in files => <<n, x>> \in files'
  PROVE  DoomedUnreachable' /\ NeededStays'
<1>1. ASSUME NEW x, Reachable(x)'
      PROVE  Reachable(x)
  <2>1. CASE ReachablePart(x)'
    BY <2>1, PartsShrink DEF Reachable
  <2>2. CASE ReachableObject(x)'
    BY <2>2 DEF Reachable, ReachableObject
  <2> QED
    BY <1>1, <2>1, <2>2 DEF Reachable
<1>2. DoomedUnreachable'
  <2> SUFFICES ASSUME doomed' # Nothing, Reachable(doomed[2])' PROVE FALSE
    BY DEF DoomedUnreachable, Reachable, ReachableObject, ReachablePart, OpenParts
  <2> QED
    BY <1>1 DEF Guarded, DoomedUnreachable
<1>3. ASSUME NEW x \in Needed'
      PROVE  x \in Needed
  <2>1. x \in Content /\ (ReachablePart(x)' \/ \E v \in versions : v.content = x)
    BY DEF Needed
  <2> QED
    BY <2>1, PartsShrink DEF Needed
<1>4. NeededStays'
  <2>1. \A x \in Needed : x \in Content /\ Reachable(x)
    BY DEF Needed, Reachable, ReachableObject
  <2> QED
    BY <1>3, <2>1, NeededKept
<1> QED
  BY <1>2, <1>4

\* The record s of a call stays protected if its intent is not forgotten
\* without an answer, and no file with a live intent is unlinked.
LEMMA ProtectedKept ==
  ASSUME Guarded, NEW s, Protected(s), receipts \subseteq receipts',
         \A i \in intents : i \in intents' \/ \E r \in receipts' : SameIdentity(r, i.mut),
         s.mut \in live /\ s.pc \in Window =>
           s.mut \in live' \/ \E r \in receipts' : SameIdentity(r, s.mut),
         \A n \in Node, x \in Content : ReachableObject(x) /\ <<n, x>> \in files => <<n, x>> \in files'
  PROVE  Protected(s)'
<1> SUFFICES ASSUME s.pc \in Window, s.mut.kind # "abort", ~Bound(s.mut)'
             PROVE  /\ [mut |-> s.mut, content |-> s.content] \in intents' /\ s.mut \in live'
                    /\ s.pc # "publishing" => \A n \in s.got : <<n, s.content>> \in files'
  BY DEF Protected, Bound
<1> DEFINE i == [mut |-> s.mut, content |-> s.content]
<1>1. \A r \in receipts' : ~SameIdentity(r, s.mut)
  BY DEF Bound
<1>2. i \in intents /\ s.mut \in live
      /\ (s.pc # "publishing" => \A n \in s.got : <<n, s.content>> \in files)
  BY <1>1 DEF Protected, Bound
<1>3. i.mut = s.mut /\ i.content = s.content
  OBVIOUS
<1>4. i \in intents' /\ s.mut \in live'
  BY <1>1, <1>2, <1>3
<1>5. ReachableObject(s.content)
  BY <1>2, <1>3 DEF ReachableObject
<1>6. ASSUME NEW n \in s.got, s.pc # "publishing"
      PROVE  <<n, s.content>> \in files'
  <2>1. <<n, s.content>> \in files /\ n \in Node /\ s.content \in Content
    BY <1>2, <1>6 DEF Guarded, Uploads, Types
  <2> QED
    BY <1>5, <2>1
<1> QED
  BY <1>4, <1>6

-----------------------------------------------------------------------------
(* Every step.                                                             *)

\* A step of one call that leaves intents, files and uploads alone.
LEMMA CallGuarded ==
  ASSUME Guarded, Uploads', NEW c \in Call, NEW s \in CallState,
         call' = [call EXCEPT ![c] = s], Protected(s), Enough(s),
         UNCHANGED <<uploads, blobs, intents, live>>, receipts \subseteq receipts'
  PROVE  Guarded'
<1>1. \A e \in Call : call'[e] = IF e = c THEN s ELSE call[e]
  BY CallTyped DEF Guarded, Uploads, Types
<1>2. ASSUME NEW e \in Call
      PROVE  Protected(call[e])' /\ Enough(call[e])'
  <2>1. PICK t : t = call'[e] /\ Protected(t) /\ Enough(t)
    BY <1>1 DEF Guarded
  <2>2. Protected(t)'
    BY <2>1, ProtectedKept DEF blobs
  <2> QED
    BY <2>1, <2>2 DEF Protected, Enough, Bound
<1>3. DoomedUnreachable' /\ NeededStays'
  BY KeptStep DEF uploads, blobs
<1>4. IntentsInOrder'
  BY DEF Guarded, IntentsInOrder
<1> QED
  BY <1>2, <1>3, <1>4 DEF Guarded

\* A call that returns, and nothing else but an answer.
LEMMA ReturnGuarded ==
  ASSUME Guarded, Uploads', NEW c \in Call, Return(c),
         UNCHANGED <<uploads, blobs, intents, live>>, receipts \subseteq receipts'
  PROVE  Guarded'
<1>1. Protected(Idle) /\ Enough(Idle)
  BY IdleShape DEF Protected, Enough, Window
<1> QED
  BY <1>1, IdleShape, CallGuarded DEF Return

\* A call that goes on after the publication.
LEMMA GotoGuarded ==
  ASSUME Guarded, Uploads', NEW c \in Call, NEW label \in PC, Goto(c, label),
         call[c].pc \in Window \ {"publishing"}, label # "publishing",
         UNCHANGED <<uploads, writes, blobs>>
  PROVE  Guarded'
<1> DEFINE s == [call[c] EXCEPT !.pc = label]
<1>1. /\ s \in CallState /\ call' = [call EXCEPT ![c] = s]
      /\ s.pc = label /\ s.mut = call[c].mut /\ s.content = call[c].content
      /\ s.got = call[c].got
  BY GotoRecord DEF Guarded
<1> HIDE DEF s
<1>2. Protected(call[c]) /\ Enough(call[c])
  BY DEF Guarded
<1>3. Protected(s) /\ Enough(s)
  BY <1>1, <1>2 DEF Protected, Enough
<1> QED
  BY <1>1, <1>3, CallGuarded DEF writes

\* An answer to a request that is locked: its intent is forgotten, and the
\* other attempts of the same request will find the answer.
LEMMA AnswerCallsGuarded ==
  ASSUME Guarded, NEW c \in Call, NEW m \in Mutation, m = call[c].mut, m.kind # "abort",
         call[c].pc \in RequestLabels, Answer(c), files' = files, Uploads'
  PROVE  IntentsInOrder' /\ \A e \in Call : Protected(call[e])' /\ Enough(call[e])'
<1>1. /\ receipts' = receipts \cup {m} /\ intents' = Forget(m) /\ live' = live \ {m}
      /\ \A e \in Call : call'[e] = IF e = c THEN Idle ELSE call[e]
  BY CallTyped, IdleShape DEF Answer, Return, Guarded, Uploads, Types
<1>2. \E i \in intents : i.mut = m
  <2>1. Protected(call[c]) /\ ~Bound(m) /\ call[c].pc \in Window
    BY CallFacts DEF Guarded, Asked, RequestLabels, Window
  <2>2. [mut |-> m, content |-> call[c].content] \in intents
    BY <2>1 DEF Protected
  <2> QED
    BY <2>2
<1>3. \A i \in intents : i \in intents' \/ SameIdentity(m, i.mut)
  BY <1>1 DEF Forget, SameIdentity
<1>4. IntentsInOrder'
  <2>1. ASSUME NEW n \in live'
        PROVE  \E i \in intents' : i.mut = n
    <3>1. PICK i \in intents : i.mut = n
      BY <1>1, <2>1 DEF Guarded, IntentsInOrder
    <3>2. PICK j \in intents : j.mut = m
      BY <1>2
    <3>3. i # j
      BY <1>1, <2>1, <3>1, <3>2
    <3>4. ~SameIdentity(i.mut, m)
      BY <3>2, <3>3 DEF Guarded, IntentsInOrder
    <3> QED
      BY <1>1, <3>1, <3>4 DEF Forget
  <2>2. intents' \subseteq intents
    BY <1>1 DEF Forget
  <2> QED
    BY <2>1, <2>2 DEF Guarded, IntentsInOrder
<1>5. ASSUME NEW e \in Call
      PROVE  Protected(call[e])' /\ Enough(call[e])'
  <2>1. CASE e = c
    BY <1>1, <2>1, IdleShape DEF Protected, Enough, Window
  <2>2. CASE e # c
    <3>1. PICK t : t = call[e] /\ t = call'[e] /\ Protected(t) /\ Enough(t)
      BY <1>1, <2>2 DEF Guarded
    <3>2. t.mut \in live => t.mut \in live' \/ SameIdentity(m, t.mut)
      BY <1>1 DEF SameIdentity
    <3>3. m \in receipts' /\ receipts \subseteq receipts'
      BY <1>1
    <3>4. Protected(t)'
      BY <1>3, <3>1, <3>2, <3>3, ProtectedKept
    <3> QED
      BY <3>1, <3>4 DEF Protected, Enough, Bound
  <2> QED
    BY <2>1, <2>2
<1> QED
  BY <1>4, <1>5

\* An answer, and nothing else.
LEMMA AnswerGuarded ==
  ASSUME Guarded, NEW c \in Call, NEW m \in Mutation, m = call[c].mut, m.kind # "abort",
         call[c].pc \in RequestLabels, Answer(c), UNCHANGED <<uploads, blobs>>, Uploads'
  PROVE  Guarded'
<1>1. intents' \subseteq intents /\ live' \subseteq live
  BY DEF Answer, Forget
<1>2. DoomedUnreachable' /\ NeededStays'
  BY <1>1, KeptStep DEF uploads, blobs
<1> QED
  BY <1>2, AnswerCallsGuarded DEF Guarded, blobs

\* The start of an operation, and the reading of parts.
LEMMA StartGuarded ==
  ASSUME Guarded, Uploads', NEW c \in Call,
         ReadPart(c) \/ \E m \in Mutation : StartPart(c, m) \/ StartComplete(c, m) \/ StartAbort(c, m)
  PROVE  Guarded'
<1>1. UNCHANGED <<uploads, blobs, intents, live>> /\ receipts \subseteq receipts'
  BY DEF ReadPart, StartPart, StartComplete, StartAbort, writes
<1>2. call' \in [Call -> CallState] /\ call'[c] \in CallState /\ call' = [call EXCEPT ![c] = call'[c]]
  <2>1. call \in [Call -> CallState] /\ call' \in [Call -> CallState]
    BY DEF Guarded, Uploads, Types
  <2>2. \A e \in Call \ {c} : call'[e] = call[e]
    BY <2>1 DEF ReadPart, Return, StartPart, StartComplete, StartAbort
  <2> QED
    BY <2>1, <2>2
<1>3. call'[c].pc \notin Window \/ call'[c].mut.kind = "abort"
  <2>1. call \in [Call -> CallState] /\ call[c] \in CallState /\ Idle \in CallState /\ Idle.pc = "idle"
    BY IdleShape DEF Guarded, Uploads, Types
  <2>2. CASE ReadPart(c)
    <3>1. call'[c] = Idle \/ call'[c].pc \in {"reading", "reserving"}
      BY <2>1, <2>2 DEF ReadPart, Return, CallState
    <3> QED
      BY <2>1, <3>1 DEF Window
  <2>3. ASSUME NEW m \in Mutation, StartPart(c, m)
        PROVE  call'[c].pc = "reserving"
    BY <2>1, <2>3 DEF StartPart, CallState
  <2>4. ASSUME NEW m \in Mutation, StartComplete(c, m)
        PROVE  call'[c].pc \in {"reading", "replaying"}
    BY <2>1, <2>4 DEF StartComplete, CallState
  <2>5. ASSUME NEW m \in Mutation, StartAbort(c, m)
        PROVE  call'[c].mut.kind = "abort"
    BY <2>1, <2>5 DEF StartAbort, CallState
  <2> QED
    BY <2>2, <2>3, <2>4, <2>5 DEF Window
<1>4. PICK s \in CallState : s = call'[c] /\ call' = [call EXCEPT ![c] = s] /\ Protected(s) /\ Enough(s)
  BY <1>2, <1>3 DEF Protected, Enough
<1> QED
  BY <1>1, <1>4, CallGuarded

\* The request is locked, or found answered.
LEMMA BeginGuarded ==
  ASSUME Guarded, Uploads', NEW c \in Call, Begin(c)
  PROVE  Guarded'
<1>1. UNCHANGED <<uploads, blobs, intents, live>> /\ receipts \subseteq receipts'
  BY DEF Begin, writes
<1>2. CASE Return(c)
  BY <1>1, <1>2, ReturnGuarded
<1>3. CASE ~Return(c)
  <2> DEFINE late == call[c].mut.upload \in expired
             s == [call[c] EXCEPT !.pc = "locking", !.late = late]
  <2>1. call[c] \in CallState /\ call[c].pc = "begin" /\ Protected(call[c]) /\ Enough(call[c])
    BY CallFacts DEF Guarded, Begin
  <2>2. late \in BOOLEAN
    OBVIOUS
  <2>3. call' = [call EXCEPT ![c].pc = "locking", ![c].late = late]
    BY <1>3 DEF Begin
  <2> HIDE DEF late
  <2>4. /\ s \in CallState /\ s.pc = "locking" /\ s.mut = call[c].mut
        /\ s.content = call[c].content /\ s.got = call[c].got
    BY <2>1, <2>2 DEF CallState, PC
  <2>5. call' = [call EXCEPT ![c] = s]
    BY <2>1, <2>3 DEF CallState, Guarded, Uploads, Types
  <2> HIDE DEF s
  <2>6. Protected(s) /\ Enough(s)
    BY <2>1, <2>4 DEF Protected, Enough, Window
  <2> QED
    BY <1>1, <2>4, <2>5, <2>6, CallGuarded
<1> QED
  BY <1>2, <1>3

\* The upload, or the key, is locked; or the request answered or given up.
LEMMA LockGuarded ==
  ASSUME Guarded, Uploads', NEW c \in Call, LockForPart(c) \/ LockForComplete(c) \/ LockKey(c)
  PROVE  Guarded'
<1>1. PICK m \in Mutation : m = call[c].mut /\ m.kind # "abort"
  BY CallFacts DEF Guarded, Shape, LockForPart, LockForComplete, LockKey
<1>2. call[c].pc \in {"locking", "locked"} /\ UNCHANGED <<uploads, blobs>>
  BY DEF LockForPart, LockForComplete, LockKey
<1>3. CASE Answer(c)
  BY <1>1, <1>2, <1>3, AnswerGuarded DEF RequestLabels
<1>4. CASE Return(c) /\ UNCHANGED writes
  BY <1>2, <1>4, ReturnGuarded DEF writes
<1>5. CASE (Goto(c, "locked") \/ Goto(c, "deciding")) /\ UNCHANGED writes
  BY <1>2, <1>5, GotoGuarded DEF PC, Window
<1> QED
  BY <1>3, <1>4, <1>5 DEF LockForPart, LockForComplete, LockKey

\* The reservation: no file is doomed, and the intent protects the content.
LEMMA ReserveGuarded ==
  ASSUME Guarded, Uploads', NEW c \in Call, Reserve(c)
  PROVE  Guarded'
<1>1. PICK m \in Mutation : m = call[c].mut /\ m.kind # "abort"
  BY CallFacts DEF Guarded, Shape, Reserve
<1>2. CASE Return(c) /\ UNCHANGED <<intents, live>>
  BY <1>2, ReturnGuarded DEF Reserve
<1>3. CASE /\ \A i \in intents : SameIdentity(i.mut, m) => i = Intent(c)
           /\ intents' = intents \cup {Intent(c)} /\ live' = live \cup {m} /\ Goto(c, "publishing")
  <2>1. UNCHANGED <<uploads, receipts, blobs>> /\ doomed = Nothing
    BY DEF Reserve, GcRowFree
  <2>2. \E s \in CallState : /\ \A e \in Call : call'[e] = IF e = c THEN s ELSE call[e]
                            /\ s.pc = "publishing" /\ s.mut = m /\ s.content = call[c].content
    <3> DEFINE s == [call[c] EXCEPT !.pc = "publishing"]
    <3>1. /\ s \in CallState /\ call' = [call EXCEPT ![c] = s]
          /\ s.pc = "publishing" /\ s.mut = m /\ s.content = call[c].content
      BY <1>1, <1>3, GotoRecord DEF PC, Guarded
    <3> HIDE DEF s
    <3>2. \A e \in Call : call'[e] = IF e = c THEN s ELSE call[e]
      BY <3>1 DEF Guarded, Uploads, Types
    <3> QED
      BY <3>1, <3>2
  <2>3. Intent(c).mut = m /\ Intent(c) = [mut |-> m, content |-> call[c].content]
    BY <1>1 DEF Intent
  <2>4. ASSUME NEW e \in Call
        PROVE  Protected(call[e])' /\ Enough(call[e])'
    <3>1. CASE e = c
      BY <1>3, <2>2, <2>3, <3>1 DEF Protected, Enough, Window
    <3>2. CASE e # c
      <4>1. PICK t : t = call[e] /\ t = call'[e] /\ Protected(t) /\ Enough(t)
        BY <2>2, <3>2 DEF Guarded
      <4>2. Protected(t)'
        BY <1>3, <2>1, <4>1, ProtectedKept DEF blobs
      <4> QED
        BY <4>1, <4>2 DEF Protected, Enough, Bound
    <3> QED
      BY <3>1, <3>2
  <2>5. IntentsInOrder'
    <3>1. \A i \in intents : SameIdentity(Intent(c).mut, i.mut) => SameIdentity(i.mut, m)
      BY <2>3 DEF SameIdentity
    <3>2. \A i, j \in intents' : SameIdentity(i.mut, j.mut) => i = j
      BY <1>3, <2>3, <3>1 DEF Guarded, IntentsInOrder
    <3>3. \A n \in live' : \E i \in intents' : i.mut = n
      BY <1>3, <2>3 DEF Guarded, IntentsInOrder
    <3> QED
      BY <3>2, <3>3 DEF IntentsInOrder
  <2>6. DoomedUnreachable'
    BY <2>1 DEF DoomedUnreachable, blobs
  <2>7. NeededStays'
    <3>1. Needed' = Needed
      BY <2>1 DEF Needed, ReachablePart, OpenParts, uploads
    <3> QED
      BY <2>1, <3>1, NeededKept DEF blobs
  <2> QED
    BY <2>4, <2>5, <2>6, <2>7 DEF Guarded
<1> QED
  BY <1>1, <1>2, <1>3 DEF Reserve

\* The publication only adds files.
LEMMA PublishGuarded ==
  ASSUME Guarded, Uploads', NEW c \in Call, Publish(c)
  PROVE  Guarded'
<1>1. /\ call[c].pc = "publishing" /\ call[c] \in CallState /\ Protected(call[c])
      /\ UNCHANGED <<uploads, writes, verified, doomed>>
  BY CallFacts DEF Guarded, Publish
<1>2. PICK placed \in SUBSET Node, got \in SUBSET Node :
        /\ got \subseteq placed /\ files' = files \cup (placed \X {call[c].content})
        /\ IF Cardinality(got) < Required THEN Return(c)
           ELSE call' = [call EXCEPT ![c].pc = "begin", ![c].got = got]
  BY DEF Publish
<1>3. files \subseteq files'
  BY <1>2
<1>4. PICK s \in CallState :
        /\ \A e \in Call : call'[e] = IF e = c THEN s ELSE call[e]
        /\ \/ s = Idle
           \/ /\ s.pc = "begin" /\ s.mut = call[c].mut /\ s.content = call[c].content
              /\ s.got = got /\ Cardinality(got) >= Required
  <2>1. CASE Return(c)
    BY <2>1, IdleShape DEF Return, Guarded, Uploads, Types
  <2>2. CASE ~Return(c)
    <3> DEFINE s == [call[c] EXCEPT !.pc = "begin", !.got = got]
    <3>1. /\ s \in CallState /\ s.pc = "begin" /\ s.mut = call[c].mut
          /\ s.content = call[c].content /\ s.got = got
      BY <1>1 DEF CallState, PC
    <3>2. \A e \in Call : call'[e] = IF e = c THEN s ELSE call[e]
      BY <1>1, <1>2, <2>2 DEF CallState, Guarded, Uploads, Types
    <3>3. IsFiniteSet(got)
      BY BoundsAssumption, FS_Subset
    <3>4. Cardinality(got) >= Required
      BY <1>2, <2>2, <3>3, FS_CardinalityType, BoundsAssumption
    <3> HIDE DEF s
    <3> QED
      BY <3>1, <3>2, <3>4
  <2> QED
    BY <2>1, <2>2
<1>5. ASSUME NEW e \in Call
      PROVE  Protected(call[e])' /\ Enough(call[e])'
  <2>1. CASE e = c
    <3>1. CASE s = Idle
      BY <1>4, <2>1, <3>1, IdleShape DEF Protected, Enough, Window
    <3>2. CASE s.pc = "begin" /\ s.mut = call[c].mut /\ s.content = call[c].content
               /\ s.got = got /\ Cardinality(got) >= Required
      <4>1. \A n \in got : <<n, call[c].content>> \in files'
        BY <1>2
      <4> QED
        BY <1>1, <1>4, <2>1, <3>2, <4>1 DEF Protected, Enough, Window, Bound, writes
    <3> QED
      BY <1>4, <3>1, <3>2
  <2>2. CASE e # c
    <3>1. PICK t : t = call[e] /\ t = call'[e] /\ Protected(t) /\ Enough(t)
      BY <1>4, <2>2 DEF Guarded
    <3>2. Protected(t)'
      BY <1>1, <1>3, <3>1, ProtectedKept DEF writes
    <3> QED
      BY <3>1, <3>2 DEF Protected, Enough, Bound
  <2> QED
    BY <2>1, <2>2
<1>6. DoomedUnreachable' /\ NeededStays'
  BY <1>1, <1>3, KeptStep DEF uploads, writes
<1>7. IntentsInOrder'
  BY <1>1 DEF Guarded, IntentsInOrder, writes
<1> QED
  BY <1>5, <1>6, <1>7 DEF Guarded

\* What a commit refers to has its threshold of verified copies.
LEMMA CommitCopies ==
  ASSUME Guarded, NEW c \in Call, call[c].pc \in UploadLabels, call[c].mut.kind # "abort",
         verified' = Recorded(c), files' = files
  PROVE  \E got \in SUBSET Node :
           Cardinality(got) >= Required /\ \A n \in got : <<n, call[c].content>> \in files' \cap verified'
<1>1. /\ call[c] \in CallState /\ ~Bound(call[c].mut)
      /\ Protected(call[c]) /\ Enough(call[c])
  BY CallFacts DEF Guarded, Asked, UploadLabels
<1>2. call[c].got \in SUBSET Node /\ Cardinality(call[c].got) >= Required
  BY <1>1 DEF Enough, Window, UploadLabels, CallState
<1>3. \A n \in call[c].got : <<n, call[c].content>> \in files
  BY <1>1 DEF Protected, Window, UploadLabels
<1>4. \A n \in call[c].got : <<n, call[c].content>> \in verified'
  BY DEF Recorded
<1> QED
  BY <1>2, <1>3, <1>4

\* The part that is inserted has its copies, and no file is doomed.
LEMMA CommitPartGuarded ==
  ASSUME Guarded, Uploads', NEW c \in Call, CommitPart(c)
  PROVE  Guarded'
<1>1. PICK m \in Mutation : m = call[c].mut /\ m.kind = "part"
  BY CallFacts DEF Guarded, CommitPart, Shape
<1>2. /\ call[c].pc = "locked" /\ call[c].content = <<m.bytes>>
      /\ m.upload \in Upload /\ m.number \in Number
  BY <1>1, CallFacts, Fields DEF Guarded, CommitPart, Shape
<1>3. /\ parts' = [parts EXCEPT ![m.upload][m.number] = m.bytes]
      /\ verified' = Recorded(c) /\ Answer(c) /\ doomed = Nothing
      /\ UNCHANGED <<state, expired, versions, files, doomed>>
  BY <1>1 DEF CommitPart, GcRowFree
<1>4. \A u \in Upload, n \in Number :
        parts'[u][n] = IF u = m.upload /\ n = m.number THEN m.bytes ELSE parts[u][n]
  BY <1>2, <1>3 DEF Guarded, Uploads, Types
<1>5. ASSUME NEW x, ReachablePart(x)'
      PROVE  ReachablePart(x) \/ x = <<m.bytes>>
  BY <1>3, <1>4, <1>5 DEF ReachablePart, OpenParts
<1>6. \A x \in Needed' : x \in Needed \/ x = call[c].content
  BY <1>2, <1>3, <1>5 DEF Needed
<1>7. verified \subseteq verified'
  BY <1>3 DEF Recorded
<1>8. NeededStays'
  BY <1>1, <1>2, <1>3, <1>6, <1>7, CommitCopies, NeededKept DEF UploadLabels
<1>9. DoomedUnreachable'
  BY <1>3 DEF DoomedUnreachable
<1> QED
  BY <1>1, <1>2, <1>3, <1>8, <1>9, AnswerCallsGuarded DEF Guarded, RequestLabels

\* So does the version; the parts of its upload are not needed any more.
LEMMA CommitCompleteGuarded ==
  ASSUME Guarded, Uploads', NEW c \in Call, CommitComplete(c)
  PROVE  Guarded'
<1>1. PICK m \in Mutation : m = call[c].mut /\ m.kind = "complete"
  BY CallFacts DEF Guarded, CommitComplete, Shape
<1>2. /\ versions' = versions \cup {Intent(c)} /\ Intent(c).content = call[c].content
      /\ state' = [state EXCEPT ![m.upload] = "completed"] /\ call[c].pc = "deciding"
      /\ verified' = Recorded(c) /\ Answer(c) /\ doomed = Nothing
      /\ UNCHANGED <<expired, parts, files, doomed>>
  BY <1>1 DEF CommitComplete, GcRowFree, Completed, Intent
<1>3. \A u \in Upload : state'[u] = "open" => state[u] = "open"
  BY <1>2 DEF Guarded, Uploads, Types
<1>4. \A x \in Needed' : x \in Needed \/ x = call[c].content
  <2>1. ASSUME NEW x \in Needed'
        PROVE  x \in Needed \/ x = call[c].content
    <3>1. x \in Content /\ (ReachablePart(x)' \/ \E v \in versions' : v.content = x)
      BY DEF Needed
    <3>2. ReachablePart(x)' => ReachablePart(x)
      BY <1>2, <1>3, PartsShrink
    <3> QED
      BY <1>2, <3>1, <3>2 DEF Needed
  <2> QED
    BY <2>1
<1>5. verified \subseteq verified'
  BY <1>2 DEF Recorded
<1>6. NeededStays'
  BY <1>1, <1>2, <1>4, <1>5, CommitCopies, NeededKept DEF UploadLabels
<1>7. DoomedUnreachable'
  BY <1>2 DEF DoomedUnreachable
<1> QED
  BY <1>1, <1>2, <1>6, <1>7, AnswerCallsGuarded DEF Guarded, RequestLabels

\* An abort or the opening of an upload: no part becomes reachable.
LEMMA UploadChangeGuarded ==
  ASSUME Guarded, Uploads', UNCHANGED <<parts, versions, intents, live, blobs>>,
         expired \subseteq expired', receipts \subseteq receipts',
         \A e \in Call : call'[e] = call[e] \/ call'[e] = Idle,
         \A u \in Upload : state'[u] = "open" => state[u] = "open" \/ OpenParts(u) = {}
  PROVE  Guarded'
<1>1. DoomedUnreachable' /\ NeededStays'
  BY KeptStep DEF blobs
<1>2. ASSUME NEW e \in Call
      PROVE  Protected(call[e])' /\ Enough(call[e])'
  <2>1. Protected(Idle) /\ Enough(Idle)
    BY IdleShape DEF Protected, Enough, Window
  <2>2. PICK t : t = call'[e] /\ Protected(t) /\ Enough(t)
    BY <2>1 DEF Guarded
  <2>3. Protected(t)'
    BY <2>2, ProtectedKept DEF blobs
  <2> QED
    BY <2>2, <2>3 DEF Protected, Enough, Bound
<1>3. IntentsInOrder'
  BY DEF Guarded, IntentsInOrder
<1> QED
  BY <1>1, <1>2, <1>3 DEF Guarded

\* What happens to uploads apart from their parts and their completion.
LEMMA UploadsChangeGuarded ==
  ASSUME Guarded, Uploads',
         \/ \E u \in Upload : Initiate(u) \/ Expire(u)
         \/ \E c \in Call : CommitAbort(c) \/ Abort(c) \/ Replay(c)
  PROVE  Guarded'
<1>1. ASSUME NEW u \in Upload, Initiate(u)
      PROVE  Guarded'
  <2>1. /\ state[u] = "none" /\ state' = [state EXCEPT ![u] = "open"]
        /\ UNCHANGED <<parts, versions, intents, live, blobs, expired, receipts, call>>
    BY <1>1 DEF Initiate, writes
  <2>2. OpenParts(u) = {}
    BY <2>1 DEF Guarded, Uploads, Fresh
  <2>3. \A w \in Upload : state'[w] = "open" => state[w] = "open" \/ OpenParts(w) = {}
    BY <2>1, <2>2 DEF Guarded, Uploads, Types
  <2> QED
    BY <2>1, <2>3, UploadChangeGuarded
<1>2. ASSUME NEW u \in Upload, Expire(u)
      PROVE  Guarded'
  BY <1>2, UploadChangeGuarded DEF Expire, writes
<1>3. ASSUME NEW c \in Call, CommitAbort(c)
      PROVE  Guarded'
  <2>1. \A e \in Call : call'[e] = call[e] \/ call'[e] = Idle
    BY <1>3 DEF CommitAbort, Return, Guarded, Uploads, Types
  <2>2. \A w \in Upload : state'[w] = "open" => state[w] = "open"
    BY <1>3 DEF CommitAbort, Guarded, Uploads, Types
  <2>3. receipts \subseteq receipts' /\ UNCHANGED <<parts, versions, intents, live, blobs, expired>>
    BY <1>3 DEF CommitAbort
  <2> QED
    BY <2>1, <2>2, <2>3, UploadChangeGuarded
<1>4. ASSUME NEW c \in Call, Abort(c) \/ Replay(c)
      PROVE  Guarded'
  BY <1>4, ReturnGuarded DEF Abort, Replay, writes
<1> QED
  BY <1>1, <1>2, <1>3, <1>4

\* An intent only expires when no attempt relies on it.
LEMMA ExpireIntentGuarded ==
  ASSUME Guarded, Uploads', NEW m \in Mutation, ExpireIntent(m)
  PROVE  Guarded'
<1>1. /\ ~InWindow(m) /\ live' = live \ {m}
      /\ UNCHANGED <<uploads, receipts, intents, blobs, call>>
  BY DEF ExpireIntent
<1>2. DoomedUnreachable' /\ NeededStays'
  BY <1>1, KeptStep DEF uploads, blobs
<1>3. ASSUME NEW e \in Call
      PROVE  Protected(call[e])' /\ Enough(call[e])'
  <2>1. PICK t : t = call[e] /\ t = call'[e] /\ Protected(t) /\ Enough(t)
    BY <1>1 DEF Guarded
  <2>2. t.pc \in Window => t.mut # m
    BY <1>1, <2>1 DEF InWindow, Window
  <2>3. Protected(t)'
    BY <1>1, <2>1, <2>2, ProtectedKept DEF blobs
  <2> QED
    BY <2>1, <2>3 DEF Protected, Enough, Bound
<1>4. IntentsInOrder'
  BY <1>1 DEF Guarded, IntentsInOrder
<1> QED
  BY <1>2, <1>3, <1>4 DEF Guarded

\* The collector dooms a file that nothing refers to.
LEMMA GcJudgeGuarded ==
  ASSUME Guarded, Uploads', NEW n \in Node, NEW x \in Content, GcJudge(n, x)
  PROVE  Guarded'
<1>1. /\ doomed' = <<n, x>> /\ ~Reachable(x)
      /\ UNCHANGED <<uploads, writes, files, verified, call>>
  BY DEF GcJudge
<1>2. DoomedUnreachable'
  <2>1. Reachable(x)' => Reachable(x)
    BY <1>1 DEF Reachable, ReachableObject, ReachablePart, OpenParts, uploads, writes
  <2>2. doomed'[2] = x
    BY <1>1
  <2>3. ~Reachable(doomed[2])'
    BY <1>1, <2>2 DEF Reachable, ReachableObject, ReachablePart, OpenParts, uploads, writes
  <2> QED
    BY <2>3 DEF DoomedUnreachable
<1>3. NeededStays'
  BY <1>1 DEF Guarded, NeededStays, Needed, ReachablePart, OpenParts, uploads
<1>4. IntentsInOrder' /\ \A e \in Call : Protected(call[e])' /\ Enough(call[e])'
  BY <1>1 DEF Guarded, IntentsInOrder, Protected, Enough, Bound, writes
<1> QED
  BY <1>2, <1>3, <1>4 DEF Guarded

\* What it unlinks, nothing has referred to since.
LEMMA GcUnlinkGuarded ==
  ASSUME Guarded, Uploads', GcUnlink
  PROVE  Guarded'
<1>1. /\ doomed # Nothing /\ files' \in {files, files \ {doomed}} /\ doomed' = Nothing
      /\ UNCHANGED <<uploads, writes, verified, call>>
  BY DEF GcUnlink
<1>2. ASSUME NEW n \in Node, NEW x \in Content, Reachable(x), <<n, x>> \in files
      PROVE  <<n, x>> \in files'
  <2>1. ~Reachable(doomed[2])
    BY <1>1 DEF Guarded, DoomedUnreachable
  <2>2. doomed # <<n, x>>
    BY <1>2, <2>1
  <2> QED
    BY <1>1, <1>2, <2>2
<1>3. DoomedUnreachable' /\ NeededStays'
  BY <1>1, <1>2, KeptStep DEF uploads, writes
<1>4. ASSUME NEW e \in Call
      PROVE  Protected(call[e])' /\ Enough(call[e])'
  <2>1. PICK t : t = call[e] /\ t = call'[e] /\ Protected(t) /\ Enough(t)
    BY <1>1 DEF Guarded
  <2>2. Protected(t)'
    BY <1>1, <1>2, <2>1, ProtectedKept DEF Reachable, writes
  <2> QED
    BY <2>1, <2>2 DEF Protected, Enough, Bound
<1>5. IntentsInOrder'
  BY <1>1 DEF Guarded, IntentsInOrder, writes
<1> QED
  BY <1>3, <1>4, <1>5 DEF Guarded

\* The invariant is inductive.
LEMMA NextGuarded == Guarded /\ [Next]_vars => Guarded'
<1> SUFFICES ASSUME Guarded, [Next]_vars PROVE Guarded'
  OBVIOUS
<1>0. Uploads'
  BY NextUploads DEF Guarded
<1>1. ASSUME NEW c \in Call,
             \/ \E m \in Mutation : StartPart(c, m) \/ StartComplete(c, m) \/ StartAbort(c, m)
             \/ Reserve(c) \/ Publish(c) \/ Begin(c)
             \/ PartStep(c) \/ CompleteStep(c)
      PROVE  Guarded'
  BY <1>0, <1>1, StartGuarded, ReserveGuarded, PublishGuarded, BeginGuarded, LockGuarded,
     CommitPartGuarded, CommitCompleteGuarded, UploadsChangeGuarded DEF PartStep, CompleteStep
<1>2. CASE \/ \E u \in Upload : Initiate(u) \/ Expire(u)
           \/ \E c \in Call : CommitAbort(c) \/ Abort(c)
  BY <1>0, <1>2, UploadsChangeGuarded
<1>3. CASE \/ \E m \in Mutation : ExpireIntent(m)
           \/ \E n \in Node, x \in Content : GcJudge(n, x)
           \/ GcUnlink
  BY <1>0, <1>3, ExpireIntentGuarded, GcJudgeGuarded, GcUnlinkGuarded
<1>4. CASE UNCHANGED vars
  BY <1>0, <1>4, UploadChangeGuarded DEF vars, blobs
<1> QED
  BY <1>1, <1>2, <1>3, <1>4 DEF Next

-----------------------------------------------------------------------------
(* Theorems.                                                               *)

\* The invariant holds of every behaviour of uploads.
THEOREM UploadsGuarded == Spec => []Guarded
  BY InitGuarded, NextGuarded, PTL DEF Spec

\* The collector leaves every version, and every part that a completion may
\* read, its threshold of verified replicas with their files, whatever retries,
\* expired intents and closed uploads refer to the same bytes.
THEOREM UploadBytesStay == Spec => []NeededStays
  BY UploadsGuarded, PTL DEF Guarded

\* Every variable stays in its domain; an idle call holds nothing.
THEOREM UploadTypes == Spec => []TypeOK
<1>1. Guarded => TypeOK
  <2> SUFFICES ASSUME Guarded PROVE TypeOK
    OBVIOUS
  <2>1. Types /\ IntentsInOrder
    BY DEF Guarded, Uploads
  <2>2. BoundedSeq(Bytes, PartCount) = Read
    BY DEF BoundedSeq, SeqOf, Read
  <2>3. live \subseteq {i.mut : i \in intents}
    BY <2>1 DEF IntentsInOrder
  <2>4. ASSUME NEW c \in Call
        PROVE  /\ call[c].pc \in PC /\ call[c].mut \in Mutation \cup {Nothing}
               /\ call[c].content \in Read
               /\ call[c].late \in BOOLEAN /\ call[c].got \subseteq Node
               /\ call[c].pc = "idle" => call[c] = Idle
    <3>1. call[c] \in CallState /\ Shape(call[c])
      BY <2>1 DEF Types
    <3> QED
      BY <3>1 DEF CallState, Shape
  <2> QED
    BY <2>1, <2>2, <2>3, <2>4 DEF TypeOK, Types, UploadState, Object
<1> QED
  BY <1>1, UploadsGuarded, PTL
=============================================================================
