-------------------------- MODULE MultipartProofs ---------------------------
(***************************************************************************)
(* Proofs about Multipart for any number of calls, uploads, requests and   *)
(* nodes: an upload ends once, a completed one is its parts, and what was  *)
(* answered stays true.                                                    *)
(*                                                                         *)
(* The argument is that of two locks.  A call that holds the upload has    *)
(* checked it after it got it, and nobody else may change it since; a call *)
(* that holds its request is the only one that may answer it.              *)
(***************************************************************************)
EXTENDS Multipart, FiniteSetTheorems, TLAPS

-----------------------------------------------------------------------------
(* The inductive invariant.                                                *)

UploadState == {"none", "open", "completed", "aborted", "expired"}

Object == [mut : Mutation, content : Content]

\* Bytes that a completion has read, or a mutation publishes.
Read == UNION {[1 .. k -> Bytes] : k \in 0 .. PartCount}

CallState ==
  [pc : PC, mut : Mutation \cup {Nothing}, content : Read, late : BOOLEAN, got : SUBSET Node]

\* What the label of a call says of its request, and of what it publishes.
Shape(s) ==
  /\ s.pc = "idle" => s = Idle
  /\ s.pc # "idle" => s.mut \in Mutation
  /\ s.pc \in {"reading", "deciding", "replaying"} => s.mut.kind = "complete"
  /\ s.pc \in {"reserving", "publishing", "locked"} => s.mut.kind # "abort"
  /\ s.pc = "reading" => s.content \in [1 .. Len(s.content) -> Bytes] /\ Len(s.content) \in 0 .. (PartCount - 1)
  /\ s.pc \notin {"idle", "reading", "replaying"} /\ s.mut.kind # "abort" => s.content \in Content
  /\ s.pc # "idle" /\ s.mut.kind = "part" => s.content = <<s.mut.bytes>>

Types ==
  /\ state \in [Upload -> UploadState] /\ expired \subseteq Upload
  /\ parts \in [Upload -> [Number -> Bytes \cup {Nothing}]]
  /\ versions \subseteq Object /\ receipts \subseteq Mutation /\ intents \subseteq Object
  /\ live \subseteq Mutation
  /\ files \subseteq Node \X Content /\ verified \subseteq Node \X Content
  /\ doomed \in (Node \X Content) \cup {Nothing}
  /\ call \in [Call -> CallState] /\ \A c \in Call : Shape(call[c])

\* A request and an upload are held by one call at a time.
Exclusion ==
  \A c, d \in Call :
    /\ HoldsRequest(c) /\ HoldsRequest(d) /\ SameIdentity(call[c].mut, call[d].mut) => c = d
    /\ HoldsUpload(c) /\ HoldsUpload(d) /\ call[c].mut.upload = call[d].mut.upload => c = d

\* What a call has checked of the upload it holds is still so.
Checked(s) ==
  LET u == s.mut.upload IN
  s.pc \in {"locked", "deciding"} =>
    /\ state[u] = "open"
    /\ s.mut.kind = "part" => parts[u][s.mut.number] = Nothing
    /\ s.mut.kind = "complete" => s.content = parts[u]

\* A request that is held was not answered; a retry replays a completion.
Asked(s) ==
  /\ s.pc \in {"locking", "locked", "deciding"} => ~Bound(s.mut)
  /\ s.pc = "replaying" => CompletedBy(s.mut)
  /\ s.pc = "reading" => Complete(s.mut.upload)

\* A version is the only one of its upload, which is completed, and its parts.
Versions ==
  /\ \A v \in versions :
       v.mut.kind = "complete" /\ state[v.mut.upload] = "completed" /\ v.content = parts[v.mut.upload]
  /\ \A v, w \in versions : v.mut.upload = w.mut.upload => v = w
  /\ \A u \in Upload : state[u] = "completed" => \E v \in versions : v.mut.upload = u

\* An upload gets its parts after it was initiated.
Fresh == \A u \in Upload : state[u] = "none" => OpenParts(u) = {}

Uploads ==
  /\ Types /\ Exclusion
  /\ \A c \in Call : Checked(call[c]) /\ Asked(call[c])
  /\ Versions /\ Fresh /\ AnswersHold

-----------------------------------------------------------------------------
(* Types.                                                                  *)

\* The record of an idle call is in order.
LEMMA IdleShape == Idle \in CallState /\ Shape(Idle) /\ Idle.pc = "idle"
<1>1. <<>> \in Read
  <2>1. <<>> \in [1 .. 0 -> Bytes] /\ 0 \in 0 .. PartCount
    BY BoundsAssumption
  <2> QED
    BY <2>1 DEF Read
<1> QED
  BY <1>1 DEF Idle, CallState, PC, Shape

\* What a part consists of, or a completed object, was read in full.
LEMMA ContentRead == Content \subseteq Read /\ \A b \in Bytes : <<b>> \in Content
<1>1. ASSUME NEW b \in Bytes PROVE <<b>> \in Read
  <2>1. <<b>> \in [1 .. 1 -> Bytes] /\ 1 \in 0 .. PartCount
    BY BoundsAssumption
  <2> QED
    BY <2>1 DEF Read
<1>2. [Number -> Bytes] \subseteq Read
  BY BoundsAssumption DEF Read, Number
<1> QED
  BY <1>1, <1>2 DEF Content

\* What a completion has read, and one more part.
LEMMA ReadMore ==
  ASSUME NEW k \in 0 .. (PartCount - 1), NEW s \in [1 .. k -> Bytes], NEW b \in Bytes
  PROVE  /\ Len(s) = k /\ Len(s \o <<b>>) = k + 1
         /\ s \o <<b>> \in [1 .. k + 1 -> Bytes]
         /\ s \o <<b>> \in Read
<1>1. s \in Seq(Bytes) /\ Len(s) = k
  BY BoundsAssumption
<1>2. s \o <<b>> \in Seq(Bytes) /\ Len(s \o <<b>>) = k + 1
  BY <1>1
<1>3. s \o <<b>> \in [1 .. k + 1 -> Bytes]
  <2>1. \A t \in Seq(Bytes) : t \in [1 .. Len(t) -> Bytes]
    OBVIOUS
  <2> QED
    BY <1>2, <2>1
<1>4. k + 1 \in 0 .. PartCount
  BY BoundsAssumption
<1> QED
  BY <1>1, <1>2, <1>3, <1>4 DEF Read

\* What a request asks for, from its kind.
LEMMA Fields ==
  ASSUME NEW m \in Mutation
  PROVE  /\ m.kind \in {"part", "complete", "abort"} /\ m.upload \in Upload
         /\ m.kind = "part" => m.number \in Number /\ m.bytes \in Bytes /\ m.bytes # Nothing
                               /\ <<m.bytes>> \in Content /\ <<m.bytes>> \in Read
         /\ m # Nothing
  BY RequestAssumption, NothingAssumption, ContentRead

\* The initial state is in order.
LEMMA InitUploads == Init => Uploads
<1> SUFFICES ASSUME Init PROVE Uploads
  OBVIOUS
<1>1. Types
  BY IdleShape DEF Init, Types, UploadState
<1>2. \A c \in Call : call[c].pc = "idle"
  BY IdleShape DEF Init
<1>3. Exclusion /\ \A c \in Call : Checked(call[c]) /\ Asked(call[c])
  BY <1>2 DEF Exclusion, HoldsRequest, HoldsUpload, Checked, Asked
<1>4. Versions /\ Fresh /\ AnswersHold
  BY DEF Init, Versions, Fresh, OpenParts, AnswersHold
<1> QED
  BY <1>1, <1>3, <1>4 DEF Uploads

-----------------------------------------------------------------------------
(* Locks.                                                                  *)

RequestLabels == {"locking", "locked", "deciding"}
UploadLabels  == {"locked", "deciding"}

\* What is known of the record of a call.
LEMMA CallFacts ==
  ASSUME Uploads, NEW c \in Call
  PROVE  call[c] \in CallState /\ Shape(call[c]) /\ Checked(call[c]) /\ Asked(call[c])
  BY DEF Uploads, Types

\* The record of one call changes to one in order.
LEMMA CallTyped ==
  ASSUME Uploads, NEW c \in Call, NEW s \in CallState, Shape(s),
         call' = [call EXCEPT ![c] = s]
  PROVE  /\ call' \in [Call -> CallState] /\ \A e \in Call : Shape(call'[e])
         /\ \A e \in Call : call'[e] = IF e = c THEN s ELSE call[e]
  BY DEF Uploads, Types

\* Locks stay exclusive if a call takes only free ones.
LEMMA ExclusionKept ==
  ASSUME Uploads, NEW c \in Call, NEW s \in CallState,
         \A e \in Call : call'[e] = IF e = c THEN s ELSE call[e],
         s.pc \in RequestLabels =>
           RequestFree(s.mut) \/ (call[c].pc \in RequestLabels /\ call[c].mut = s.mut),
         s.pc \in UploadLabels =>
           UploadFree(s.mut.upload) \/ (call[c].pc \in UploadLabels /\ call[c].mut = s.mut)
  PROVE  Exclusion'
<1>1. ASSUME NEW d \in Call, NEW e \in Call, HoldsRequest(d)', HoldsRequest(e)',
             SameIdentity(call'[d].mut, call'[e].mut)
      PROVE  d = e
  <2>1. call'[d].pc \in RequestLabels /\ call'[e].pc \in RequestLabels
    BY <1>1 DEF HoldsRequest, RequestLabels
  <2>2. CASE d # c /\ e # c
    BY <1>1, <2>1, <2>2 DEF Uploads, Exclusion, HoldsRequest, RequestLabels
  <2>3. CASE d = c /\ e # c
    <3>1. call'[d] = s /\ call'[e] = call[e]
      BY <2>3
    <3>2. SameIdentity(s.mut, call[e].mut) /\ SameIdentity(call[e].mut, s.mut)
      BY <1>1, <3>1 DEF SameIdentity
    <3> QED
      BY <2>1, <2>3, <3>1, <3>2 DEF Uploads, Exclusion, HoldsRequest, RequestFree, RequestLabels
  <2>4. CASE e = c /\ d # c
    <3>1. call'[e] = s /\ call'[d] = call[d]
      BY <2>4
    <3>2. SameIdentity(call[d].mut, s.mut)
      BY <1>1, <3>1
    <3> QED
      BY <2>1, <2>4, <3>1, <3>2 DEF Uploads, Exclusion, HoldsRequest, RequestFree, RequestLabels
  <2> QED
    BY <2>2, <2>3, <2>4
<1>2. ASSUME NEW d \in Call, NEW e \in Call, HoldsUpload(d)', HoldsUpload(e)',
             call'[d].mut.upload = call'[e].mut.upload
      PROVE  d = e
  <2>1. call'[d].pc \in UploadLabels /\ call'[e].pc \in UploadLabels
    BY <1>2 DEF HoldsUpload, UploadLabels
  <2>2. CASE d # c /\ e # c
    BY <1>2, <2>1, <2>2 DEF Uploads, Exclusion, HoldsUpload, UploadLabels
  <2>3. CASE d = c /\ e # c
    <3>1. call'[d] = s /\ call'[e] = call[e]
      BY <2>3
    <3> QED
      BY <1>2, <2>1, <2>3, <3>1 DEF Uploads, Exclusion, HoldsUpload, UploadFree, UploadLabels
  <2>4. CASE e = c /\ d # c
    <3>1. call'[e] = s /\ call'[d] = call[d]
      BY <2>4
    <3> QED
      BY <1>2, <2>1, <2>4, <3>1 DEF Uploads, Exclusion, HoldsUpload, UploadFree, UploadLabels
  <2> QED
    BY <2>2, <2>3, <2>4
<1> QED
  BY <1>1, <1>2 DEF Exclusion

\* A step of one call that neither answers nor changes an upload.
LEMMA QuietStep ==
  ASSUME Uploads, NEW c \in Call, NEW s \in CallState, Shape(s),
         call' = [call EXCEPT ![c] = s],
         UNCHANGED <<state, expired, parts, versions, receipts>>,
         intents' \subseteq Object, live' \subseteq Mutation, files' \subseteq Node \X Content,
         verified' = verified, doomed' = doomed,
         s.pc \in RequestLabels =>
           RequestFree(s.mut) \/ (call[c].pc \in RequestLabels /\ call[c].mut = s.mut),
         s.pc \in UploadLabels =>
           UploadFree(s.mut.upload) \/ (call[c].pc \in UploadLabels /\ call[c].mut = s.mut),
         Checked(s), Asked(s)
  PROVE  Uploads'
<1>1. \A e \in Call : call'[e] = IF e = c THEN s ELSE call[e]
  BY CallTyped
<1>2. Types'
  BY CallTyped DEF Uploads, Types
<1>3. Exclusion'
  BY <1>1, ExclusionKept
<1>4. ASSUME NEW e \in Call
      PROVE  Checked(call[e])' /\ Asked(call[e])'
  <2>1. Checked(call'[e]) /\ Asked(call'[e])
    BY <1>1, CallFacts
  <2> QED
    BY <2>1 DEF Checked, Asked, Bound, CompletedBy, Complete, OpenParts
<1>5. Versions' /\ Fresh' /\ AnswersHold'
  BY DEF Uploads, Versions, Fresh, OpenParts, AnswersHold
<1> QED
  BY <1>2, <1>3, <1>4, <1>5 DEF Uploads

\* A call that returns, and nothing else.
LEMMA ReturnStep ==
  ASSUME Uploads, NEW c \in Call, Return(c),
         UNCHANGED <<state, expired, parts, versions, receipts>>,
         intents' \subseteq Object, live' \subseteq Mutation, files' \subseteq Node \X Content,
         verified' = verified, doomed' = doomed
  PROVE  Uploads'
<1>1. Idle.pc \notin RequestLabels /\ Idle.pc \notin UploadLabels /\ Checked(Idle) /\ Asked(Idle)
  BY IdleShape DEF RequestLabels, UploadLabels, Checked, Asked
<1> QED
  BY <1>1, IdleShape, QuietStep DEF Return

\* A step of the environment that neither answers nor changes an upload.
LEMMA OutsideStep ==
  ASSUME Uploads, UNCHANGED <<state, parts, versions, receipts, call>>,
         expired' \subseteq Upload, intents' = intents, live' \subseteq Mutation,
         files' \subseteq files, verified' = verified,
         doomed' \in (Node \X Content) \cup {Nothing}
  PROVE  Uploads'
<1>1. Types'
  BY DEF Uploads, Types
<1>2. Exclusion' /\ Versions' /\ Fresh' /\ AnswersHold'
  BY DEF Uploads, Exclusion, HoldsRequest, HoldsUpload, Versions, Fresh, OpenParts, AnswersHold
<1>3. ASSUME NEW e \in Call
      PROVE  Checked(call[e])' /\ Asked(call[e])'
  BY CallFacts DEF Checked, Asked, Bound, CompletedBy, Complete, OpenParts
<1> QED
  BY <1>1, <1>2, <1>3 DEF Uploads

-----------------------------------------------------------------------------
(* The steps that neither answer nor change an upload.                     *)

\* Every operation starts with what its request says.
LEMMA StartQuiet ==
  ASSUME Uploads, NEW c \in Call, NEW m \in Mutation,
         StartPart(c, m) \/ StartComplete(c, m) \/ StartAbort(c, m)
  PROVE  Uploads'
<1>0. Idle \in CallState /\ Idle.content = <<>>
  BY IdleShape DEF Idle
<1>1. UNCHANGED <<uploads, writes, blobs>>
  BY DEF StartPart, StartComplete, StartAbort
<1>2. intents' \subseteq Object /\ live' \subseteq Mutation /\ files' \subseteq Node \X Content
  BY <1>1 DEF writes, blobs, Uploads, Types
<1>3. CASE StartPart(c, m)
  <2> DEFINE s == [Idle EXCEPT !.pc = "reserving", !.mut = m, !.content = <<m.bytes>>]
  <2>1. m.kind = "part" /\ <<m.bytes>> \in Content /\ <<m.bytes>> \in Read
    BY <1>3, Fields DEF StartPart
  <2>2. s \in CallState /\ s.pc = "reserving" /\ s.mut = m /\ s.content = <<m.bytes>>
    BY <1>0, <2>1 DEF CallState, PC
  <2>3. Shape(s) /\ Checked(s) /\ Asked(s)
        /\ s.pc \notin RequestLabels /\ s.pc \notin UploadLabels
    BY <2>1, <2>2 DEF Shape, Checked, Asked, RequestLabels, UploadLabels
  <2>4. call' = [call EXCEPT ![c] = s]
    BY <1>3 DEF StartPart
  <2> HIDE DEF s
  <2> QED
    BY <1>1, <1>2, <2>2, <2>3, <2>4, QuietStep DEF uploads, writes, blobs
<1>4. CASE StartComplete(c, m)
  <2>1. PICK label \in {"reading", "replaying"} :
          /\ call' = [call EXCEPT ![c] = [Idle EXCEPT !.pc = label, !.mut = m]]
          /\ label = "replaying" => CompletedBy(m)
    BY <1>4 DEF StartComplete, CompletedBy
  <2> DEFINE s == [Idle EXCEPT !.pc = label, !.mut = m]
  <2>2. s \in CallState /\ s.pc = label /\ s.mut = m /\ s.content = <<>>
    BY <1>0 DEF CallState, PC
  <2>3. <<>> \in [1 .. 0 -> Bytes] /\ Len(<<>>) = 0 /\ 0 \in 0 .. (PartCount - 1)
    BY BoundsAssumption
  <2>4. m.kind = "complete" /\ Complete(m.upload)
    BY <1>4 DEF StartComplete
  <2>5. Shape(s)
    BY <2>2, <2>3, <2>4 DEF Shape
  <2>6. Checked(s) /\ Asked(s) /\ s.pc \notin RequestLabels /\ s.pc \notin UploadLabels
    BY <2>1, <2>2, <2>4 DEF Checked, Asked, RequestLabels, UploadLabels
  <2>7. call' = [call EXCEPT ![c] = s]
    BY <2>1
  <2> HIDE DEF s
  <2> QED
    BY <1>1, <1>2, <2>2, <2>5, <2>6, <2>7, QuietStep DEF uploads, writes, blobs
<1>5. CASE StartAbort(c, m)
  <2> DEFINE s == [Idle EXCEPT !.pc = "begin", !.mut = m]
  <2>1. s \in CallState /\ s.pc = "begin" /\ s.mut = m
    BY <1>0 DEF CallState, PC
  <2>2. m.kind = "abort"
    BY <1>5 DEF StartAbort
  <2>3. Shape(s) /\ Checked(s) /\ Asked(s)
        /\ s.pc \notin RequestLabels /\ s.pc \notin UploadLabels
    BY <2>1, <2>2 DEF Shape, Checked, Asked, RequestLabels, UploadLabels
  <2>4. call' = [call EXCEPT ![c] = s]
    BY <1>5 DEF StartAbort
  <2> HIDE DEF s
  <2> QED
    BY <1>1, <1>2, <2>1, <2>3, <2>4, QuietStep DEF uploads, writes, blobs
<1> QED
  BY <1>3, <1>4, <1>5

\* A completion reads one part after the other, each in its place.
LEMMA ReadPartQuiet ==
  ASSUME Uploads, NEW c \in Call, ReadPart(c)
  PROVE  Uploads'
<1>1. UNCHANGED <<uploads, writes, blobs>>
  BY DEF ReadPart
<1>2. intents' \subseteq Object /\ live' \subseteq Mutation /\ files' \subseteq Node \X Content
  BY <1>1 DEF writes, blobs, Uploads, Types
<1>3. CASE Return(c)
  BY <1>1, <1>2, <1>3, ReturnStep DEF uploads, writes, blobs
<1>4. CASE ~Return(c)
  <2> DEFINE k == Len(call[c].content)
             u == call[c].mut.upload
             b == parts[u][k + 1]
             read == call[c].content \o <<b>>
             label == IF Len(read) < PartCount THEN "reading" ELSE "reserving"
             s == [call[c] EXCEPT !.content = read, !.pc = label]
  <2>1. /\ call[c].pc = "reading" /\ call[c].mut \in Mutation /\ call[c].mut.kind = "complete"
        /\ call[c].content \in [1 .. k -> Bytes] /\ k \in 0 .. (PartCount - 1)
        /\ call[c] \in CallState /\ Complete(u)
    BY CallFacts DEF ReadPart, Shape, Asked
  <2>2. b \in Bytes
    <3>1. u \in Upload
      BY <2>1, Fields
    <3>2. \A i \in 0 .. (PartCount - 1) : i + 1 \in Number
      BY BoundsAssumption DEF Number
    <3>3. k + 1 \in Number
      BY <2>1, <3>2
    <3> QED
      BY <2>1, <3>1, <3>3 DEF Complete, OpenParts, Uploads, Types
  <2> HIDE DEF b
  <2>3. /\ Len(read) = k + 1 /\ read \in [1 .. k + 1 -> Bytes] /\ read \in Read
    BY <2>1, <2>2, ReadMore
  <2> HIDE DEF read
  <2>4. s \in CallState
    BY <2>1, <2>3 DEF CallState, PC
  <2>5. s.pc = label /\ s.mut = call[c].mut /\ s.content = read
    BY <2>1 DEF CallState
  <2>6. Shape(s)
    <3>1. CASE Len(read) < PartCount
      BY <2>1, <2>3, <2>5, <3>1, BoundsAssumption DEF Shape
    <3>2. CASE ~(Len(read) < PartCount)
      <4>1. k + 1 = PartCount
        BY <2>1, <2>3, <3>2, BoundsAssumption
      <4>2. read \in Content
        BY <2>3, <4>1 DEF Content, Number
      <4> QED
        BY <2>1, <2>5, <3>2, <4>2 DEF Shape
    <3> QED
      BY <3>1, <3>2
  <2>7. Checked(s) /\ Asked(s) /\ s.pc \notin RequestLabels /\ s.pc \notin UploadLabels
    BY <2>1, <2>5 DEF Checked, Asked, RequestLabels, UploadLabels
  <2>8. call' = [call EXCEPT ![c].content = read, ![c].pc = label]
    BY <1>4 DEF ReadPart, read, b
  <2>9. call' = [call EXCEPT ![c] = s]
    BY <2>1, <2>8 DEF CallState, Uploads, Types
  <2> HIDE DEF s
  <2> QED
    BY <1>1, <1>2, <2>4, <2>6, <2>7, <2>9, QuietStep DEF uploads, writes, blobs
<1> QED
  BY <1>3, <1>4

\* Goto, as an assignment to the record of the call.
LEMMA GotoRecord ==
  ASSUME Uploads, NEW c \in Call, NEW label \in PC, Goto(c, label)
  PROVE  LET s == [call[c] EXCEPT !.pc = label]
         IN  /\ s \in CallState /\ call' = [call EXCEPT ![c] = s]
             /\ s.pc = label /\ s.mut = call[c].mut /\ s.content = call[c].content
             /\ s.got = call[c].got /\ s.late = call[c].late
  BY CallFacts DEF Goto, CallState, Uploads, Types

\* A call that goes on, and changes intents or files at most.
LEMMA GotoQuiet ==
  ASSUME Uploads, NEW c \in Call, NEW label \in PC, Goto(c, label),
         Shape([call[c] EXCEPT !.pc = label]),
         UNCHANGED <<state, expired, parts, versions, receipts>>,
         intents' \subseteq Object, live' \subseteq Mutation, files' = files,
         verified' = verified, doomed' = doomed,
         label \in RequestLabels => call[c].pc \in RequestLabels,
         label \in UploadLabels => UploadFree(call[c].mut.upload) \/ call[c].pc \in UploadLabels,
         Checked([call[c] EXCEPT !.pc = label]), label # "replaying", label # "reading"
  PROVE  Uploads'
<1> DEFINE s == [call[c] EXCEPT !.pc = label]
<1>1. /\ s \in CallState /\ call' = [call EXCEPT ![c] = s]
      /\ s.pc = label /\ s.mut = call[c].mut
  BY GotoRecord
<1>2. Asked(s)
  BY <1>1, CallFacts DEF Asked, RequestLabels
<1>3. Shape(s) /\ Checked(s) /\ files' \subseteq Node \X Content
  BY DEF Uploads, Types
<1> HIDE DEF s
<1> QED
  BY <1>1, <1>2, <1>3, QuietStep

\* The reservation of an intent.
LEMMA ReserveQuiet ==
  ASSUME Uploads, NEW c \in Call, Reserve(c)
  PROVE  Uploads'
<1>1. /\ call[c].pc = "reserving" /\ call[c].mut \in Mutation /\ call[c].mut.kind # "abort"
      /\ call[c].content \in Content /\ call[c] \in CallState /\ Shape(call[c])
  BY CallFacts DEF Reserve, Shape
<1>2. Intent(c) \in Object
  BY <1>1 DEF Intent, Object
<1>3. UNCHANGED <<state, expired, parts, versions, receipts, files, verified, doomed>>
  BY DEF Reserve, uploads, blobs
<1>4. intents' \subseteq Object /\ live' \subseteq Mutation /\ files' \subseteq Node \X Content
  BY <1>1, <1>2, <1>3 DEF Reserve, Uploads, Types
<1>5. CASE Return(c)
  BY <1>3, <1>4, <1>5, ReturnStep
<1>6. CASE Goto(c, "publishing")
  <2> DEFINE s == [call[c] EXCEPT !.pc = "publishing"]
  <2>1. "publishing" \in PC
    BY DEF PC
  <2>2. s.pc = "publishing" /\ s.mut = call[c].mut /\ s.content = call[c].content
    BY <1>1 DEF CallState
  <2>3. Shape(s) /\ Checked(s)
    BY <1>1, <2>2 DEF Shape, Checked
  <2> QED
    BY <1>3, <1>4, <1>6, <2>1, <2>3, GotoQuiet DEF RequestLabels, UploadLabels
<1> QED
  BY <1>5, <1>6 DEF Reserve

\* The publication on the nodes.
LEMMA PublishQuiet ==
  ASSUME Uploads, NEW c \in Call, Publish(c)
  PROVE  Uploads'
<1>1. /\ call[c].pc = "publishing" /\ call[c].mut \in Mutation /\ call[c].mut.kind # "abort"
      /\ call[c].content \in Content /\ call[c] \in CallState /\ Shape(call[c])
  BY CallFacts DEF Publish, Shape
<1>2. PICK placed \in SUBSET Node, got \in SUBSET Node :
        /\ files' = files \cup (placed \X {call[c].content})
        /\ IF Cardinality(got) < Required THEN Return(c)
           ELSE call' = [call EXCEPT ![c].pc = "begin", ![c].got = got]
  BY DEF Publish
<1>3. UNCHANGED <<state, expired, parts, versions, receipts, intents, live, verified, doomed>>
  BY DEF Publish, uploads, writes
<1>4. intents' \subseteq Object /\ live' \subseteq Mutation /\ files' \subseteq Node \X Content
  BY <1>1, <1>2, <1>3 DEF Uploads, Types
<1>5. CASE Return(c)
  BY <1>3, <1>4, <1>5, ReturnStep
<1>6. CASE call' = [call EXCEPT ![c].pc = "begin", ![c].got = got]
  <2> DEFINE s == [call[c] EXCEPT !.pc = "begin", !.got = got]
  <2>1. s \in CallState /\ s.pc = "begin" /\ s.mut = call[c].mut /\ s.content = call[c].content
    BY <1>1 DEF CallState, PC
  <2>2. Shape(s) /\ Checked(s) /\ Asked(s)
        /\ s.pc \notin RequestLabels /\ s.pc \notin UploadLabels
    BY <1>1, <2>1 DEF Shape, Checked, Asked, RequestLabels, UploadLabels
  <2>3. call' = [call EXCEPT ![c] = s]
    BY <1>1, <1>6 DEF CallState, Uploads, Types
  <2> HIDE DEF s
  <2> QED
    BY <1>3, <1>4, <2>1, <2>2, <2>3, QuietStep
<1> QED
  BY <1>2, <1>5, <1>6

\* The request is locked if nobody has it, and not answered.
LEMMA BeginQuiet ==
  ASSUME Uploads, NEW c \in Call, Begin(c)
  PROVE  Uploads'
<1> DEFINE m == call[c].mut
<1>1. call[c].pc = "begin" /\ m \in Mutation /\ call[c] \in CallState /\ Shape(call[c]) /\ RequestFree(m)
  BY CallFacts DEF Begin, Shape
<1>2. UNCHANGED <<state, expired, parts, versions, receipts, intents, live, files, verified, doomed>>
  BY DEF Begin, uploads, writes, blobs
<1>3. intents' \subseteq Object /\ live' \subseteq Mutation /\ files' \subseteq Node \X Content
  BY <1>2 DEF Uploads, Types
<1>4. CASE Return(c)
  BY <1>2, <1>3, <1>4, ReturnStep
<1>5. CASE ~Bound(m) /\ call' = [call EXCEPT ![c].pc = "locking", ![c].late = m.upload \in expired]
  <2> DEFINE late == m.upload \in expired
  <2>0. late \in BOOLEAN
    OBVIOUS
  <2>5. call' = [call EXCEPT ![c].pc = "locking", ![c].late = late]
    BY <1>5
  <2> HIDE DEF late
  <2> DEFINE s == [call[c] EXCEPT !.pc = "locking", !.late = late]
  <2>1. s \in CallState /\ s.pc = "locking" /\ s.mut = m /\ s.content = call[c].content
    BY <1>1, <2>0 DEF CallState, PC
  <2>2. Shape(s) /\ Checked(s) /\ Asked(s) /\ s.pc \notin UploadLabels /\ RequestFree(s.mut)
    BY <1>1, <1>5, <2>1 DEF Shape, Checked, Asked, UploadLabels
  <2>3. call' = [call EXCEPT ![c] = s]
    BY <1>1, <2>5 DEF CallState, Uploads, Types
  <2> HIDE DEF s
  <2> QED
    BY <1>2, <1>3, <2>1, <2>2, <2>3, QuietStep
<1> QED
  BY <1>4, <1>5 DEF Begin

-----------------------------------------------------------------------------
(* The steps that answer, or change an upload.                             *)

\* A call that answers its request and returns: the other calls keep what
\* they checked, if the uploads they hold stay as they are.
LEMMA AnswerCalls ==
  ASSUME Uploads, NEW c \in Call, Return(c), call[c].pc # "idle",
         call[c].pc \in RequestLabels \/ RequestFree(call[c].mut),
         receipts' \subseteq receipts \cup {call[c].mut},
         versions \subseteq versions', parts' \in [Upload -> [Number -> Bytes \cup {Nothing}]],
         \A u \in Upload : \A n \in OpenParts(u) : parts'[u][n] = parts[u][n],
         \A d \in Call \ {c} : HoldsUpload(d) =>
           state'[call[d].mut.upload] = state[call[d].mut.upload]
           /\ parts'[call[d].mut.upload] = parts[call[d].mut.upload]
  PROVE  /\ call' \in [Call -> CallState] /\ \A e \in Call : Shape(call'[e])
         /\ Exclusion'
         /\ \A e \in Call : Checked(call[e])' /\ Asked(call[e])'
<1> DEFINE m == call[c].mut
<1>1. m \in Mutation
  BY CallFacts DEF Shape
<1>2. /\ call' \in [Call -> CallState] /\ \A e \in Call : Shape(call'[e])
      /\ \A e \in Call : call'[e] = IF e = c THEN Idle ELSE call[e]
  BY CallTyped, IdleShape DEF Return
<1>3. Exclusion'
  BY <1>2, ExclusionKept, IdleShape DEF RequestLabels, UploadLabels
<1>4. ASSUME NEW e \in Call
      PROVE  Checked(call[e])' /\ Asked(call[e])'
  <2>1. CASE e = c
    BY <1>2, <2>1, IdleShape DEF Checked, Asked
  <2>2. CASE e # c
    <3>1. call'[e] = call[e] /\ Checked(call[e]) /\ Asked(call[e]) /\ Shape(call[e])
      BY <1>2, <2>2, CallFacts
    <3>2. Checked(call[e])'
      BY <3>1, <2>2 DEF Checked, HoldsUpload
    <3>3. call[e].pc \in RequestLabels => ~SameIdentity(m, call[e].mut)
      <4>1. CASE call[c].pc \in RequestLabels
        BY <2>2, <4>1 DEF Uploads, Exclusion, HoldsRequest, RequestLabels
      <4>2. CASE RequestFree(m)
        BY <4>2 DEF RequestFree, HoldsRequest, RequestLabels, SameIdentity
      <4> QED
        BY <4>1, <4>2
    <3>4. call[e].pc \in RequestLabels => ~Bound(call[e].mut)'
      BY <3>1, <3>3 DEF Asked, Bound, RequestLabels
    <3>5. call[e].pc = "replaying" => CompletedBy(call[e].mut)'
      BY <3>1 DEF Asked, CompletedBy
    <3>6. call[e].pc = "reading" => Complete(call[e].mut.upload)'
      <4> SUFFICES ASSUME call[e].pc = "reading" PROVE Complete(call[e].mut.upload)'
        OBVIOUS
      <4>1. call[e].mut.upload \in Upload
        BY <3>1, Fields DEF Shape
      <4> QED
        BY <3>1, <4>1 DEF Asked, Complete, OpenParts
    <3> QED
      BY <3>1, <3>2, <3>4, <3>5, <3>6 DEF Asked, RequestLabels, Bound, CompletedBy, Complete, OpenParts
  <2> QED
    BY <2>1, <2>2
<1> QED
  BY <1>2, <1>3, <1>4

\* An answer that is true, to a request that has none yet or the same.
LEMMA AnswerHolds ==
  ASSUME Uploads, NEW c \in Call, NEW m \in Mutation, m = call[c].mut,
         call[c].pc \in RequestLabels \cup {"replaying"},
         receipts' \subseteq receipts \cup {m}, versions \subseteq versions',
         \A u \in Upload : \A n \in OpenParts(u) : parts'[u][n] = parts[u][n],
         \A u \in Upload : state[u] \in {"aborted", "expired"} => state'[u] = state[u],
         m \in receipts' =>
           /\ m.kind = "part" => parts'[m.upload][m.number] = m.bytes
           /\ m.kind = "complete" => \E v \in versions' : SameIntent(v.mut, m)
           /\ m.kind = "abort" => state'[m.upload] \in {"aborted", "expired"}
  PROVE  AnswersHold'
<1>1. ASSUME NEW r \in receipts, SameIdentity(r, m) \/ SameIdentity(m, r)
      PROVE  r = m
  <2>1. SameIdentity(r, m) /\ SameIdentity(m, r) /\ r \in Mutation
    BY <1>1 DEF SameIdentity, Uploads, Types
  <2>2. CASE call[c].pc \in RequestLabels
    BY <2>1, <2>2, CallFacts DEF Asked, Bound, RequestLabels
  <2>3. CASE call[c].pc = "replaying"
    <3>1. m.kind = "complete" /\ r.kind = "complete" /\ r.upload = m.upload
      BY <2>1, <2>3, CallFacts DEF Shape, SameIdentity
    <3>2. PICK v \in versions : SameIntent(v.mut, m)
      BY <2>3, CallFacts DEF Asked, CompletedBy
    <3>3. PICK w \in versions : SameIntent(w.mut, r)
      BY <3>1 DEF Uploads, AnswersHold
    <3>4. v = w
      BY <3>1, <3>2, <3>3 DEF SameIntent, Uploads, Versions
    <3>5. SameIntent(m, r)
      BY <3>2, <3>3, <3>4 DEF SameIntent
    <3> QED
      BY <2>1, <3>1, <3>5, CompletionAssumption
  <2> QED
    BY <2>2, <2>3
<1>2. ASSUME NEW r \in receipts', NEW s \in receipts', SameIdentity(r, s)
      PROVE  r = s
  BY <1>1, <1>2 DEF Uploads, AnswersHold
<1>3. ASSUME NEW r \in receipts
      PROVE  /\ r.kind = "part" => parts'[r.upload][r.number] = r.bytes
             /\ r.kind = "complete" => \E v \in versions' : SameIntent(v.mut, r)
             /\ r.kind = "abort" => state'[r.upload] \in {"aborted", "expired"}
  <2>1. r \in Mutation /\ r.upload \in Upload
    BY Fields DEF Uploads, Types
  <2>2. r.kind = "part" => r.number \in OpenParts(r.upload) /\ parts[r.upload][r.number] = r.bytes
    BY <2>1, Fields DEF Uploads, AnswersHold, OpenParts
  <2> QED
    BY <2>1, <2>2 DEF Uploads, AnswersHold
<1> QED
  BY <1>2, <1>3 DEF AnswersHold

\* An answer, and nothing else.
LEMMA AnswerOnly ==
  ASSUME Uploads, NEW c \in Call, NEW m \in Mutation, m = call[c].mut,
         call[c].pc = "locking" \/ (call[c].pc = "replaying" /\ RequestFree(m)),
         Return(c), receipts' = receipts \cup {m},
         intents' \subseteq intents, live' \subseteq live, UNCHANGED <<uploads, blobs>>,
         m.kind = "part" => parts[m.upload][m.number] = m.bytes,
         m.kind = "complete" => CompletedBy(m),
         m.kind # "abort"
  PROVE  Uploads'
<1>0. call[c].pc \in RequestLabels \cup {"replaying"} /\ call[c].pc # "idle"
      /\ (call[c].pc \in RequestLabels \/ RequestFree(m))
  BY DEF RequestLabels
<1>1. /\ call' \in [Call -> CallState] /\ \A e \in Call : Shape(call'[e])
      /\ Exclusion'
      /\ \A e \in Call : Checked(call[e])' /\ Asked(call[e])'
  BY <1>0, AnswerCalls DEF uploads, Uploads, Types
<1>2. AnswersHold'
  BY <1>0, AnswerHolds DEF uploads, CompletedBy
<1>3. Types'
  BY <1>1 DEF Uploads, Types, uploads, blobs
<1>4. Versions' /\ Fresh'
  BY DEF Uploads, Versions, Fresh, OpenParts, uploads
<1> QED
  BY <1>1, <1>2, <1>3, <1>4 DEF Uploads

\* The upload is locked for a part: it is open, and the place is free.
LEMMA LockForPartUploads ==
  ASSUME Uploads, NEW c \in Call, LockForPart(c)
  PROVE  Uploads'
<1>1. PICK m \in Mutation : m = call[c].mut /\ m.kind = "part"
  BY CallFacts DEF LockForPart, Shape
<1>2. /\ call[c].pc = "locking" /\ call[c] \in CallState /\ Shape(call[c])
      /\ UNCHANGED <<uploads, blobs>> /\ UploadFree(m.upload)
  BY <1>1, CallFacts DEF LockForPart
<1>3. UNCHANGED writes => intents' \subseteq Object /\ live' \subseteq Mutation
  BY DEF writes, Uploads, Types
<1>4. CASE Return(c) /\ UNCHANGED writes
  BY <1>2, <1>3, <1>4, ReturnStep DEF uploads, writes, blobs, Uploads, Types
<1>5. CASE SamePart(m) /\ Answer(c)
  <2>1. intents' \subseteq intents /\ live' \subseteq live /\ receipts' = receipts \cup {m} /\ Return(c)
    BY <1>1, <1>5 DEF Answer, Forget
  <2> QED
    BY <1>1, <1>2, <1>5, <2>1, AnswerOnly DEF SamePart
<1>6. CASE IsOpen(m.upload, call[c].late) /\ ~PartIsThere(m) /\ Goto(c, "locked") /\ UNCHANGED writes
  <2> DEFINE s == [call[c] EXCEPT !.pc = "locked"]
  <2>1. "locked" \in PC
    BY DEF PC
  <2>2. s.pc = "locked" /\ s.mut = m /\ s.content = call[c].content
    BY <1>1, <1>2 DEF CallState
  <2>3. Shape(s) /\ Checked(s)
    BY <1>1, <1>2, <1>6, <2>2 DEF Shape, Checked, IsOpen, PartIsThere
  <2> QED
    BY <1>1, <1>2, <1>3, <1>6, <2>1, <2>3, GotoQuiet
    DEF RequestLabels, UploadLabels, uploads, writes, blobs
<1> QED
  BY <1>1, <1>4, <1>5, <1>6 DEF LockForPart

\* The upload is locked for a completion: it is open and its parts are as read.
LEMMA LockForCompleteUploads ==
  ASSUME Uploads, NEW c \in Call, LockForComplete(c)
  PROVE  Uploads'
<1>1. PICK m \in Mutation : m = call[c].mut /\ m.kind = "complete"
  BY CallFacts DEF LockForComplete, Shape
<1>2. /\ call[c].pc = "locking" /\ call[c] \in CallState /\ Shape(call[c])
      /\ UNCHANGED <<uploads, blobs>> /\ UploadFree(m.upload)
  BY <1>1, CallFacts DEF LockForComplete
<1>3. UNCHANGED writes => intents' \subseteq Object /\ live' \subseteq Mutation
  BY DEF writes, Uploads, Types
<1>4. CASE Return(c) /\ UNCHANGED writes
  BY <1>2, <1>3, <1>4, ReturnStep DEF uploads, writes, blobs, Uploads, Types
<1>5. CASE CompletedBy(m) /\ Answer(c)
  <2>1. intents' \subseteq intents /\ live' \subseteq live /\ receipts' = receipts \cup {m} /\ Return(c)
    BY <1>1, <1>5 DEF Answer, Forget
  <2> QED
    BY <1>1, <1>2, <1>5, <2>1, AnswerOnly
<1>6. CASE /\ IsOpen(m.upload, call[c].late) /\ call[c].content = parts[m.upload]
           /\ Goto(c, "locked") /\ UNCHANGED writes
  <2> DEFINE s == [call[c] EXCEPT !.pc = "locked"]
  <2>1. "locked" \in PC
    BY DEF PC
  <2>2. s.pc = "locked" /\ s.mut = m /\ s.content = call[c].content
    BY <1>1, <1>2 DEF CallState
  <2>3. Shape(s) /\ Checked(s)
    BY <1>1, <1>2, <1>6, <2>2 DEF Shape, Checked, IsOpen
  <2> QED
    BY <1>1, <1>2, <1>3, <1>6, <2>1, <2>3, GotoQuiet
    DEF RequestLabels, UploadLabels, uploads, writes, blobs
<1> QED
  BY <1>1, <1>4, <1>5, <1>6 DEF LockForComplete

\* The key is locked too.
LEMMA LockKeyUploads ==
  ASSUME Uploads, NEW c \in Call, LockKey(c)
  PROVE  Uploads'
<1>1. /\ call[c].pc = "locked" /\ call[c] \in CallState /\ Shape(call[c]) /\ Checked(call[c])
      /\ call[c].mut.kind = "complete"
      /\ UNCHANGED <<uploads, writes, blobs>>
  BY CallFacts DEF LockKey
<1>2. intents' \subseteq Object /\ live' \subseteq Mutation
  BY <1>1 DEF writes, Uploads, Types
<1>3. CASE Return(c)
  BY <1>1, <1>2, <1>3, ReturnStep DEF uploads, writes, blobs, Uploads, Types
<1>4. CASE Goto(c, "deciding")
  <2> DEFINE s == [call[c] EXCEPT !.pc = "deciding"]
  <2>1. "deciding" \in PC
    BY DEF PC
  <2>2. s.pc = "deciding" /\ s.mut = call[c].mut /\ s.content = call[c].content
    BY <1>1 DEF CallState
  <2>3. Shape(s) /\ Checked(s)
    BY <1>1, <2>2 DEF Shape, Checked
  <2> QED
    BY <1>1, <1>2, <1>4, <2>1, <2>3, GotoQuiet
    DEF RequestLabels, UploadLabels, uploads, writes, blobs
<1> QED
  BY <1>3, <1>4 DEF LockKey

\* A retry answers for the completion that it found.
LEMMA ReplayUploads ==
  ASSUME Uploads, NEW c \in Call, Replay(c)
  PROVE  Uploads'
<1>1. PICK m \in Mutation : m = call[c].mut /\ m.kind = "complete" /\ CompletedBy(m)
  BY CallFacts DEF Replay, Shape, Asked
<1> QED
  BY <1>1, AnswerOnly DEF Replay

\* A transaction that rolls back.
LEMMA AbortUploads ==
  ASSUME Uploads, NEW c \in Call, Abort(c)
  PROVE  Uploads'
  BY ReturnStep DEF Abort, uploads, writes, blobs, Uploads, Types

\* An upload is initiated, without parts.
LEMMA InitiateUploads ==
  ASSUME Uploads, NEW u \in Upload, Initiate(u)
  PROVE  Uploads'
<1>1. /\ state[u] = "none" /\ state' = [state EXCEPT ![u] = "open"]
      /\ UNCHANGED <<expired, parts, versions, receipts, intents, live, files, verified, doomed, call>>
  BY DEF Initiate, writes, blobs
<1>2. \A w \in Upload : state'[w] = IF w = u THEN "open" ELSE state[w]
  BY <1>1 DEF Uploads, Types
<1>3. Types' /\ Exclusion'
  BY <1>1 DEF Uploads, Types, UploadState, Exclusion, HoldsRequest, HoldsUpload
<1>4. ASSUME NEW e \in Call
      PROVE  Checked(call[e])' /\ Asked(call[e])'
  <2>1. call[e].pc # "idle" => call[e].mut.upload \in Upload
    BY CallFacts, Fields DEF Shape
  <2> QED
    BY <1>1, <1>2, <2>1, CallFacts DEF Checked, Asked, Bound, CompletedBy, Complete, OpenParts
<1>5. \A v \in versions : v.mut.upload \in Upload
  BY Fields DEF Uploads, Types, Object
<1>6. Versions'
  BY <1>1, <1>2, <1>5 DEF Uploads, Versions
<1>7. Fresh'
  BY <1>1, <1>2 DEF Uploads, Fresh, OpenParts
<1>8. \A r \in receipts : r.upload \in Upload
  BY Fields DEF Uploads, Types
<1>9. AnswersHold'
  BY <1>1, <1>2, <1>8 DEF Uploads, AnswersHold
<1> QED
  BY <1>3, <1>4, <1>6, <1>7, <1>9 DEF Uploads

\* A part is inserted while its upload is held open, in a place that is free.
LEMMA CommitPartUploads ==
  ASSUME Uploads, NEW c \in Call, CommitPart(c)
  PROVE  Uploads'
<1>1. PICK m \in Mutation : m = call[c].mut /\ m.kind = "part"
  BY CallFacts DEF CommitPart, Shape
<1> DEFINE u == m.upload
           n == m.number
<1>2. /\ call[c].pc = "locked" /\ call[c] \in CallState /\ call[c].content \in Content
      /\ state[u] = "open" /\ parts[u][n] = Nothing
      /\ u \in Upload /\ n \in Number /\ m.bytes \in Bytes
  BY <1>1, CallFacts, Fields DEF CommitPart, Shape, Checked
<1>3. /\ parts' = [parts EXCEPT ![u][n] = m.bytes]
      /\ verified' = verified \cup (call[c].got \X {call[c].content})
      /\ receipts' = receipts \cup {m} /\ intents' \subseteq intents /\ live' \subseteq live
      /\ Return(c) /\ UNCHANGED <<state, expired, versions, files, doomed>>
  BY <1>1 DEF CommitPart, Answer, Forget, Recorded
<1>4. \A w \in Upload, k \in Number : parts'[w][k] = IF w = u /\ k = n THEN m.bytes ELSE parts[w][k]
  BY <1>2, <1>3 DEF Uploads, Types
<1>5. \A w \in Upload : w # u => parts'[w] = parts[w]
  BY <1>2, <1>3 DEF Uploads, Types
<1>6. parts' \in [Upload -> [Number -> Bytes \cup {Nothing}]]
  BY <1>2, <1>3 DEF Uploads, Types
<1>7. \A w \in Upload : \A k \in OpenParts(w) : parts'[w][k] = parts[w][k]
  BY <1>2, <1>4 DEF OpenParts
<1>8. \A d \in Call \ {c} : HoldsUpload(d) => call[d].mut.upload \in Upload /\ call[d].mut.upload # u
  BY <1>1, <1>2, CallFacts, Fields DEF Uploads, Exclusion, HoldsUpload, Shape
<1>9. /\ call' \in [Call -> CallState] /\ \A e \in Call : Shape(call'[e])
      /\ Exclusion'
      /\ \A e \in Call : Checked(call[e])' /\ Asked(call[e])'
  BY <1>1, <1>2, <1>3, <1>5, <1>6, <1>7, <1>8, AnswerCalls DEF RequestLabels
<1>10. AnswersHold'
  BY <1>1, <1>2, <1>3, <1>4, <1>7, AnswerHolds DEF RequestLabels
<1>11. Types'
  <2>1. verified' \subseteq Node \X Content
    BY <1>2, <1>3 DEF CallState, Uploads, Types
  <2> QED
    BY <1>3, <1>6, <1>9, <2>1 DEF Uploads, Types
<1>12. Versions'
  <2>1. \A v \in versions : v.mut.upload \in Upload /\ v.mut.upload # u
    BY <1>2, Fields DEF Uploads, Types, Object, Versions
  <2> QED
    BY <1>3, <1>5, <2>1 DEF Uploads, Versions
<1>13. Fresh'
  BY <1>2, <1>3, <1>5 DEF Uploads, Fresh, OpenParts
<1> QED
  BY <1>9, <1>10, <1>11, <1>12, <1>13 DEF Uploads

\* A completion inserts the version while it holds the upload open.
LEMMA CommitCompleteUploads ==
  ASSUME Uploads, NEW c \in Call, CommitComplete(c)
  PROVE  Uploads'
<1>1. PICK m \in Mutation : m = call[c].mut /\ m.kind = "complete"
  BY CallFacts DEF CommitComplete, Shape
<1> DEFINE u == m.upload
           x == call[c].content
           v == [mut |-> m, content |-> x]
<1>2. /\ call[c].pc = "deciding" /\ call[c] \in CallState /\ x \in Content
      /\ state[u] = "open" /\ x = parts[u] /\ u \in Upload
  BY <1>1, CallFacts, Fields DEF CommitComplete, Shape, Checked
<1>3. /\ versions' = versions \cup {v} /\ state' = [state EXCEPT ![u] = "completed"]
      /\ verified' = verified \cup (call[c].got \X {x})
      /\ receipts' = receipts \cup {m} /\ intents' \subseteq intents /\ live' \subseteq live
      /\ Return(c) /\ UNCHANGED <<expired, parts, files, doomed>>
  BY <1>1 DEF CommitComplete, Answer, Forget, Recorded, Intent, Completed
<1>4. \A w \in Upload : state'[w] = IF w = u THEN "completed" ELSE state[w]
  BY <1>2, <1>3 DEF Uploads, Types
<1>5. \A d \in Call \ {c} : HoldsUpload(d) => call[d].mut.upload \in Upload /\ call[d].mut.upload # u
  BY <1>1, <1>2, CallFacts, Fields DEF Uploads, Exclusion, HoldsUpload, Shape
<1>6. /\ call' \in [Call -> CallState] /\ \A e \in Call : Shape(call'[e])
      /\ Exclusion'
      /\ \A e \in Call : Checked(call[e])' /\ Asked(call[e])'
  <2>1. call[c].pc \in RequestLabels /\ call[c].pc # "idle" /\ versions \subseteq versions'
        /\ parts' \in [Upload -> [Number -> Bytes \cup {Nothing}]]
    BY <1>2, <1>3 DEF RequestLabels, Uploads, Types
  <2> QED
    BY <1>1, <1>3, <1>4, <1>5, <2>1, AnswerCalls
<1>7. v \in versions' /\ SameIntent(v.mut, m)
  BY <1>3 DEF SameIntent
<1>8. AnswersHold'
  BY <1>1, <1>2, <1>3, <1>4, <1>7, AnswerHolds DEF RequestLabels
<1>9. Types'
  <2>1. verified' \subseteq Node \X Content
    BY <1>2, <1>3 DEF CallState, Uploads, Types
  <2>2. v \in Object
    BY <1>2 DEF Object
  <2>3. state' \in [Upload -> UploadState]
    BY <1>3 DEF Uploads, Types, UploadState
  <2> QED
    BY <1>3, <1>6, <2>1, <2>2, <2>3 DEF Uploads, Types
<1>10. Versions'
  <2>1. \A w \in versions : w.mut.upload \in Upload /\ w.mut.upload # u
    BY <1>2, Fields DEF Uploads, Types, Object, Versions
  <2>2. \A w \in versions' : w \in versions \/ w = v
    BY <1>3
  <2>3. v.mut = m /\ v.content = x /\ v \in versions'
    BY <1>3
  <2> HIDE DEF v
  <2>4. ASSUME NEW w \in versions'
        PROVE  /\ w.mut.kind = "complete" /\ state'[w.mut.upload] = "completed"
               /\ w.content = parts'[w.mut.upload]
    BY <1>1, <1>2, <1>3, <1>4, <2>1, <2>2, <2>3 DEF Uploads, Versions
  <2>5. ASSUME NEW w \in versions', NEW z \in versions', w.mut.upload = z.mut.upload
        PROVE  w = z
    BY <2>1, <2>2, <2>3, <2>5 DEF Uploads, Versions
  <2>6. ASSUME NEW w \in Upload, state'[w] = "completed"
        PROVE  \E z \in versions' : z.mut.upload = w
    BY <1>3, <1>4, <2>3, <2>6 DEF Uploads, Versions
  <2> QED
    BY <2>4, <2>5, <2>6 DEF Versions
<1>11. Fresh'
  BY <1>3, <1>4 DEF Uploads, Fresh, OpenParts
<1> QED
  BY <1>6, <1>8, <1>9, <1>10, <1>11 DEF Uploads

\* An abort closes an upload that nobody holds.
LEMMA CommitAbortUploads ==
  ASSUME Uploads, NEW c \in Call, CommitAbort(c)
  PROVE  Uploads'
<1>1. PICK m \in Mutation : m = call[c].mut /\ m.kind = "abort"
  BY CallFacts DEF CommitAbort, Shape
<1> DEFINE u == m.upload
<1>2. call[c].pc = "locking" /\ u \in Upload /\ UploadFree(u)
  BY <1>1, Fields DEF CommitAbort
<1>3. PICK end \in {"expired", "aborted"} :
        state' = [state EXCEPT ![u] = IF @ # "open" THEN @ ELSE end]
  BY <1>1 DEF CommitAbort
<1>4. /\ receipts' = IF state[u] \in {"none", "completed"} THEN receipts ELSE receipts \cup {m}
      /\ Return(c) /\ UNCHANGED <<expired, parts, versions, intents, live, files, verified, doomed>>
  BY <1>1 DEF CommitAbort, blobs
<1>5. \A w \in Upload : state'[w] = IF w = u /\ state[u] = "open" THEN end ELSE state[w]
  BY <1>2, <1>3 DEF Uploads, Types
<1>6. \A d \in Call \ {c} : HoldsUpload(d) => call[d].mut.upload \in Upload /\ call[d].mut.upload # u
  BY <1>2, CallFacts, Fields DEF UploadFree, HoldsUpload, Shape
<1>7. /\ call' \in [Call -> CallState] /\ \A e \in Call : Shape(call'[e])
      /\ Exclusion'
      /\ \A e \in Call : Checked(call[e])' /\ Asked(call[e])'
  BY <1>1, <1>2, <1>4, <1>5, <1>6, AnswerCalls DEF RequestLabels, Uploads, Types
<1>8. state[u] \in UploadState
  BY <1>2 DEF Uploads, Types
<1>9. m \in receipts' => state'[u] \in {"aborted", "expired"}
  <2>1. m \notin receipts
    BY <1>1, <1>2, CallFacts DEF Asked, Bound, SameIdentity
  <2> QED
    BY <1>2, <1>4, <1>5, <1>8, <2>1 DEF UploadState
<1>10. AnswersHold'
  BY <1>1, <1>2, <1>4, <1>5, <1>9, AnswerHolds DEF RequestLabels
<1>11. Types'
  <2>1. state' \in [Upload -> UploadState]
    BY <1>3 DEF Uploads, Types, UploadState
  <2> QED
    BY <1>4, <1>7, <2>1 DEF Uploads, Types
<1>12. Versions'
  <2>1. \A v \in versions : v.mut.upload \in Upload
    BY Fields DEF Uploads, Types, Object
  <2> QED
    BY <1>4, <1>5, <2>1 DEF Uploads, Versions
<1>13. Fresh'
  BY <1>4, <1>5 DEF Uploads, Fresh, OpenParts
<1> QED
  BY <1>7, <1>10, <1>11, <1>12, <1>13 DEF Uploads

-----------------------------------------------------------------------------
(* Every step.                                                             *)

\* The invariant is inductive.
LEMMA NextUploads == Uploads /\ [Next]_vars => Uploads'
<1> SUFFICES ASSUME Uploads, [Next]_vars PROVE Uploads'
  OBVIOUS
<1>1. ASSUME NEW u \in Upload, Initiate(u) \/ Expire(u) PROVE Uploads'
  <2>1. CASE Initiate(u)
    BY <2>1, InitiateUploads
  <2>2. CASE Expire(u)
    BY <2>2, OutsideStep DEF Expire, writes, blobs, Uploads, Types
  <2> QED
    BY <1>1, <2>1, <2>2
<1>2. ASSUME NEW c \in Call, NEW m \in Mutation,
             StartPart(c, m) \/ StartComplete(c, m) \/ StartAbort(c, m)
      PROVE  Uploads'
  BY <1>2, StartQuiet
<1>3. ASSUME NEW c \in Call,
             \/ Reserve(c) \/ Publish(c) \/ Begin(c)
             \/ PartStep(c) \/ CompleteStep(c) \/ CommitAbort(c) \/ Abort(c)
      PROVE  Uploads'
  BY <1>3, ReserveQuiet, PublishQuiet, BeginQuiet, LockForPartUploads, CommitPartUploads,
     ReadPartQuiet, LockForCompleteUploads, LockKeyUploads, CommitCompleteUploads, ReplayUploads,
     CommitAbortUploads, AbortUploads DEF PartStep, CompleteStep
<1>4. ASSUME NEW m \in Mutation, ExpireIntent(m) PROVE Uploads'
  BY <1>4, OutsideStep DEF ExpireIntent, uploads, blobs, Uploads, Types
<1>5. ASSUME NEW n \in Node, NEW x \in Content, GcJudge(n, x) PROVE Uploads'
  BY <1>5, OutsideStep DEF GcJudge, uploads, writes, Uploads, Types
<1>6. CASE GcUnlink
  BY <1>6, OutsideStep DEF GcUnlink, uploads, writes, Uploads, Types
<1>7. CASE UNCHANGED vars
  BY <1>7, OutsideStep DEF vars, Uploads, Types
<1> QED
  BY <1>1, <1>2, <1>3, <1>4, <1>5, <1>6, <1>7 DEF Next

-----------------------------------------------------------------------------
(* Theorems.                                                               *)

\* The invariant holds of every behaviour of uploads.
THEOREM UploadsInOrder == Spec => []Uploads
  BY InitUploads, NextUploads, PTL DEF Spec

\* What was answered stays true: the bytes of a part, which completion it was
\* that completed, that an abort closed the upload; and an identity is bound
\* once.
THEOREM UploadAnswersHold == Spec => []AnswersHold
  BY UploadsInOrder, PTL DEF Uploads

\* A completed upload has one version, and its content is that of the parts.
LEMMA CompletedVersion == Uploads => CompletedIsItsParts
<1> SUFFICES ASSUME Uploads, NEW u \in Upload
             PROVE  LET made == {v \in versions : v.mut.upload = u}
                    IN IF state[u] = "completed"
                       THEN Cardinality(made) = 1 /\ \A v \in made : v.content = parts[u]
                       ELSE made = {}
  BY DEF CompletedIsItsParts
<1> DEFINE made == {v \in versions : v.mut.upload = u}
<1>1. CASE state[u] = "completed"
  <2>1. PICK v \in versions : made = {v}
    BY <1>1 DEF Uploads, Versions
  <2>2. Cardinality(made) = 1
    BY <2>1, FS_Singleton
  <2> QED
    BY <1>1, <2>2 DEF Uploads, Versions
<1>2. CASE state[u] # "completed"
  BY <1>2 DEF Uploads, Versions
<1> QED
  BY <1>1, <1>2

\* However many completions race each other, late parts, aborts and expiry: a
\* completed upload has one version, of all its parts in their order, and no
\* other upload has one.
THEOREM UploadsComplete == Spec => []CompletedIsItsParts
  BY UploadsInOrder, CompletedVersion, PTL

\* What a step may do to an upload: initiate it, insert a part in a free
\* place while it is open, and close it.
LEMMA UploadChanges ==
  ASSUME Uploads, [Next]_vars, NEW u \in Upload
  PROVE  /\ state[u] \in Closed => state'[u] = state[u] /\ parts'[u] = parts[u]
         /\ \A n \in OpenParts(u) : parts'[u][n] = parts[u][n]
<1>1. CASE UNCHANGED <<state, parts>>
  BY <1>1
<1>2. ASSUME NEW w \in Upload, Initiate(w)
      PROVE  parts' = parts /\ (state[u] \in Closed => state'[u] = state[u])
  BY <1>2 DEF Initiate, Closed, Uploads, Types
<1>3. ASSUME NEW c \in Call, CommitPart(c)
      PROVE  /\ state' = state
             /\ state[u] # "open" => parts'[u] = parts[u]
             /\ \A n \in OpenParts(u) : parts'[u][n] = parts[u][n]
  <2>1. PICK m \in Mutation : m = call[c].mut /\ m.kind = "part"
    BY <1>3, CallFacts DEF CommitPart, Shape
  <2>2. /\ state[m.upload] = "open" /\ parts[m.upload][m.number] = Nothing
        /\ m.upload \in Upload /\ m.number \in Number
    BY <1>3, <2>1, CallFacts, Fields DEF CommitPart, Checked
  <2>3. state' = state /\ parts' = [parts EXCEPT ![m.upload][m.number] = m.bytes]
    BY <1>3, <2>1 DEF CommitPart
  <2> QED
    BY <2>2, <2>3 DEF OpenParts, Uploads, Types
<1>4. ASSUME NEW c \in Call, CommitComplete(c)
      PROVE  parts' = parts /\ (state[u] \in Closed => state'[u] = state[u])
  <2>1. state[call[c].mut.upload] = "open" /\ call[c].mut.upload \in Upload
    BY <1>4, CallFacts, Fields DEF CommitComplete, Checked, Shape
  <2> QED
    BY <1>4, <2>1 DEF CommitComplete, Closed, Uploads, Types
<1>5. ASSUME NEW c \in Call, CommitAbort(c)
      PROVE  parts' = parts /\ (state[u] \in Closed => state'[u] = state[u])
  <2>1. call[c].mut.upload \in Upload
    BY <1>5, CallFacts, Fields DEF CommitAbort, Shape
  <2> QED
    BY <1>5, <2>1 DEF CommitAbort, Closed, Uploads, Types
<1>6. CASE \/ \E w \in Upload : Expire(w)
           \/ \E c \in Call :
                \/ \E m \in Mutation : StartPart(c, m) \/ StartComplete(c, m) \/ StartAbort(c, m)
                \/ Reserve(c) \/ Publish(c) \/ Begin(c) \/ LockForPart(c)
                \/ ReadPart(c) \/ LockForComplete(c) \/ LockKey(c) \/ Replay(c) \/ Abort(c)
           \/ \E m \in Mutation : ExpireIntent(m)
           \/ \E n \in Node, x \in Content : GcJudge(n, x)
           \/ GcUnlink \/ UNCHANGED vars
  <2>1. UNCHANGED <<state, parts>>
    BY <1>6 DEF Expire, StartPart, StartComplete, StartAbort, Reserve, Publish, Begin, LockForPart,
                ReadPart, LockForComplete, LockKey, Replay, Abort, ExpireIntent, GcJudge, GcUnlink,
                uploads, vars
  <2> QED
    BY <1>1, <2>1
<1> QED
  BY <1>2, <1>3, <1>4, <1>5, <1>6 DEF Next, PartStep, CompleteStep, Closed

\* An upload is closed once, by a completion or an abort, and then gets no part
\* of a request that was on its way; a part is never bound to other bytes.
THEOREM UploadsEndOnce == Spec => UploadEndsOnce
<1>1. Uploads /\ [Next]_vars =>
        [\A u \in Upload :
          /\ state[u] \in Closed => state'[u] = state[u] /\ parts'[u] = parts[u]
          /\ \A n \in OpenParts(u) : parts'[u][n] = parts[u][n]]_vars
  BY UploadChanges
<1> QED
  BY <1>1, UploadsInOrder, PTL DEF Spec, UploadEndsOnce

-----------------------------------------------------------------------------
(* The key, and the refinement of UploadHistory.                           *)

\* One call at a time decides under the key lock, and what it found of the key
\* still holds.
Keyed ==
  /\ \A c, d \in Call : call[c].pc = "deciding" /\ call[d].pc = "deciding" => c = d
  /\ \A c \in Call : call[c].pc = "deciding" /\ call[c].mut.pre = "absent" => versions = {}

\* A step that is neither LockKey nor CommitComplete brings no call under the
\* key lock, and no version.
LEMMA KeyFrame ==
  ASSUME Uploads, [Next]_vars, ~ \E c \in Call : LockKey(c) \/ CommitComplete(c)
  PROVE  versions' = versions /\ \A d \in Call : call'[d].pc = "deciding" => call'[d] = call[d]
<1>1. call \in [Call -> CallState]
  BY DEF Uploads, Types
<1>2. Idle.pc # "deciding"
  BY IdleShape
<1>3. ASSUME NEW c \in Call, NEW s, s.pc # "deciding", call' = [call EXCEPT ![c] = s]
      PROVE  \A d \in Call : call'[d].pc = "deciding" => call'[d] = call[d]
  BY <1>1, <1>3
<1>4. ASSUME NEW c \in Call, Return(c)
      PROVE  \A d \in Call : call'[d].pc = "deciding" => call'[d] = call[d]
  BY <1>2, <1>3, <1>4 DEF Return
<1>5. ASSUME NEW c \in Call, NEW label \in PC \ {"deciding"}, Goto(c, label)
      PROVE  \A d \in Call : call'[d].pc = "deciding" => call'[d] = call[d]
  BY <1>1, <1>5, GotoRecord DEF Goto
<1>6. CASE UNCHANGED call /\ versions' = versions
  BY <1>6
<1>7. ASSUME NEW c \in Call, NEW m \in Mutation, StartPart(c, m) \/ StartComplete(c, m) \/ StartAbort(c, m)
      PROVE  versions' = versions /\ \A d \in Call : call'[d].pc = "deciding" => call'[d] = call[d]
  <2>1. versions' = versions
    BY <1>7 DEF StartPart, StartComplete, StartAbort, uploads
  <2>2. \E s : s.pc # "deciding" /\ call' = [call EXCEPT ![c] = s]
    BY <1>7 DEF StartPart, StartComplete, StartAbort, Idle
  <2> QED
    BY <1>3, <2>1, <2>2
<1>8. ASSUME NEW c \in Call, ReadPart(c)
      PROVE  versions' = versions /\ \A d \in Call : call'[d].pc = "deciding" => call'[d] = call[d]
  <2>1. versions' = versions
    BY <1>8 DEF ReadPart, uploads
  <2>2. CASE ~Return(c)
    <3>1. PICK label \in {"reading", "reserving"} :
            \E read : call' = [call EXCEPT ![c].content = read, ![c].pc = label]
      <4> DEFINE read == call[c].content \o <<parts[call[c].mut.upload][Len(call[c].content) + 1]>>
      <4>1. call' = [call EXCEPT ![c].content = read,
                                 ![c].pc = IF Len(read) < PartCount THEN "reading" ELSE "reserving"]
        BY <1>8, <2>2 DEF ReadPart
      <4> HIDE DEF read
      <4> QED
        BY <4>1
    <3>2. PICK read : call' = [call EXCEPT ![c].content = read, ![c].pc = label]
      BY <3>1
    <3>3. call' = [call EXCEPT ![c] = [call[c] EXCEPT !.content = read, !.pc = label]]
      BY <1>1, <3>2
    <3>4. [call[c] EXCEPT !.content = read, !.pc = label].pc = label
      BY <1>1 DEF CallState
    <3> QED
      BY <1>3, <2>1, <3>3, <3>4
  <2> QED
    BY <1>4, <2>1, <2>2
<1>9. ASSUME NEW c \in Call, Publish(c)
      PROVE  versions' = versions /\ \A d \in Call : call'[d].pc = "deciding" => call'[d] = call[d]
  <2>1. versions' = versions
    BY <1>9 DEF Publish, uploads
  <2>2. CASE ~Return(c)
    <3>1. PICK got : call' = [call EXCEPT ![c].pc = "begin", ![c].got = got]
      BY <1>9, <2>2 DEF Publish
    <3>2. call' = [call EXCEPT ![c] = [call[c] EXCEPT !.pc = "begin", !.got = got]]
      BY <1>1, <3>1
    <3>3. [call[c] EXCEPT !.pc = "begin", !.got = got].pc = "begin"
      BY <1>1 DEF CallState
    <3> QED
      BY <1>3, <2>1, <3>2, <3>3
  <2> QED
    BY <1>4, <2>1, <2>2
<1>10. ASSUME NEW c \in Call, Begin(c)
       PROVE  versions' = versions /\ \A d \in Call : call'[d].pc = "deciding" => call'[d] = call[d]
  <2>1. versions' = versions
    BY <1>10 DEF Begin, uploads
  <2>2. CASE ~Return(c)
    <3>1. PICK late : call' = [call EXCEPT ![c].pc = "locking", ![c].late = late]
      BY <1>10, <2>2 DEF Begin
    <3>2. call' = [call EXCEPT ![c] = [call[c] EXCEPT !.pc = "locking", !.late = late]]
      BY <1>1, <3>1
    <3>3. [call[c] EXCEPT !.pc = "locking", !.late = late].pc = "locking"
      BY <1>1 DEF CallState
    <3> QED
      BY <1>3, <2>1, <3>2, <3>3
  <2> QED
    BY <1>4, <2>1, <2>2
<1>11. ASSUME NEW c \in Call, Reserve(c) \/ LockForPart(c)
       PROVE  versions' = versions /\ \A d \in Call : call'[d].pc = "deciding" => call'[d] = call[d]
  <2>1. versions' = versions
    BY <1>11 DEF Reserve, LockForPart, uploads
  <2>2. Return(c) \/ Goto(c, "publishing") \/ Goto(c, "locked")
    BY <1>11 DEF Reserve, LockForPart, Answer
  <2> QED
    BY <1>4, <1>5, <2>1, <2>2 DEF PC
<1>12. ASSUME NEW c \in Call, LockForComplete(c)
       PROVE  versions' = versions /\ \A d \in Call : call'[d].pc = "deciding" => call'[d] = call[d]
  <2>1. versions' = versions
    BY <1>12 DEF LockForComplete, uploads
  <2>2. Return(c) \/ Goto(c, "locked")
    BY <1>12 DEF LockForComplete, Answer
  <2> QED
    BY <1>4, <1>5, <2>1, <2>2 DEF PC
<1>13. ASSUME NEW c \in Call, CommitPart(c) \/ Replay(c) \/ CommitAbort(c) \/ Abort(c)
       PROVE  versions' = versions /\ \A d \in Call : call'[d].pc = "deciding" => call'[d] = call[d]
  BY <1>4, <1>13 DEF CommitPart, Replay, CommitAbort, Abort, Answer, uploads
<1>14. ASSUME \/ \E u \in Upload : Initiate(u) \/ Expire(u)
              \/ \E m \in Mutation : ExpireIntent(m)
              \/ \E n \in Node, x \in Content : GcJudge(n, x)
              \/ GcUnlink \/ UNCHANGED vars
       PROVE  UNCHANGED call /\ versions' = versions
  BY <1>14 DEF Initiate, Expire, ExpireIntent, GcJudge, GcUnlink, uploads, vars
<1> QED
  BY <1>6, <1>7, <1>8, <1>9, <1>10, <1>11, <1>12, <1>13, <1>14 DEF Next, PartStep, CompleteStep

\* The key lock is inductive.
LEMMA NextKeyed == Uploads /\ Keyed /\ [Next]_vars => Keyed'
<1> SUFFICES ASSUME Uploads, Keyed, [Next]_vars PROVE Keyed'
  OBVIOUS
<1>1. call \in [Call -> CallState] /\ Idle.pc # "deciding"
  BY IdleShape DEF Uploads, Types
<1>2. ASSUME NEW c \in Call, LockKey(c)
      PROVE  Keyed'
  <2>1. versions' = versions /\ \A d \in Call : call[d].pc # "deciding"
    BY <1>2 DEF LockKey, KeyFree, uploads
  <2>2. CASE Return(c)
    BY <1>1, <2>1, <2>2 DEF Return, Keyed
  <2>3. CASE Goto(c, "deciding") /\ ~(call[c].mut.pre = "absent" /\ versions # {})
    <3>1. /\ call'[c].mut = call[c].mut
          /\ \A d \in Call \ {c} : call'[d] = call[d]
      <4> DEFINE s == [call[c] EXCEPT !.pc = "deciding"]
      <4>1. call' = [call EXCEPT ![c] = s] /\ s.mut = call[c].mut
        BY <2>3, GotoRecord DEF PC
      <4> HIDE DEF s
      <4> QED
        BY <1>1, <4>1
    <3> QED
      BY <2>1, <2>3, <3>1 DEF Keyed
  <2> QED
    BY <1>2, <2>2, <2>3 DEF LockKey
<1>3. ASSUME NEW c \in Call, CommitComplete(c)
      PROVE  Keyed'
  <2>1. call[c].pc = "deciding" /\ call' = [call EXCEPT ![c] = Idle]
    BY <1>3 DEF CommitComplete, Answer, Return
  <2>2. \A d \in Call : call'[d].pc # "deciding"
    BY <1>1, <2>1 DEF Keyed
  <2> QED
    BY <2>2 DEF Keyed
<1>4. CASE ~ \E c \in Call : LockKey(c) \/ CommitComplete(c)
  BY <1>4, KeyFrame DEF Keyed
<1> QED
  BY <1>2, <1>3, <1>4

\* No call is under the key lock at the start.
LEMMA InitKeyed == Init => Keyed
  BY IdleShape DEF Init, Keyed

\* Without a new version every upload is the object that it was.
LEMMA ObjectsKept ==
  ASSUME versions' = versions
  PROVE  [u \in Upload |-> ObjectOf(u)]' = [u \in Upload |-> ObjectOf(u)]
  BY DEF ObjectOf

\* A step that leaves uploads, parts, versions and receipts leaves UploadHistory.
LEMMA HistoryKept ==
  ASSUME UNCHANGED <<state, parts, versions, receipts>>
  PROVE  UNCHANGED History!vars
  BY ObjectsKept DEF History!vars

\* A request whose identity has no receipt is new to UploadHistory.
LEMMA NewRequest ==
  ASSUME NEW m, ~Bound(m), receipts' = receipts \cup {m}
  PROVE  History!Answer(m)
<1>1. History!New(m)
  BY DEF Bound, SameIdentity, History!New
<1> QED
  BY <1>1 DEF History!Answer

\* A version is what its upload became.
LEMMA ObjectIs ==
  ASSUME Versions, NEW v \in versions
  PROVE  ObjectOf(v.mut.upload) = v
<1> DEFINE made == {w \in versions : w.mut.upload = v.mut.upload}
<1>1. made = {v}
  BY DEF Versions
<1>2. ObjectOf(v.mut.upload) = CHOOSE w \in made : TRUE
  BY <1>1 DEF ObjectOf
<1> QED
  BY <1>1, <1>2

\* The answer to a completion of a completed upload is a confirmation.
LEMMA ConfirmRefines ==
  ASSUME Uploads, NEW m \in Mutation, m.kind = "complete", CompletedBy(m), ~Bound(m),
         receipts' = receipts \cup {m}, UNCHANGED <<state, parts, versions>>
  PROVE  History!Confirm(m)
<1>1. PICK v \in versions : SameIntent(v.mut, m)
  BY DEF CompletedBy
<1>2. v.mut.upload = m.upload /\ v.mut.pre = m.pre /\ m.upload \in Upload
  BY <1>1, RequestAssumption DEF SameIntent
<1>3. state[m.upload] = "completed" /\ ObjectOf(m.upload) = v
  BY <1>2, ObjectIs DEF Uploads, Versions
<1>4. [u \in Upload |-> ObjectOf(u)][m.upload].mut.pre = m.pre
  BY <1>2, <1>3
<1> QED
  BY <1>3, <1>4, NewRequest, ObjectsKept DEF History!Confirm

\* A part that is put, for the first time or again, was put while its upload
\* was open.
LEMMA PartRefines ==
  ASSUME Uploads, NEW c \in Call, LockForPart(c) \/ CommitPart(c), receipts' # receipts
  PROVE  History!PutPart(call[c].mut)
<1> DEFINE m == call[c].mut
           u == m.upload
<1>1. call[c].pc \in {"locking", "locked"} /\ m.kind = "part" /\ Answer(c)
  BY DEF LockForPart, CommitPart, writes
<1>2. m \in Mutation /\ u \in Upload /\ m.number \in Number
  BY <1>1, RequestAssumption DEF Uploads, Types, Shape
<1>3. History!Answer(m)
  BY <1>1, NewRequest DEF Uploads, Asked, Answer
<1>4. versions' = versions /\ state' = state
  BY DEF LockForPart, CommitPart, uploads
<1>5. /\ state[u] = "open"
      /\ parts[u][m.number] \in {Nothing, m.bytes}
      /\ parts' = [parts EXCEPT ![u][m.number] = m.bytes]
  <2>1. CASE LockForPart(c)
    <3>1. state[u] = "open" /\ parts[u][m.number] = m.bytes /\ parts' = parts
      BY <2>1 DEF LockForPart, IsOpen, SamePart, uploads, writes
    <3>2. parts = [parts EXCEPT ![u][m.number] = m.bytes]
      BY <1>2, <3>1 DEF Uploads, Types
    <3> QED
      BY <3>1, <3>2
  <2>2. CASE CommitPart(c)
    BY <1>1, <2>2 DEF CommitPart, Uploads, Checked
  <2> QED
    BY <2>1, <2>2
<1> QED
  BY <1>1, <1>3, <1>4, <1>5, ObjectsKept DEF History!PutPart

\* The first version of an upload is the object that it became.
LEMMA ObjectMade ==
  ASSUME NEW new, new.mut.upload \in Upload, versions' = versions \cup {new},
         \A v \in versions : v.mut.upload # new.mut.upload
  PROVE  [w \in Upload |-> ObjectOf(w)]'
           = [[w \in Upload |-> ObjectOf(w)] EXCEPT ![new.mut.upload] = new]
<1> DEFINE u == new.mut.upload
           Made(w) == {v \in versions : v.mut.upload = w}
           MadeNow(w) == {v \in versions' : v.mut.upload = w}
<1>1. ObjectOf(u)' = new
  <2>1. MadeNow(u) = {new}
    OBVIOUS
  <2>2. ObjectOf(u)' = IF MadeNow(u) = {} THEN Nothing ELSE CHOOSE v \in MadeNow(u) : TRUE
    BY DEF ObjectOf
  <2> HIDE DEF MadeNow
  <2>3. (CHOOSE v \in {new} : TRUE) = new
    OBVIOUS
  <2> QED
    BY <2>1, <2>2, <2>3
<1>2. ASSUME NEW w \in Upload \ {u} PROVE ObjectOf(w)' = ObjectOf(w)
  <2>1. MadeNow(w) = Made(w)
    OBVIOUS
  <2>2. ObjectOf(w)' = IF MadeNow(w) = {} THEN Nothing ELSE CHOOSE v \in MadeNow(w) : TRUE
    BY DEF ObjectOf
  <2>3. ObjectOf(w) = IF Made(w) = {} THEN Nothing ELSE CHOOSE v \in Made(w) : TRUE
    BY DEF ObjectOf
  <2> HIDE DEF Made, MadeNow
  <2> QED
    BY <2>1, <2>2, <2>3
<1> QED
  BY <1>1, <1>2

\* A commit makes of an open upload the object that it says, of all its parts.
LEMMA CompleteRefines ==
  ASSUME Uploads, Keyed, NEW c \in Call, CommitComplete(c)
  PROVE  History!Complete(call[c].mut)
<1> DEFINE m == call[c].mut
           u == m.upload
<1>1. call[c].pc = "deciding" /\ Answer(c) /\ parts' = parts
  BY DEF CommitComplete
<1>2. m \in Mutation /\ m.kind = "complete" /\ u \in Upload /\ call[c].content \in Content
  BY <1>1, RequestAssumption DEF Uploads, Types, Shape
<1>3. History!Answer(m)
  BY <1>1, NewRequest DEF Uploads, Asked, Answer
<1>4. state[u] = "open" /\ call[c].content = parts[u]
  BY <1>1, <1>2 DEF Uploads, Checked
<1>5. \A n \in Number : parts[u][n] # Nothing
  <2> SUFFICES ASSUME NEW n \in Number PROVE parts[u][n] # Nothing
    OBVIOUS
  <2>1. DOMAIN parts[u] = Number
    BY <1>2 DEF Uploads, Types
  <2>2. CASE parts[u] \in [Number -> Bytes]
    BY <2>2, NothingAssumption
  <2>3. CASE \E b \in Bytes : parts[u] = <<b>>
    <3>1. PICK b \in Bytes : parts[u] = <<b>>
      BY <2>3
    <3>2. n \in DOMAIN <<b>>
      BY <2>1, <3>1
    <3>3. n = 1
      BY <3>2
    <3> QED
      BY <3>1, <3>3, NothingAssumption
  <2> QED
    BY <1>2, <1>4, <2>2, <2>3 DEF Content
<1>6. m.pre = "absent" => \A w \in Upload : state[w] # "completed"
  BY <1>1 DEF Keyed, Uploads, Versions
<1>7. state' = [state EXCEPT ![u] = "completed"]
  BY DEF CommitComplete, Completed
<1>8. [w \in Upload |-> ObjectOf(w)]'
        = [[w \in Upload |-> ObjectOf(w)] EXCEPT ![u] = [mut |-> m, content |-> parts[u]]]
  <2> DEFINE new == [mut |-> m, content |-> parts[u]]
  <2>1. versions' = versions \cup {new} /\ new.mut.upload \in Upload
    BY <1>2, <1>4 DEF CommitComplete, Intent
  <2>2. \A v \in versions : v.mut.upload # new.mut.upload
    BY <1>4 DEF Uploads, Versions
  <2> HIDE DEF new
  <2>3. [w \in Upload |-> ObjectOf(w)]'
          = [[w \in Upload |-> ObjectOf(w)] EXCEPT ![new.mut.upload] = new]
    BY <2>1, <2>2, ObjectMade
  <2> QED
    BY <2>3 DEF new
<1> QED
  BY <1>1, <1>2, <1>3, <1>4, <1>5, <1>6, <1>7, <1>8 DEF History!Complete

\* An abort that is answered ended its upload, or found it ended; one that is
\* refused changes nothing.
LEMMA EndRefines ==
  ASSUME Uploads, NEW c \in Call, CommitAbort(c)
  PROVE  History!End(call[c].mut) \/ UNCHANGED History!vars
<1> DEFINE m == call[c].mut
           u == m.upload
<1>1. /\ call[c].pc = "locking" /\ m.kind = "abort" /\ UNCHANGED <<parts, versions>>
      /\ state' = [state EXCEPT ![u] = IF @ # "open" THEN @
                                       ELSE IF call[c].late THEN "expired" ELSE "aborted"]
      /\ receipts' = IF state[u] \in {"none", "completed"} THEN receipts ELSE receipts \cup {m}
  BY DEF CommitAbort
<1>2. m \in Mutation /\ u \in Upload /\ ~Bound(m)
  BY <1>1, RequestAssumption DEF Uploads, Types, Shape, Asked
<1>3. state \in [Upload -> UploadState]
  BY DEF Uploads, Types
<1>4. state[u] # "open" => state' = state
  BY <1>1, <1>2, <1>3
<1>5. CASE state[u] \in {"none", "completed"}
  BY <1>1, <1>4, <1>5, HistoryKept
<1>6. CASE state[u] \in {"open", "aborted", "expired"}
  <2>1. receipts' = receipts \cup {m}
    BY <1>1, <1>6
  <2>2. History!Answer(m)
    BY <1>2, <2>1, NewRequest
  <2>3. state[u] = "open" => \E end \in {"aborted", "expired"} : state' = [state EXCEPT ![u] = end]
    BY <1>1, <1>2, <1>3
  <2> QED
    BY <1>1, <1>4, <1>6, <2>2, <2>3, ObjectsKept DEF History!End
<1> QED
  BY <1>2, <1>3, <1>5, <1>6 DEF UploadState

\* A retry that replays a completion confirms it, unless its own request was
\* answered meanwhile.
LEMMA ReplayRefines ==
  ASSUME Uploads, Uploads', NEW c \in Call, Replay(c)
  PROVE  History!Confirm(call[c].mut) \/ UNCHANGED History!vars
<1> DEFINE m == call[c].mut
<1>1. call[c].pc = "replaying" /\ receipts' = receipts \cup {m} /\ UNCHANGED <<state, parts, versions>>
  BY DEF Replay, uploads
<1>2. m \in Mutation /\ m.kind = "complete" /\ CompletedBy(m)
  BY <1>1 DEF Uploads, Types, Shape, Asked
<1>3. CASE ~Bound(m)
  BY <1>1, <1>2, <1>3, ConfirmRefines
<1>4. CASE Bound(m)
  <2>1. PICK r \in receipts : SameIdentity(r, m)
    BY <1>4 DEF Bound
  <2>2. r \in receipts' /\ m \in receipts'
    BY <1>1
  <2>3. \A q, s \in receipts' : SameIdentity(q, s) => q = s
    BY DEF Uploads, AnswersHold, SameIdentity
  <2>4. r = m
    BY <2>1, <2>2, <2>3
  <2>5. receipts' = receipts
    BY <1>1, <2>4
  <2> QED
    BY <1>1, <2>5, HistoryKept
<1> QED
  BY <1>3, <1>4

\* The steps of which a client sees nothing.
LEMMA SilentSteps ==
  ASSUME NEW c \in Call,
         \/ \E m \in Mutation : StartPart(c, m) \/ StartComplete(c, m) \/ StartAbort(c, m)
         \/ Reserve(c) \/ Publish(c) \/ Begin(c) \/ ReadPart(c) \/ LockKey(c) \/ Abort(c)
  PROVE  UNCHANGED <<state, parts, versions, receipts>>
<1>1. CASE \E m \in Mutation : StartPart(c, m) \/ StartComplete(c, m) \/ StartAbort(c, m)
  BY <1>1 DEF StartPart, StartComplete, StartAbort, uploads, writes
<1>2. CASE Reserve(c) \/ Publish(c) \/ Begin(c) \/ ReadPart(c) \/ LockKey(c) \/ Abort(c)
  BY <1>2 DEF Reserve, Publish, Begin, ReadPart, LockKey, Abort, uploads, writes
<1> QED
  BY <1>1, <1>2

\* Every step of an upload is a step of UploadHistory or leaves it.
LEMMA StepRefines ==
  Uploads /\ Keyed /\ [Next]_vars => [History!Next]_(History!vars)
<1> SUFFICES ASSUME Uploads, Keyed, [Next]_vars
             PROVE  History!Next \/ UNCHANGED History!vars
  OBVIOUS
<1>1. Uploads'
  BY NextUploads
<1>2. ASSUME NEW c \in Call, call[c].pc # "idle"
      PROVE  call[c].mut \in Mutation
  BY <1>2 DEF Uploads, Types, Shape
<1>3. ASSUME NEW u \in Upload, Initiate(u)
      PROVE  History!Next
  <2>1. History!Open(u)
    BY <1>3, ObjectsKept DEF Initiate, writes, History!Open
  <2> QED
    BY <2>1 DEF History!Next
<1>4. ASSUME NEW c \in Call, PartStep(c)
      PROVE  History!Next \/ UNCHANGED History!vars
  <2>1. CASE receipts' # receipts
    BY <1>2, <1>4, <2>1, PartRefines DEF PartStep, LockForPart, CommitPart, History!Next
  <2>2. CASE receipts' = receipts
    <3>1. LockForPart(c)
      <4>1. CommitPart(c) => call[c].mut \in receipts' /\ ~Bound(call[c].mut)
        BY DEF CommitPart, Answer, Uploads, Asked
      <4>2. call[c].mut \in receipts => Bound(call[c].mut)
        BY DEF Bound, SameIdentity
      <4> QED
        BY <1>4, <2>2, <4>1, <4>2 DEF PartStep
    <3> QED
      BY <2>2, <3>1, HistoryKept DEF LockForPart, uploads
  <2> QED
    BY <2>1, <2>2
<1>5. ASSUME NEW c \in Call, LockForComplete(c)
      PROVE  History!Next \/ UNCHANGED History!vars
  <2>1. call[c].pc = "locking" /\ call[c].mut.kind = "complete" /\ UNCHANGED <<state, parts, versions>>
    BY <1>5 DEF LockForComplete, uploads
  <2>2. call[c].mut \in Mutation /\ ~Bound(call[c].mut)
    BY <1>2, <2>1 DEF Uploads, Asked
  <2>3. CASE CompletedBy(call[c].mut)
    <3>1. receipts' = receipts \cup {call[c].mut}
      BY <1>5, <2>3 DEF LockForComplete, Answer
    <3> QED
      BY <2>1, <2>2, <2>3, <3>1, ConfirmRefines DEF History!Next
  <2>4. CASE ~CompletedBy(call[c].mut)
    BY <1>5, <2>1, <2>4, HistoryKept DEF LockForComplete, writes
  <2> QED
    BY <2>3, <2>4
<1>6. ASSUME NEW c \in Call, CommitComplete(c) \/ Replay(c) \/ CommitAbort(c)
      PROVE  History!Next \/ UNCHANGED History!vars
  <2>1. call[c].mut \in Mutation
    BY <1>2, <1>6 DEF CommitComplete, Replay, CommitAbort
  <2> QED
    BY <1>1, <1>6, <2>1, CompleteRefines, ReplayRefines, EndRefines DEF History!Next
<1>7. ASSUME NEW c \in Call,
             \/ \E m \in Mutation : StartPart(c, m) \/ StartComplete(c, m) \/ StartAbort(c, m)
             \/ Reserve(c) \/ Publish(c) \/ Begin(c) \/ ReadPart(c) \/ LockKey(c) \/ Abort(c)
      PROVE  UNCHANGED History!vars
  BY <1>7, SilentSteps, HistoryKept
<1>8. ASSUME \/ \E u \in Upload : Expire(u)
             \/ \E m \in Mutation : ExpireIntent(m)
             \/ \E n \in Node, x \in Content : GcJudge(n, x)
             \/ GcUnlink \/ UNCHANGED vars
      PROVE  UNCHANGED History!vars
  <2>1. UNCHANGED <<state, parts, versions, receipts>>
    BY <1>8 DEF Expire, ExpireIntent, GcJudge, GcUnlink, uploads, writes, vars
  <2> QED
    BY <2>1, HistoryKept
<1> QED
  BY <1>3, <1>4, <1>5, <1>6, <1>7, <1>8 DEF Next, CompleteStep

\* At the start no upload is an object.
LEMMA InitRefines == Init => History!Init
<1> SUFFICES ASSUME Init PROVE History!Init
  OBVIOUS
<1>1. \A u \in Upload : ObjectOf(u) = Nothing
  BY DEF Init, ObjectOf
<1> QED
  BY <1>1 DEF Init, History!Init

\* Whatever the number of calls, uploads, parts, requests and nodes, uploads
\* implement UploadHistory: every request has its effect in one step, at most
\* once per identity, and a completion finds at that step the parts and the
\* precondition that it asks for.
THEOREM UploadsAreLinear == Spec => LinearUploads
<1>1. Spec => []Keyed
  BY InitKeyed, NextKeyed, UploadsInOrder, PTL DEF Spec
<1> QED
  BY <1>1, InitRefines, StepRefines, UploadsInOrder, PTL DEF Spec, LinearUploads, History!Spec
=============================================================================
