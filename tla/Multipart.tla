----------------------------- MODULE Multipart ------------------------------
(***************************************************************************)
(* Multipart uploads: initiateMultipart, putMultipartPart,                 *)
(* completeMultipart and abortMultipart, by concurrent executions that may *)
(* die and be repeated, while uploads and write intents expire and the     *)
(* collector unlinks what nothing refers to.                               *)
(*                                                                         *)
(* The bytes of a part are a sequence of one element and those of a        *)
(* completed object their concatenation.  Time only appears as what it     *)
(* makes true: an upload or an intent has expired.  A write intent does    *)
(* not expire under the attempt that it protects (Window < Ttl of          *)
(* WriteGc).  The publication on all nodes is one step, and so is the      *)
(* reservation; WriteGc has theirs one by one.  All uploads are of one     *)
(* key, and a version that was not uploaded is of none.                    *)
(***************************************************************************)
EXTENDS Naturals, Sequences, FiniteSets, SequencesExt

CONSTANTS
  Call,       \* executions of the operations
  Upload,     \* uploads that clients initiate
  Mutation,   \* the other requests that clients send
  Bytes,      \* what a part may consist of
  Node,       \* nodes of the replica store
  PartCount,  \* expectedParts of each upload
  Required,   \* REQUIRED_REPLICAS
  Nothing     \* no mutation, part, file

Number  == 1 .. PartCount
Content == {<<b>> : b \in Bytes} \cup [Number -> Bytes]

ASSUME BoundsAssumption ==
  /\ PartCount \in 1 .. 4
  /\ IsFiniteSet(Node) /\ Required \in 1 .. Cardinality(Node)

\* Of the preconditions, a version id that must be the head is left out.
ASSUME RequestAssumption ==
  \A m \in Mutation :
    /\ m.kind \in {"part", "complete", "abort"} /\ m.upload \in Upload
    /\ m.kind = "part" => m.number \in Number /\ m.bytes \in Bytes
    /\ m.kind = "complete" => m.pre \in {"none", "absent"}

ASSUME NothingAssumption == Nothing \notin Bytes \cup Mutation

VARIABLES
  state,      \* multipart_uploads: state
  expired,    \* uploads whose expires_at has passed
  parts,      \* rows of multipart_parts: the bytes of each part
  versions,   \* versions that completions inserted: intent and content
  receipts,   \* rows of mutation_receipts
  intents,    \* rows of write_intents: mutation and content
  live,       \* mutations whose intent has not expired
  files,      \* finished blobs: node and content
  verified,   \* rows of replicas whose state is verified
  doomed,     \* file that the collector holds the GC row for
  call        \* local state of each execution

vars == <<state, expired, parts, versions, receipts, intents, live, files, verified, doomed, call>>

uploads == <<state, expired, parts, versions>>
writes  == <<receipts, intents, live>>
blobs   == <<files, verified, doomed>>

PC == {"idle",
       "reading",      \* completion: reads the parts
       "reserving", "publishing",
       "begin",        \* about to open the mutation
       "locking",      \* holds the request lock, waits for the upload
       "locked",       \* holds the upload
       "deciding",     \* completion: also holds the key
       "replaying"}    \* completion of a completed upload, without its row

Idle == [pc |-> "idle", mut |-> Nothing, content |-> <<>>, late |-> FALSE, got |-> {}]

-----------------------------------------------------------------------------
(* Identities, locks, references.                                          *)

SameIdentity(m, n) ==
  /\ m.kind = n.kind /\ m.upload = n.upload /\ m.request = n.request
  /\ m.kind = "part" => m.number = n.number

\* What intentDigest binds, apart from the request key.
SameIntent(m, n) == m.kind = n.kind /\ m.upload = n.upload /\ m.pre = n.pre

\* A completion is what it asks, under its request key.
ASSUME CompletionAssumption ==
  \A m, n \in Mutation :
    m.kind = "complete" /\ SameIdentity(m, n) /\ SameIntent(m, n) => m = n

HoldsRequest(d) == call[d].pc \in {"locking", "locked", "deciding"}
HoldsUpload(d)  == call[d].pc \in {"locked", "deciding"}

RequestFree(m) == \A d \in Call : HoldsRequest(d) => ~SameIdentity(call[d].mut, m)

\* Bug: the upload is read without FOR UPDATE.
UploadRead(u) == u \in Upload

UploadFree(u) == \A d \in Call : HoldsUpload(d) => call[d].mut.upload # u

KeyFree == \A d \in Call : call[d].pc # "deciding"

GcRowFree == doomed = Nothing

Bound(m) == \E r \in receipts : SameIdentity(r, m)

OpenParts(u) == {n \in Number : parts[u][n] # Nothing}

Complete(u) == OpenParts(u) = Number

\* Bug: a collection asks for versions and intents only.
ReachableObject(x) ==
  \/ \E v \in versions : v.content = x
  \/ \E i \in intents : i.content = x /\ i.mut \in live

\* A part of an upload that may still be completed.
ReachablePart(x) ==
  \E u \in Upload : state[u] = "open" /\ u \notin expired
                    /\ \E n \in OpenParts(u) : <<parts[u][n]>> = x

\* The query of garbageCollect.
Reachable(x) == ReachableObject(x) \/ ReachablePart(x)

-----------------------------------------------------------------------------
\* Bug: the connection is released before its transaction ends.
Leak(c) == call' = [call EXCEPT ![c].pc = "idle"]

Return(c) == call' = [call EXCEPT ![c] = Idle]

Goto(c, label) == call' = [call EXCEPT ![c].pc = label]

Init ==
  /\ state = [u \in Upload |-> "none"] /\ expired = {}
  /\ parts = [u \in Upload |-> [n \in Number |-> Nothing]]
  /\ versions = {} /\ receipts = {} /\ intents = {} /\ live = {}
  /\ files = {} /\ verified = {} /\ doomed = Nothing
  /\ call = [c \in Call |-> Idle]

\* initiateMultipart: the id of an upload is derived from its request, whose
\* repetitions find the receipt.
Initiate(u) ==
  /\ state[u] = "none"
  /\ state' = [state EXCEPT ![u] = "open"]
  /\ UNCHANGED <<expired, parts, versions, writes, blobs, call>>

\* Bug: the state of the upload is not looked at.
NotExpired(u, late) == u \in Upload /\ ~late

\* assertUploadOpen
IsOpen(u, late) == state[u] = "open" /\ ~late

\* putMultipartPart up to the reservation; a receipt is answered.
StartPart(c, m) ==
  /\ call[c].pc = "idle" /\ m.kind = "part"
  /\ RequestFree(m) /\ ~Bound(m)
  /\ IsOpen(m.upload, m.upload \in expired)
  /\ call' = [call EXCEPT ![c] =
       [Idle EXCEPT !.pc = "reserving", !.mut = m, !.content = <<m.bytes>>]]
  /\ UNCHANGED <<uploads, writes, blobs>>

\* completeMultipart up to the bytes of the parts.
StartComplete(c, m) ==
  LET u == m.upload IN
  /\ call[c].pc = "idle" /\ m.kind = "complete"
  /\ Complete(u) /\ RequestFree(m) /\ ~Bound(m)
  /\ \/ IsOpen(u, u \in expired)
        /\ call' = [call EXCEPT ![c] = [Idle EXCEPT !.pc = "reading", !.mut = m]]
     \/ /\ \E v \in versions : SameIntent(v.mut, m)
        /\ call' = [call EXCEPT ![c] = [Idle EXCEPT !.pc = "replaying", !.mut = m]]
  /\ UNCHANGED <<uploads, writes, blobs>>

\* Readable parts are collected in order; readPartBytes takes any replica.
ReadPart(c) ==
  LET u == call[c].mut.upload
      x == <<parts[u][Len(call[c].content) + 1]>>
      read == call[c].content \o x
  IN
  /\ call[c].pc = "reading"
  /\ IF \E n \in Node : <<n, x>> \in files
     THEN call' = [call EXCEPT ![c].content = read,
                               ![c].pc = IF Len(read) < PartCount THEN "reading" ELSE "reserving"]
     ELSE Return(c)
  /\ UNCHANGED <<uploads, writes, blobs>>

Intent(c) == [mut |-> call[c].mut, content |-> call[c].content]

\* reserveWriteIntent: an intent of another digest is a conflict.
Reserve(c) ==
  LET m == call[c].mut IN
  /\ call[c].pc = "reserving" /\ RequestFree(m) /\ GcRowFree
  /\ IF Bound(m) \/ \E i \in intents : SameIdentity(i.mut, m) /\ i # Intent(c)
     THEN Return(c) /\ UNCHANGED <<intents, live>>
     ELSE /\ intents' = intents \cup {Intent(c)}
          /\ live' = live \cup {m}
          /\ Goto(c, "publishing")
  /\ UNCHANGED <<uploads, receipts, blobs>>

\* prepareReplicas: publish on some nodes, with or without a receipt.
Publish(c) ==
  /\ call[c].pc = "publishing"
  /\ \E placed \in SUBSET Node : \E got \in SUBSET placed :
       /\ files' = files \cup (placed \X {call[c].content})
       /\ IF Cardinality(got) < Required THEN Return(c)
          ELSE call' = [call EXCEPT ![c].pc = "begin", ![c].got = got]
  /\ UNCHANGED <<uploads, writes, verified, doomed>>

StartAbort(c, m) ==
  /\ call[c].pc = "idle" /\ m.kind = "abort"
  /\ call' = [call EXCEPT ![c] = [Idle EXCEPT !.pc = "begin", !.mut = m]]
  /\ UNCHANGED <<uploads, writes, blobs>>

\* The request is locked.  SELECT ... FOR UPDATE starts: is_expired is of now,
\* however long the statement waits for the row.
Begin(c) ==
  LET m == call[c].mut IN
  /\ call[c].pc = "begin" /\ RequestFree(m)
  /\ IF Bound(m) THEN Return(c)
     ELSE call' = [call EXCEPT ![c].pc = "locking", ![c].late = m.upload \in expired]
  /\ UNCHANGED <<uploads, writes, blobs>>

Forget(m) == {i \in intents : ~SameIdentity(i.mut, m)}

\* The receipt is stored, the intent cleared.
Answer(c) ==
  /\ receipts' = receipts \cup {call[c].mut}
  /\ intents' = Forget(call[c].mut)
  /\ live' = live \ {call[c].mut}
  /\ Return(c)

\* assertWriteIntent
IntentIsThere(c) == Intent(c) \in intents

\* The part has been put; bug: as SamePart, its bytes are not compared.
PartIsThere(m) == parts[m.upload][m.number] # Nothing

\* It has been put with these bytes, by another request.
SamePart(m) == parts[m.upload][m.number] = m.bytes

LockForPart(c) ==
  LET m == call[c].mut IN
  /\ call[c].pc = "locking" /\ m.kind = "part" /\ UploadFree(m.upload)
  /\ IF ~IsOpen(m.upload, call[c].late) THEN Return(c) /\ UNCHANGED writes
     ELSE IF SamePart(m) THEN Answer(c)
     ELSE /\ IF PartIsThere(m) \/ ~IntentIsThere(c) THEN Return(c) ELSE Goto(c, "locked")
          /\ UNCHANGED writes
  /\ UNCHANGED <<uploads, blobs>>

\* recordReplicaRows: a row of a node without a receipt stays as it is.
Recorded(c) == verified \cup (call[c].got \X {call[c].content})

CommitPart(c) ==
  LET m == call[c].mut IN
  /\ call[c].pc = "locked" /\ m.kind = "part" /\ GcRowFree
  /\ parts' = [parts EXCEPT ![m.upload][m.number] = m.bytes]
  /\ verified' = Recorded(c)
  /\ Answer(c)
  /\ UNCHANGED <<state, expired, versions, files, doomed>>

\* Bug: whatever completed the upload is replayed.
CompletedByAny(m) == state[m.upload] = "completed"

\* completion_intent_digest
CompletedBy(m) == \E v \in versions : SameIntent(v.mut, m)

LockForComplete(c) ==
  LET m == call[c].mut IN
  /\ call[c].pc = "locking" /\ m.kind = "complete" /\ UploadFree(m.upload)
  /\ IF CompletedBy(m) THEN Answer(c)
     ELSE /\ IF /\ IsOpen(m.upload, call[c].late)
                /\ call[c].content = parts[m.upload]
                /\ IntentIsThere(c)
             THEN Goto(c, "locked") ELSE Return(c)
          /\ UNCHANGED writes
  /\ UNCHANGED <<uploads, blobs>>

\* The key and the precondition.
LockKey(c) ==
  /\ call[c].pc = "locked" /\ call[c].mut.kind = "complete" /\ KeyFree
  /\ IF call[c].mut.pre = "absent" /\ versions # {} THEN Return(c) ELSE Goto(c, "deciding")
  /\ UNCHANGED <<uploads, writes, blobs>>

\* Bug: the completion leaves the upload open.
StillOpen == "open"

Completed == "completed"

CommitComplete(c) ==
  LET m == call[c].mut IN
  /\ call[c].pc = "deciding" /\ GcRowFree
  /\ versions' = versions \cup {Intent(c)}
  /\ state' = [state EXCEPT ![m.upload] = Completed]
  /\ verified' = Recorded(c)
  /\ Answer(c)
  /\ UNCHANGED <<expired, parts, files, doomed>>

\* A retry that found the upload completed, under another request key.
Replay(c) ==
  /\ call[c].pc = "replaying" /\ RequestFree(call[c].mut)
  /\ receipts' = receipts \cup {call[c].mut}
  /\ Return(c)
  /\ UNCHANGED <<uploads, intents, live, blobs>>

\* A completed upload cannot be aborted; a closed one stays as it is.
CommitAbort(c) ==
  LET u == call[c].mut.upload IN
  /\ call[c].pc = "locking" /\ call[c].mut.kind = "abort" /\ UploadFree(u)
  /\ state' = [state EXCEPT ![u] = IF @ # "open" THEN @
                                   ELSE IF call[c].late THEN "expired" ELSE "aborted"]
  /\ receipts' = IF state[u] \in {"none", "completed"} THEN receipts ELSE receipts \cup {call[c].mut}
  /\ Return(c)
  /\ UNCHANGED <<expired, parts, versions, intents, live, blobs>>

\* A call dies between two steps; its transaction is rolled back.
Abort(c) ==
  /\ call[c].pc # "idle"
  /\ Return(c)
  /\ UNCHANGED <<uploads, writes, blobs>>

-----------------------------------------------------------------------------
Expire(u) ==
  /\ state[u] # "none" /\ u \notin expired
  /\ expired' = expired \cup {u}
  /\ UNCHANGED <<state, parts, versions, writes, blobs, call>>

\* From the reservation to the end of its attempt an intent is live.
InWindow(m) ==
  \E c \in Call : call[c].mut = m /\ call[c].pc \in {"publishing", "begin", "locking", "locked", "deciding"}

ExpireIntent(m) ==
  /\ m \in live /\ ~InWindow(m)
  /\ live' = live \ {m}
  /\ UNCHANGED <<uploads, receipts, intents, blobs, call>>

\* garbageCollect takes the GC row FOR UPDATE, judges a file and unlinks it.
GcJudge(n, x) ==
  /\ doomed = Nothing
  /\ <<n, x>> \in files /\ ~Reachable(x)
  /\ doomed' = <<n, x>>
  /\ UNCHANGED <<uploads, writes, files, verified, call>>

GcUnlink ==
  /\ doomed # Nothing
  /\ files' \in {files, files \ {doomed}}
  /\ doomed' = Nothing
  /\ UNCHANGED <<uploads, writes, verified, call>>

PartStep(c)     == LockForPart(c) \/ CommitPart(c)
CompleteStep(c) == ReadPart(c) \/ LockForComplete(c) \/ LockKey(c) \/ CommitComplete(c) \/ Replay(c)

Next ==
  \/ \E u \in Upload : Initiate(u) \/ Expire(u)
  \/ \E c \in Call :
       \/ \E m \in Mutation : StartPart(c, m) \/ StartComplete(c, m) \/ StartAbort(c, m)
       \/ Reserve(c) \/ Publish(c) \/ Begin(c)
       \/ PartStep(c) \/ CompleteStep(c) \/ CommitAbort(c)
       \/ Abort(c)
  \/ \E m \in Mutation : ExpireIntent(m)
  \/ \E n \in Node, x \in Content : GcJudge(n, x)
  \/ GcUnlink

Spec == Init /\ [][Next]_vars
-----------------------------------------------------------------------------
(* Properties.                                                             *)

\* Every variable stays in its domain; an idle call holds nothing.
TypeOK ==
  /\ state \in [Upload -> {"none", "open", "completed", "aborted", "expired"}]
  /\ expired \subseteq Upload
  /\ parts \in [Upload -> [Number -> Bytes \cup {Nothing}]]
  /\ versions \subseteq [mut : Mutation, content : Content]
  /\ receipts \subseteq Mutation /\ intents \subseteq [mut : Mutation, content : Content]
  /\ live \subseteq {i.mut : i \in intents}
  /\ files \subseteq Node \X Content /\ verified \subseteq Node \X Content
  /\ doomed \in (Node \X Content) \cup {Nothing}
  /\ \A c \in Call :
       /\ call[c].pc \in PC /\ call[c].mut \in Mutation \cup {Nothing}
       /\ call[c].content \in BoundedSeq(Bytes, PartCount)
       /\ call[c].late \in BOOLEAN /\ call[c].got \subseteq Node
       /\ call[c].pc = "idle" => call[c] = Idle

Closed == {"completed", "aborted", "expired"}

\* An upload is closed once, by a completion or an abort, and then gets no part
\* of a request that was on its way; a part is never bound to other bytes.
UploadEndsOnce ==
  [][\A u \in Upload :
       /\ state[u] \in Closed => state'[u] = state[u] /\ parts'[u] = parts[u]
       /\ \A n \in OpenParts(u) : parts'[u][n] = parts[u][n]]_vars

\* However many completions race each other, late parts, aborts and expiry: a
\* completed upload has one version, of all its parts in their order, and no
\* other upload has one.
CompletedIsItsParts ==
  \A u \in Upload :
    LET made == {v \in versions : v.mut.upload = u}
    IN IF state[u] = "completed"
       THEN Cardinality(made) = 1 /\ \A v \in made : v.content = parts[u]
       ELSE made = {}

\* What was answered stays true: a part has the bytes of its receipt, a
\* completion that was answered is the one that completed, an abort that was
\* answered closed the upload, and an identity is bound once.
AnswersHold ==
  \A r \in receipts :
    /\ \A s \in receipts : SameIdentity(r, s) => r = s
    /\ r.kind = "part" => parts[r.upload][r.number] = r.bytes
    /\ r.kind = "complete" => \E v \in versions : SameIntent(v.mut, r)
    /\ r.kind = "abort" => state[r.upload] \in {"aborted", "expired"}

\* The version that a completion of upload u inserted.
ObjectOf(u) ==
  LET made == {v \in versions : v.mut.upload = u}
  IN IF made = {} THEN Nothing ELSE CHOOSE v \in made : TRUE

History == INSTANCE UploadHistory WITH
             phase    <- state,
             object   <- [u \in Upload |-> ObjectOf(u)],
             answered <- receipts

\* Overlapping, repeated and dying executions look to a client as if each
\* request had its effect in one step: a part while the upload was open, a
\* completion with the parts and the precondition of that instant, an abort if
\* nothing had completed it; and no identity twice.
LinearUploads == History!Spec

\* Contents that must be readable: versions, and parts of an open upload.
Needed == {x \in Content : ReachablePart(x) \/ \E v \in versions : v.content = x}

\* The collector leaves every version, and every part that a completion may
\* read, its threshold of verified replicas with their files, whatever retries,
\* expired intents and closed uploads refer to the same bytes.
NeededStays ==
  \A x \in Needed : Cardinality({n \in Node : <<n, x>> \in files \cap verified}) >= Required
=============================================================================
