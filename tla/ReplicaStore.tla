---------------------------- MODULE ReplicaStore ----------------------------
(***************************************************************************)
(* One node directory of the replica store, at the level of system calls:  *)
(* publish with its two paths, adoption of an existing blob and            *)
(* publication through a temporary file, by any number of processes that   *)
(* may die, on a host that may crash; bit rot; and deleteEntry.            *)
(*                                                                         *)
(* A file is identified by the temporary name it was created under.  The   *)
(* directory in memory (dir) and what a host crash may leave of it         *)
(* (onDisk) are kept apart: a rename or an unlink reaches the disk at any  *)
(* time until a sync of the directory makes it final, and the bytes of a   *)
(* file are only sure to be there once it was synced.  The directory       *)
(* itself exists and is on disk.                                           *)
(***************************************************************************)
EXTENDS FiniteSets

CONSTANTS
  Call,     \* executions of publish, each in a process
  Digest,   \* content digests
  Temp,     \* temporary names; a random UUID makes each one new
  Absent,   \* no file
  Partial,  \* bytes of a file that was not completely written
  Rotten    \* bytes that changed on the disk

Name == Digest \cup Temp

ASSUME NamesAssumption ==
  /\ Digest \cap Temp = {} /\ Absent \notin Temp
  /\ Partial \notin Digest /\ Rotten \notin Digest /\ Partial # Rotten

VARIABLES
  dir,       \* the directory: the file under each name
  onDisk,    \* what may be under each name after a crash of the host
  bytes,     \* the bytes of each file, as the digest they have
  synced,    \* files whose bytes are on disk
  receipts,  \* digests with a receipt, not removed or rotten since
  sweeping,  \* the collector has unlinked and not yet synced the directory
  call       \* local state of each execution

vars == <<dir, onDisk, bytes, synced, receipts, sweeping, call>>

disk == <<dir, onDisk, bytes, synced>>

PC == {"idle", "verifying",
       "opening", "adopting",                         \* an existing blob
       "creating", "writing", "syncing", "renaming",  \* a temporary file
       "syncingDirectory", "readback"}

Idle == [pc |-> "idle", digest |-> Absent, file |-> Absent]

-----------------------------------------------------------------------------
\* verify answers 'verified'.
Verified(d) == dir[d] # Absent /\ bytes[dir[d]] = d

\* A name that is in use nowhere, open handles included.
Fresh(t) ==
  /\ \A n \in Name : dir[n] # t /\ t \notin onDisk[n]
  /\ \A c \in Call : call[c].file # t

\* onDisk once name n was linked to file f (Absent: unlinked).
Pending(n, f) == [onDisk EXCEPT ![n] = @ \cup {f}]

\* Bug: the handle is kept when the call ends.
Leak(c) == call' = [call EXCEPT ![c].pc = "idle"]

Return(c) == call' = [call EXCEPT ![c] = Idle]

Goto(c, label) == call' = [call EXCEPT ![c].pc = label]

Init ==
  /\ dir = [n \in Name |-> Absent]
  /\ onDisk = [n \in Name |-> {Absent}]
  /\ bytes = [t \in Temp |-> Partial]
  /\ synced = {} /\ receipts = {} /\ sweeping = FALSE
  /\ call = [c \in Call |-> Idle]

\* publish is called with bytes that have digest d.
Publish(c, d) ==
  /\ call[c].pc = "idle"
  /\ call' = [call EXCEPT ![c].pc = "verifying", ![c].digest = d]
  /\ UNCHANGED <<disk, receipts, sweeping>>

Verify(c) ==
  /\ call[c].pc = "verifying"
  /\ Goto(c, IF Verified(call[c].digest) THEN "opening" ELSE "creating")
  /\ UNCHANGED <<disk, receipts, sweeping>>

\* The blob that was verified may be gone by now, or be another file.
OpenExisting(c) ==
  LET f == dir[call[c].digest] IN
  /\ call[c].pc = "opening"
  /\ IF f = Absent THEN Return(c)
     ELSE call' = [call EXCEPT ![c].pc = "adopting", ![c].file = f]
  /\ UNCHANGED <<disk, receipts, sweeping>>

\* Bug: an adopted file is taken to be in its place on disk.
AdoptedInPlace == "readback"

\* What follows the sync of an adopted file.
AfterAdoption == "syncingDirectory"

Adopt(c) ==
  /\ call[c].pc = "adopting"
  /\ synced' = synced \cup {call[c].file}
  /\ Goto(c, AfterAdoption)
  /\ UNCHANGED <<dir, onDisk, bytes, receipts, sweeping>>

\* open(temporaryPath, 'wx')
Create(c) ==
  /\ call[c].pc = "creating"
  /\ \E t \in Temp :
       /\ Fresh(t)
       /\ dir' = [dir EXCEPT ![t] = t]
       /\ onDisk' = Pending(t, t)
       /\ bytes' = [bytes EXCEPT ![t] = Partial]
       /\ synced' = synced \ {t}
       /\ call' = [call EXCEPT ![c].pc = "writing", ![c].file = t]
  /\ UNCHANGED <<receipts, sweeping>>

Write(c) ==
  /\ call[c].pc = "writing"
  /\ bytes' = [bytes EXCEPT ![call[c].file] = call[c].digest]
  /\ Goto(c, "syncing")
  /\ UNCHANGED <<dir, onDisk, synced, receipts, sweeping>>

\* Bug: the handle is closed without a sync.
NotSynced(c) == synced

Synced(c) == synced \cup {call[c].file}

\* handle.sync and close
SyncFile(c) ==
  /\ call[c].pc = "syncing"
  /\ synced' = Synced(c)
  /\ Goto(c, "renaming")
  /\ UNCHANGED <<dir, onDisk, bytes, receipts, sweeping>>

\* The rename fails if the collector has taken the temporary file.
Rename(c) ==
  LET t == call[c].file
      d == call[c].digest
  IN
  /\ call[c].pc = "renaming"
  /\ IF dir[t] = Absent
     THEN Return(c) /\ UNCHANGED <<dir, onDisk>>
     ELSE /\ dir' = [dir EXCEPT ![d] = t, ![t] = Absent]
          /\ onDisk' = [onDisk EXCEPT ![d] = @ \cup {t}, ![t] = @ \cup {Absent}]
          /\ Goto(c, "syncingDirectory")
  /\ UNCHANGED <<bytes, synced, receipts, sweeping>>

\* onDisk once the directory is synced.
InPlace == [n \in Name |-> {dir[n]}]

SyncDirectory(c) ==
  /\ call[c].pc = "syncingDirectory"
  /\ onDisk' = InPlace
  /\ Goto(c, "readback")
  /\ UNCHANGED <<dir, bytes, synced, receipts, sweeping>>

\* A receipt, or integrity_failure.
Readback(c) ==
  LET d == call[c].digest IN
  /\ call[c].pc = "readback"
  /\ receipts' = IF Verified(d) THEN receipts \cup {d} ELSE receipts
  /\ Return(c)
  /\ UNCHANGED <<disk, sweeping>>

\* A system call fails.  The temporary file is unlinked, unless that fails too.
Fail(c) ==
  LET t == call[c].file
      own == call[c].pc \in {"writing", "syncing", "renaming"} /\ dir[t] = t
  IN
  /\ call[c].pc # "idle"
  /\ \/ own /\ dir' = [dir EXCEPT ![t] = Absent] /\ onDisk' = Pending(t, Absent)
     \/ UNCHANGED <<dir, onDisk>>
  /\ Return(c)
  /\ UNCHANGED <<bytes, synced, receipts, sweeping>>

\* Host crash: calls and memory are gone.  Each name shows something that may
\* have been on disk; unsynced bytes may be lost.  What is seen now is final.
HostCrash ==
  /\ dir' \in {f \in [Name -> Temp \cup {Absent}] : \A n \in Name : f[n] \in onDisk[n]}
  /\ onDisk' = [n \in Name |-> {dir'[n]}]
  /\ bytes' \in {g \in [Temp -> Digest \cup {Partial, Rotten}] :
                   \A t \in Temp : g[t] = bytes[t] \/ (t \notin synced /\ g[t] = Partial)}
  /\ synced' = Temp
  /\ sweeping' = FALSE
  /\ call' = [c \in Call |-> Idle]
  /\ UNCHANGED receipts

\* A blob of digest d is in its place and about to get a receipt.
Settling(d) ==
  \E c \in Call :
    call[c].digest = d /\ call[c].pc \in {"opening", "adopting", "syncingDirectory", "readback"}

\* The bytes of a blob change, but not just then: the readback might meet the
\* file of another publisher, whose rename no sync has made final.
Rot(d) ==
  /\ Verified(d)
  /\ ~Settling(d)
  /\ bytes' = [bytes EXCEPT ![dir[d]] = Rotten]
  /\ receipts' = receipts \ {d}
  /\ UNCHANGED <<dir, onDisk, synced, sweeping, call>>

\* deleteEntry of a temporary file: by age only, so possibly of a live one.
CollectTemporary(t) ==
  /\ ~sweeping /\ dir[t] = t
  /\ dir' = [dir EXCEPT ![t] = Absent]
  /\ onDisk' = Pending(t, Absent)
  /\ sweeping' = TRUE
  /\ UNCHANGED <<bytes, synced, receipts, call>>

\* deleteEntry of a blob.  While it is published its digest is reachable and
\* it is left alone (CollectsOnlyGarbage of WriteGc).
CollectBlob(d) ==
  /\ ~sweeping /\ dir[d] # Absent
  /\ ~Settling(d)
  /\ dir' = [dir EXCEPT ![d] = Absent]
  /\ onDisk' = Pending(d, Absent)
  /\ receipts' = receipts \ {d}
  /\ sweeping' = TRUE
  /\ UNCHANGED <<bytes, synced, call>>

\* The collector syncs the directory, unless it dies before.
CollectorEnds ==
  /\ sweeping
  /\ onDisk' \in {InPlace, onDisk}
  /\ sweeping' = FALSE
  /\ UNCHANGED <<dir, bytes, synced, receipts, call>>

Step(c) ==
  \/ Verify(c) \/ OpenExisting(c) \/ Adopt(c)
  \/ Create(c) \/ Write(c) \/ SyncFile(c) \/ Rename(c)
  \/ SyncDirectory(c) \/ Readback(c)

Next ==
  \/ \E c \in Call : Step(c) \/ Fail(c) \/ \E d \in Digest : Publish(c, d)
  \/ \E d \in Digest : Rot(d) \/ CollectBlob(d)
  \/ \E t \in Temp : CollectTemporary(t)
  \/ CollectorEnds
  \/ HostCrash

Spec == Init /\ [][Next]_vars
-----------------------------------------------------------------------------
(* Properties.                                                             *)

\* Every variable stays in its domain; an idle call has no handle.
TypeOK ==
  /\ dir \in [Name -> Temp \cup {Absent}]
  /\ onDisk \in [Name -> SUBSET (Temp \cup {Absent})]
  /\ bytes \in [Temp -> Digest \cup {Partial, Rotten}]
  /\ synced \subseteq Temp /\ receipts \subseteq Digest /\ sweeping \in BOOLEAN
  /\ call \in [Call -> [pc : PC, digest : Digest \cup {Absent}, file : Temp \cup {Absent}]]
  /\ \A c \in Call : call[c].pc = "idle" => call[c] = Idle

\* No reader ever finds a partial file under a final name, not even after a
\* crash of the host in the middle of a publication.
NoPartialBlob ==
  \A d \in Digest : \A t \in onDisk[d] \cup {dir[d]} :
    t # Absent => t \in synced /\ bytes[t] \in {d, Rotten}

\* The directory implements DurableBlobs.
Seen(d) == CASE dir[d] = Absent -> "missing"
             [] Verified(d)     -> "verified"
             [] OTHER           -> "corrupt"

Blobs == INSTANCE DurableBlobs WITH visible <- [d \in Digest |-> Seen(d)], promised <- receipts

\* A receipt survives every crash, whichever of two publishers of the same
\* digest synced what, and in whatever order they renamed and adopted.
ReceiptsAreDurable == Blobs!Spec
=============================================================================
