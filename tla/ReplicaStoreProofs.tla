------------------------- MODULE ReplicaStoreProofs -------------------------
(***************************************************************************)
(* Proofs about ReplicaStore for any number of calls, digests and          *)
(* temporary names: no partial blob is ever seen, and the directory        *)
(* implements DurableBlobs, that is a receipt survives every crash.        *)
(*                                                                         *)
(* Neither fact is inductive.  What carries them is who may still change a *)
(* file: a call that writes one has it for itself, under no final name,    *)
(* until the rename, and by then its bytes are whole and on disk; and a    *)
(* blob about to get a receipt stays verified, whatever the other calls    *)
(* rename over it, so that the sync of the directory leaves nothing else   *)
(* on disk.                                                                *)
(***************************************************************************)
EXTENDS ReplicaStore, TLAPS

-----------------------------------------------------------------------------
(* The inductive invariant.                                                *)

File == Temp \cup {Absent}

CallState == [pc : PC, digest : Digest \cup {Absent}, file : File]

\* The labels at which a call owns the temporary file it created.
Own == {"writing", "syncing", "renaming"}

\* The labels of a call whose blob is in its place.
Settled == {"opening", "adopting", "syncingDirectory", "readback"}

\* A call that runs has a digest, and a file where it uses one.
Shape(s) ==
  /\ s.pc # "idle" => s.digest \in Digest
  /\ s.pc \in Own \cup {"adopting"} => s.file \in Temp

\* A temporary name holds the file created under it or none, and what the
\* directory shows is among what a crash may leave.
NamesInOrder ==
  /\ \A t \in Temp : dir[t] \in {t, Absent} /\ onDisk[t] \subseteq {t, Absent}
  /\ \A n \in Name : dir[n] \in onDisk[n]

\* A call owns its temporary file: it has no final name, on disk or not, and
\* no other call holds it.
Exclusive(c) ==
  /\ \A d \in Digest : call[c].file \notin onDisk[d]
  /\ \A e \in Call \ {c} : call[e].file # call[c].file

\* The file is written before it is synced, and synced before it is renamed.
Written(c) ==
  /\ call[c].pc \in {"syncing", "renaming"} => bytes[call[c].file] = call[c].digest
  /\ call[c].pc = "renaming" => call[c].file \in synced

OwnersInOrder == \A c \in Call : call[c].pc \in Own => Exclusive(c) /\ Written(c)

\* Whatever a crash leaves of the blob is verified.
Final(d) == \A t \in onDisk[d] : t # Absent /\ bytes[t] = d

\* A blob in its place is verified until its call returns, and final once the
\* directory was synced.
SettledInOrder ==
  \A c \in Call :
    /\ call[c].pc \in Settled => Verified(call[c].digest)
    /\ call[c].pc = "readback" => Final(call[c].digest)

\* A digest with a receipt is final.
ReceiptsFinal == \A d \in receipts : Final(d)

Durable ==
  /\ TypeOK
  /\ \A c \in Call : Shape(call[c])
  /\ NamesInOrder
  /\ OwnersInOrder
  /\ NoPartialBlob
  /\ SettledInOrder
  /\ ReceiptsFinal

-----------------------------------------------------------------------------
(* Every step keeps it.                                                    *)

\* The record of an idle call is in order.
LEMMA IdleShape == Idle \in CallState /\ Shape(Idle) /\ Idle.pc = "idle" /\ Idle.file = Absent
  BY DEF Idle, CallState, PC, File, Shape, Own

\* The initial state is in order.
LEMMA InitDurable == Init => Durable
<1> SUFFICES ASSUME Init PROVE Durable
  OBVIOUS
<1>1. TypeOK /\ \A c \in Call : Shape(call[c])
  BY IdleShape DEF Init, TypeOK, CallState, File
<1>2. NamesInOrder
  BY NamesAssumption DEF Init, NamesInOrder, Name
<1>3. OwnersInOrder /\ SettledInOrder
  BY IdleShape DEF Init, OwnersInOrder, SettledInOrder, Own, Settled
<1>4. NoPartialBlob /\ ReceiptsFinal
  BY DEF Init, NoPartialBlob, ReceiptsFinal, Name
<1> QED
  BY <1>1, <1>2, <1>3, <1>4 DEF Durable

\* A step of one call that leaves the disk alone keeps what is said of the
\* disk and of the calls, if its own record is in order afterwards.
LEMMA LocalStep ==
  ASSUME Durable, UNCHANGED disk, NEW c \in Call, NEW s \in CallState,
         call' = [call EXCEPT ![c] = s],
         Shape(s), s.pc = "idle" => s = Idle, s.pc \notin Own,
         s.file \in {Absent, call[c].file} \/ \E d \in Digest : s.file \in onDisk[d],
         s.pc \in Settled => Verified(s.digest),
         s.pc = "readback" => Final(s.digest),
         receipts' \subseteq Digest, ReceiptsFinal', sweeping' = sweeping
  PROVE  Durable'
<1>1. TypeOK' /\ \A e \in Call : Shape(call'[e])
  BY DEF Durable, TypeOK, disk, CallState, File
<1>2. NamesInOrder' /\ NoPartialBlob'
  BY DEF Durable, NamesInOrder, NoPartialBlob, disk
<1>3. \A e \in Call : call'[e] = IF e = c THEN s ELSE call[e]
  BY DEF Durable, TypeOK
<1>4. OwnersInOrder'
  <2> SUFFICES ASSUME NEW e \in Call, call'[e].pc \in Own
               PROVE  Exclusive(e)' /\ Written(e)'
    BY DEF OwnersInOrder
  <2>1. e # c /\ call'[e] = call[e] /\ Exclusive(e) /\ Written(e)
    BY <1>3 DEF Durable, OwnersInOrder
  <2>2. call[e].file \in Temp
    BY <2>1 DEF Durable, Shape, Own
  <2>3. s.file # call[e].file
    BY <2>1, <2>2, NamesAssumption DEF Exclusive
  <2>4. Exclusive(e)'
    BY <2>1, <2>3, <1>3 DEF Exclusive, disk
  <2>5. Written(e)'
    BY <2>1 DEF Written, disk
  <2> QED
    BY <2>4, <2>5
<1>5. SettledInOrder'
  BY <1>3 DEF Durable, SettledInOrder, Verified, Final, disk
<1> QED
  BY <1>1, <1>2, <1>4, <1>5 DEF Durable

\* A call that returns, and nothing else.
LEMMA ReturnStep ==
  ASSUME Durable, UNCHANGED <<disk, sweeping>>, NEW c \in Call, Return(c),
         receipts' \subseteq Digest, ReceiptsFinal'
  PROVE  Durable'
  BY LocalStep, IdleShape DEF Return, Own, Settled, disk

\* The calls of a publication that look at the directory only.
LEMMA VerifyDurable ==
  ASSUME Durable, NEW c \in Call, Verify(c) PROVE Durable'
<1> DEFINE s == [call[c] EXCEPT !.pc = IF Verified(call[c].digest) THEN "opening" ELSE "creating"]
<1>1. call[c] \in CallState /\ Shape(call[c])
  BY DEF Durable, TypeOK, CallState, File
<1>2. s \in CallState /\ Shape(s) /\ s.pc \in {"opening", "creating"}
  BY <1>1 DEF Verify, CallState, PC, Shape, Own
<1>3. call' = [call EXCEPT ![c] = s]
  BY <1>1 DEF Verify, Goto, CallState, Durable, TypeOK
<1>4. s.file = call[c].file /\ s.digest = call[c].digest /\ (s.pc = "opening" => Verified(s.digest))
  BY <1>1 DEF CallState
<1>5. ReceiptsFinal' /\ receipts' \subseteq Digest
  BY DEF Verify, Durable, TypeOK, ReceiptsFinal, Final, disk
<1>6. UNCHANGED disk /\ sweeping' = sweeping
  BY DEF Verify
<1> QED
  BY ONLY Durable, <1>1, <1>2, <1>3, <1>4, <1>5, <1>6, LocalStep DEF Own, Settled

\* A call starts.
LEMMA PublishDurable ==
  ASSUME Durable, NEW c \in Call, NEW d \in Digest, Publish(c, d) PROVE Durable'
<1> DEFINE s == [call[c] EXCEPT !.pc = "verifying", !.digest = d]
<1>1. call[c] \in CallState
  BY DEF Durable, TypeOK, CallState, File
<1>2. s \in CallState /\ Shape(s) /\ s.pc = "verifying" /\ s.file = call[c].file
  BY <1>1 DEF CallState, PC, Shape, Own
<1>3. call' = [call EXCEPT ![c] = s]
  BY <1>1 DEF Publish, CallState, Durable, TypeOK
<1>4. ReceiptsFinal' /\ receipts' \subseteq Digest
  BY DEF Publish, Durable, TypeOK, ReceiptsFinal, Final, disk
<1>5. UNCHANGED disk /\ sweeping' = sweeping
  BY DEF Publish
<1> QED
  BY ONLY Durable, <1>1, <1>2, <1>3, <1>4, <1>5, LocalStep DEF Own, Settled

\* The blob that was verified is still there, so the handle is of a file under
\* a final name, and of nobody's own.
LEMMA OpenExistingDurable ==
  ASSUME Durable, NEW c \in Call, OpenExisting(c) PROVE Durable'
<1> DEFINE f == dir[call[c].digest]
           s == [call[c] EXCEPT !.pc = "adopting", !.file = f]
<1>1. call[c] \in CallState /\ call[c].pc = "opening" /\ call[c].digest \in Digest
  BY DEF Durable, TypeOK, CallState, File, OpenExisting, Shape
<1>2. UNCHANGED <<disk, sweeping, receipts>> /\ receipts' \subseteq Digest /\ ReceiptsFinal'
  BY DEF OpenExisting, Durable, TypeOK, ReceiptsFinal, Final, disk
<1>3. f \in File /\ f \in onDisk[call[c].digest] /\ Verified(call[c].digest)
  BY <1>1 DEF Durable, TypeOK, File, NamesInOrder, Name, SettledInOrder, Settled
<1>4. call' = [call EXCEPT ![c] = s]
  BY <1>1, <1>3 DEF OpenExisting, Verified, CallState, Durable, TypeOK
<1>5. s \in CallState /\ s.pc = "adopting" /\ s.digest = call[c].digest /\ s.file = f /\ Shape(s)
  BY <1>1, <1>3 DEF CallState, File, PC, Shape, Verified, Own
<1> QED
  BY ONLY Durable, <1>1, <1>2, <1>3, <1>4, <1>5, LocalStep DEF Own, Settled

\* The readback gives a receipt for a final blob.
LEMMA ReadbackDurable ==
  ASSUME Durable, NEW c \in Call, Readback(c) PROVE Durable'
<1>1. call[c].digest \in Digest /\ Final(call[c].digest)
  BY DEF Durable, SettledInOrder, Shape, Readback
<1>2. receipts' \subseteq Digest
  BY <1>1 DEF Durable, TypeOK, Readback
<1>3. ReceiptsFinal'
  BY <1>1 DEF Durable, ReceiptsFinal, Final, Readback, disk
<1> QED
  BY <1>2, <1>3, ReturnStep DEF Readback

-----------------------------------------------------------------------------
(* The steps that change the disk.                                         *)

\* What is known of the record of a call.
LEMMA CallFacts ==
  ASSUME Durable, NEW c \in Call
  PROVE  /\ call[c] \in CallState /\ Shape(call[c])
         /\ call[c].pc = "idle" => call[c] = Idle
         /\ call[c].pc \in Own => call[c].file \in Temp /\ Exclusive(c) /\ Written(c)
  BY DEF Durable, TypeOK, CallState, File, OwnersInOrder, Shape

\* Goto, as an assignment to the record of the call.
LEMMA GotoRecord ==
  ASSUME Durable, NEW c \in Call, NEW label \in PC \ {"idle"}, Goto(c, label),
         call[c].pc # "idle", label \in Own \cup {"adopting"} => call[c].file \in Temp
  PROVE  LET s == [call[c] EXCEPT !.pc = label]
         IN  /\ call' = [call EXCEPT ![c] = s] /\ s \in CallState /\ Shape(s)
             /\ \A e \in Call : call'[e] = IF e = c THEN s ELSE call[e]
             /\ s.pc = label /\ s.file = call[c].file /\ s.digest = call[c].digest
  BY CallFacts DEF Goto, CallState, Durable, TypeOK, Shape, Own

\* Write: the bytes of a file under no final name become whole.
LEMMA WriteDurable ==
  ASSUME Durable, NEW c \in Call, Write(c) PROVE Durable'
<1> DEFINE t == call[c].file
           s == [call[c] EXCEPT !.pc = "syncing"]
<1>1. /\ t \in Temp /\ Exclusive(c) /\ call[c].digest \in Digest /\ call[c] \in CallState
      /\ call[c].pc = "writing"
  BY CallFacts DEF Write, Own, Shape
<1>2. /\ call' = [call EXCEPT ![c] = s] /\ s \in CallState /\ Shape(s)
      /\ \A e \in Call : call'[e] = IF e = c THEN s ELSE call[e]
      /\ s.pc = "syncing" /\ s.file = t /\ s.digest = call[c].digest
  BY <1>1, GotoRecord DEF Write, PC
<1>3. bytes' \in [Temp -> Digest \cup {Partial, Rotten}]
  BY <1>1 DEF Write, Durable, TypeOK
<1>4. TypeOK' /\ \A e \in Call : Shape(call'[e])
  BY <1>2, <1>3 DEF Write, Durable, TypeOK, CallState, File
<1>5. bytes'[t] = call[c].digest /\ \A u \in Temp \ {t} : bytes'[u] = bytes[u]
  BY <1>1 DEF Write, Durable, TypeOK
<1>6. \A d \in Digest : \A u \in onDisk[d] \cup {dir[d]} : u # Absent => u \in Temp /\ u # t
  BY <1>1 DEF Durable, NamesInOrder, Exclusive, Name, TypeOK
<1>7. NamesInOrder' /\ NoPartialBlob'
  BY <1>5, <1>6 DEF Write, Durable, NamesInOrder, NoPartialBlob
<1>8. OwnersInOrder'
  <2> SUFFICES ASSUME NEW e \in Call, call'[e].pc \in Own
               PROVE  Exclusive(e)' /\ Written(e)'
    BY DEF OwnersInOrder
  <2>1. call[e].pc \in Own /\ call'[e].file = call[e].file /\ Exclusive(e) /\ Written(e)
        /\ call[e].file \in Temp
    BY <1>1, <1>2, CallFacts DEF Own
  <2>2. Exclusive(e)'
    BY <2>1, <1>2 DEF Exclusive, Write
  <2>3. Written(e)'
    BY <2>1, <1>1, <1>2, <1>5 DEF Written, Exclusive, Write
  <2> QED
    BY <2>2, <2>3
<1>9. SettledInOrder' /\ ReceiptsFinal'
  <2>1. \A d \in Digest : (Verified(d) => Verified(d)') /\ (Final(d) => Final(d)')
    BY <1>5, <1>6 DEF Verified, Final, Write
  <2> QED
    BY <2>1, <1>2 DEF Durable, SettledInOrder, ReceiptsFinal, Settled, Write, TypeOK, Shape
<1> QED
  BY <1>4, <1>7, <1>8, <1>9 DEF Durable

\* Sync of an adopted file or of an owned one: more files are on disk.
LEMMA SyncDurable ==
  ASSUME Durable, NEW c \in Call, Adopt(c) \/ SyncFile(c) PROVE Durable'
<1> DEFINE t == call[c].file
<1>1. PICK label \in {"syncingDirectory", "renaming"} :
        /\ Goto(c, label) /\ synced' = synced \cup {t}
        /\ call[c].pc = IF label = "renaming" THEN "syncing" ELSE "adopting"
        /\ UNCHANGED <<dir, onDisk, bytes, receipts, sweeping>>
  BY DEF Adopt, SyncFile, Synced, AfterAdoption
<1>2. t \in Temp /\ call[c].digest \in Digest
  BY <1>1, CallFacts DEF Shape, Own
<1> DEFINE s == [call[c] EXCEPT !.pc = label]
<1>3. /\ call' = [call EXCEPT ![c] = s] /\ s \in CallState /\ Shape(s)
      /\ \A e \in Call : call'[e] = IF e = c THEN s ELSE call[e]
      /\ s.pc = label /\ s.file = t /\ s.digest = call[c].digest
  BY <1>1, <1>2, GotoRecord DEF PC
<1>4. TypeOK' /\ \A e \in Call : Shape(call'[e])
  BY <1>1, <1>2, <1>3 DEF Durable, TypeOK, CallState, File
<1>5. NamesInOrder' /\ NoPartialBlob'
  BY <1>1 DEF Durable, NamesInOrder, NoPartialBlob
<1>6. OwnersInOrder'
  <2> SUFFICES ASSUME NEW e \in Call, call'[e].pc \in Own
               PROVE  Exclusive(e)' /\ Written(e)'
    BY DEF OwnersInOrder
  <2>1. call[e].pc \in Own /\ call'[e].file = call[e].file /\ Exclusive(e) /\ Written(e)
        /\ call'[e].digest = call[e].digest
    BY <1>1, <1>3, CallFacts DEF Own
  <2>2. Exclusive(e)'
    BY <2>1, <1>1, <1>3 DEF Exclusive
  <2>3. Written(e)'
    BY <2>1, <1>1, <1>3 DEF Written
  <2> QED
    BY <2>2, <2>3
<1>7. SettledInOrder' /\ ReceiptsFinal'
  BY <1>1, <1>3 DEF Durable, SettledInOrder, ReceiptsFinal, Verified, Final, Settled
<1> QED
  BY <1>4, <1>5, <1>6, <1>7 DEF Durable

\* Create: a name in use nowhere.
LEMMA CreateDurable ==
  ASSUME Durable, NEW c \in Call, Create(c) PROVE Durable'
<1>1. PICK t \in Temp :
        /\ Fresh(t)
        /\ dir' = [dir EXCEPT ![t] = t]
        /\ onDisk' = Pending(t, t)
        /\ bytes' = [bytes EXCEPT ![t] = Partial]
        /\ synced' = synced \ {t}
        /\ call' = [call EXCEPT ![c].pc = "writing", ![c].file = t]
  BY DEF Create
<1> DEFINE s == [call[c] EXCEPT !.pc = "writing", !.file = t]
<1>2. call[c] \in CallState /\ call[c].digest \in Digest
  BY CallFacts DEF Create, Shape
<1>3. s \in CallState /\ Shape(s) /\ s.pc = "writing" /\ s.file = t
  BY <1>2 DEF CallState, PC, File, Shape
<1>4. \A e \in Call : call'[e] = IF e = c THEN s ELSE call[e]
  BY <1>1, <1>2 DEF CallState, Durable, TypeOK
<1>5. /\ \A n \in Name : dir'[n] = IF n = t THEN t ELSE dir[n]
      /\ \A n \in Name : onDisk'[n] = IF n = t THEN onDisk[t] \cup {t} ELSE onDisk[n]
      /\ \A u \in Temp : bytes'[u] = IF u = t THEN Partial ELSE bytes[u]
      /\ \A n \in Name : dir[n] # t /\ t \notin onDisk[n]
      /\ \A e \in Call : call[e].file # t
      /\ \A d \in Digest : d \in Name /\ d # t /\ dir[d] \in onDisk[d]
  BY <1>1, NamesAssumption DEF Pending, Fresh, Durable, TypeOK, Name, NamesInOrder
<1>6. TypeOK' /\ \A e \in Call : Shape(call'[e])
  <2>1. call' \in [Call -> CallState]
    BY <1>1, <1>2 DEF CallState, PC, File, Durable, TypeOK
  <2>2. \A e \in Call : call'[e].pc = "idle" => call'[e] = Idle
    BY <1>3, <1>4 DEF Durable, TypeOK
  <2>3. dir' \in [Name -> File] /\ onDisk' \in [Name -> SUBSET File]
    BY <1>1 DEF Pending, Durable, TypeOK, File, Name
  <2>4. bytes' \in [Temp -> Digest \cup {Partial, Rotten}] /\ synced' \subseteq Temp
        /\ receipts' \subseteq Digest /\ sweeping' \in BOOLEAN
    BY <1>1 DEF Create, Durable, TypeOK
  <2>5. \A e \in Call : Shape(call'[e])
    BY <1>3, <1>4 DEF Durable
  <2> QED
    BY <2>1, <2>2, <2>3, <2>4, <2>5 DEF TypeOK, CallState, File
<1>7. NamesInOrder'
  BY <1>5 DEF Durable, NamesInOrder, Name
<1>8. NoPartialBlob'
  <2> SUFFICES ASSUME NEW d \in Digest, NEW u \in onDisk'[d] \cup {dir'[d]}, u # Absent
               PROVE  u \in synced' /\ bytes'[u] \in {d, Rotten}
    BY DEF NoPartialBlob
  <2>1. u \in onDisk[d] \cup {dir[d]} /\ u # t
    BY <1>5
  <2>2. u \in synced /\ bytes[u] \in {d, Rotten} /\ u \in Temp
    BY <2>1 DEF Durable, NoPartialBlob, TypeOK
  <2> QED
    BY <2>1, <2>2, <1>1, <1>5
<1>9. OwnersInOrder'
  <2> SUFFICES ASSUME NEW e \in Call, call'[e].pc \in Own
               PROVE  Exclusive(e)' /\ Written(e)'
    BY DEF OwnersInOrder
  <2>1. CASE e = c
    <3>1. call'[e] = s
      BY <1>4, <2>1
    <3> QED
      BY <3>1, <1>3, <1>4, <1>5, <2>1 DEF Exclusive, Written
  <2>2. CASE e # c
    <3>1. call'[e] = call[e] /\ call[e].file \in Temp /\ Exclusive(e) /\ Written(e) /\ call[e].file # t
      BY <2>2, <1>4, <1>5, CallFacts
    <3>2. Exclusive(e)'
      BY <3>1, <1>3, <1>4, <1>5 DEF Exclusive
    <3>3. Written(e)'
      BY <3>1, <1>1, <1>5 DEF Written
    <3> QED
      BY <3>2, <3>3
  <2> QED
    BY <2>1, <2>2
<1>10. SettledInOrder' /\ ReceiptsFinal'
  <2>1. \A d \in Digest : \A u \in onDisk[d] \cup {dir[d]} : u # Absent => u \in Temp \ {t}
    BY <1>5 DEF Durable, TypeOK, Name
  <2>2. \A d \in Digest : (Verified(d) => Verified(d)') /\ (Final(d) => Final(d)')
    BY <1>5, <2>1 DEF Verified, Final
  <2> QED
    BY <2>2, <1>3, <1>4 DEF Durable, SettledInOrder, ReceiptsFinal, Settled, Create, TypeOK, Shape
<1> QED
  BY <1>6, <1>7, <1>8, <1>9, <1>10 DEF Durable

\* Rename: a whole file under a final name.
LEMMA RenameDurable ==
  ASSUME Durable, NEW c \in Call, Rename(c) PROVE Durable'
<1>0. PICK t \in Temp, d \in Digest : t = call[c].file /\ d = call[c].digest
  BY CallFacts DEF Rename, Own, Shape
<1> DEFINE s == [call[c] EXCEPT !.pc = "syncingDirectory"]
<1>1. /\ call[c] \in CallState /\ call[c].pc = "renaming"
      /\ Exclusive(c) /\ bytes[t] = d /\ t \in synced
  BY <1>0, CallFacts DEF Rename, Own, Written
<1>2. CASE dir[t] = Absent
  <2>1. Return(c) /\ UNCHANGED <<disk, sweeping, receipts>>
    BY <1>0, <1>2 DEF Rename, disk
  <2>2. receipts' \subseteq Digest /\ ReceiptsFinal'
    BY <2>1 DEF Durable, TypeOK, ReceiptsFinal, Final, disk
  <2> QED
    BY <2>1, <2>2, ReturnStep
<1>3. CASE dir[t] # Absent
  <2>1. /\ dir' = [dir EXCEPT ![d] = t, ![t] = Absent]
        /\ onDisk' = [onDisk EXCEPT ![d] = @ \cup {t}, ![t] = @ \cup {Absent}]
        /\ Goto(c, "syncingDirectory")
        /\ UNCHANGED <<bytes, synced, receipts, sweeping>>
    BY <1>0, <1>3 DEF Rename
  <2>2. /\ call' = [call EXCEPT ![c] = s] /\ s \in CallState /\ Shape(s)
        /\ \A e \in Call : call'[e] = IF e = c THEN s ELSE call[e]
        /\ s.pc = "syncingDirectory" /\ s.file = t /\ s.digest = d
    BY <1>0, <1>1, <2>1, GotoRecord DEF PC, Own
  <2>3. d \in Name /\ t \in Name /\ d # t
    BY <1>1, NamesAssumption DEF Name
  <2>4. /\ \A n \in Name : dir'[n] = IF n = d THEN t ELSE IF n = t THEN Absent ELSE dir[n]
        /\ \A n \in Name : onDisk'[n] = IF n = d THEN onDisk[d] \cup {t}
                                       ELSE IF n = t THEN onDisk[t] \cup {Absent} ELSE onDisk[n]
    BY <2>1, <2>3 DEF Durable, TypeOK
  <2>5. TypeOK' /\ \A e \in Call : Shape(call'[e])
    <3>1. dir' \in [Name -> File]
      BY <1>1, <2>1 DEF Durable, TypeOK, File
    <3>2. onDisk' \in [Name -> SUBSET File]
      <4>1. onDisk \in [Name -> SUBSET File] /\ t \in File /\ Absent \in File
        BY <1>1 DEF Durable, TypeOK, File
      <4>2. onDisk[d] \cup {t} \in SUBSET File /\ onDisk[t] \cup {Absent} \in SUBSET File
        BY <4>1, <2>3
      <4> QED
        BY <4>1, <4>2, <2>1, <2>3
    <3> QED
      BY <2>1, <2>2, <3>1, <3>2 DEF Durable, TypeOK, CallState, File
  <2>6. NamesInOrder'
    <3>1. \A u \in Temp : u # d /\ u \in Name
      BY <1>1, NamesAssumption DEF Name
    <3> QED
      BY <2>3, <2>4, <3>1 DEF Durable, NamesInOrder
  <2>7. NoPartialBlob'
    <3>1. \A b \in Digest : b # t /\ b \in Name
      BY <1>1, NamesAssumption DEF Name
    <3> QED
      BY <1>1, <2>1, <2>4, <3>1 DEF Durable, NoPartialBlob
  <2>8. OwnersInOrder'
    <3> SUFFICES ASSUME NEW e \in Call, call'[e].pc \in Own
                 PROVE  Exclusive(e)' /\ Written(e)'
      BY DEF OwnersInOrder
    <3>1. e # c /\ call'[e] = call[e] /\ Exclusive(e) /\ Written(e) /\ call[e].file # t
      BY <1>0, <2>2, CallFacts DEF Own, Exclusive
    <3>2. \A b \in Digest : b # t /\ b \in Name
      BY <1>1, NamesAssumption DEF Name
    <3>3. Exclusive(e)'
      BY <3>1, <3>2, <2>2, <2>4 DEF Exclusive
    <3>4. Written(e)'
      BY <3>1, <2>1 DEF Written
    <3> QED
      BY <3>3, <3>4
  <2>9. SettledInOrder' /\ ReceiptsFinal'
    <3>1. \A b \in Digest : b # t /\ b \in Name
      BY <1>1, NamesAssumption DEF Name
    <3>2. Verified(d)'
      <4>1. dir'[d] = t /\ bytes' = bytes /\ t # Absent
        BY <2>1, <2>3, <2>4, NamesAssumption
      <4> QED
        BY <4>1, <1>1 DEF Verified
    <3>3. \A b \in Digest : Verified(b) => Verified(b)'
      BY <3>1, <3>2, <2>1, <2>4 DEF Verified
    <3>4. \A b \in Digest : Final(b) => Final(b)'
      BY <1>1, <3>1, <2>1, <2>4, NamesAssumption DEF Final
    <3> QED
      BY <3>2, <3>3, <3>4, <2>1, <2>2 DEF Durable, SettledInOrder, ReceiptsFinal, Settled, Shape, TypeOK
  <2> QED
    BY <2>5, <2>6, <2>7, <2>8, <2>9 DEF Durable
<1> QED
  BY <1>2, <1>3

\* A sync of the directory leaves on disk what it shows, and nothing else.
LEMMA InPlaceKeeps ==
  ASSUME Durable, onDisk' = InPlace, UNCHANGED <<dir, bytes, synced>>
  PROVE  /\ onDisk' \in [Name -> SUBSET File] /\ NamesInOrder' /\ NoPartialBlob'
         /\ \A n \in Name : onDisk'[n] \subseteq onDisk[n]
<1>1. \A n \in Name : onDisk'[n] = {dir[n]} /\ dir[n] \in onDisk[n] /\ dir[n] \in File
  BY DEF InPlace, Durable, TypeOK, NamesInOrder, File
<1>2. onDisk' \in [Name -> SUBSET File]
  BY <1>1 DEF InPlace
<1>3. \A d \in Digest : d \in Name
  BY DEF Name
<1>4. NamesInOrder' /\ NoPartialBlob'
  BY <1>1, <1>3 DEF Durable, NamesInOrder, NoPartialBlob, Name
<1> QED
  BY <1>1, <1>2, <1>4

\* The sync of a publisher makes its blob final, and hurts no other.
LEMMA SyncDirectoryDurable ==
  ASSUME Durable, NEW c \in Call, SyncDirectory(c) PROVE Durable'
<1> DEFINE s == [call[c] EXCEPT !.pc = "readback"]
<1>1. /\ call' = [call EXCEPT ![c] = s] /\ s \in CallState /\ Shape(s)
      /\ \A e \in Call : call'[e] = IF e = c THEN s ELSE call[e]
      /\ s.pc = "readback" /\ s.file = call[c].file /\ s.digest = call[c].digest
  BY GotoRecord DEF PC, Own, SyncDirectory
<1>2. Verified(call[c].digest) /\ call[c].digest \in Digest
  BY CallFacts DEF Durable, SettledInOrder, SyncDirectory, Settled, Shape
<1>3. TypeOK' /\ \A e \in Call : Shape(call'[e])
  BY <1>1, InPlaceKeeps DEF SyncDirectory, Durable, TypeOK, CallState, File
<1>4. NamesInOrder' /\ NoPartialBlob'
  BY InPlaceKeeps DEF SyncDirectory
<1>5. OwnersInOrder'
  <2> SUFFICES ASSUME NEW e \in Call, call'[e].pc \in Own
               PROVE  Exclusive(e)' /\ Written(e)'
    BY DEF OwnersInOrder
  <2>1. e # c /\ call'[e] = call[e] /\ Exclusive(e) /\ Written(e)
    BY <1>1, CallFacts DEF Own
  <2>2. Exclusive(e)'
    BY <2>1, <1>1, InPlaceKeeps DEF Exclusive, SyncDirectory, Name
  <2>3. Written(e)'
    BY <2>1 DEF Written, SyncDirectory
  <2> QED
    BY <2>2, <2>3
<1>6. SettledInOrder' /\ ReceiptsFinal'
  <2>1. /\ \A d \in Digest : onDisk'[d] = {dir[d]} /\ dir[d] \in onDisk[d]
        /\ dir' = dir /\ bytes' = bytes
    BY DEF SyncDirectory, InPlace, Name, Durable, NamesInOrder
  <2>2. \A e \in Call : call[e].pc \in Settled => call[e].digest \in Digest
    BY CallFacts DEF Settled, Shape
  <2>3. SettledInOrder'
    <3> SUFFICES ASSUME NEW e \in Call, call'[e].pc \in Settled
                 PROVE  Verified(call[e].digest)' /\ (call'[e].pc = "readback" => Final(call[e].digest)')
      BY DEF SettledInOrder, Settled
    <3>1. PICK d \in Digest : d = call[e].digest /\ d = call'[e].digest
      BY <1>1, <1>2, <2>2
    <3>2. Verified(d)
      BY <1>1, <1>2, <3>1 DEF Durable, SettledInOrder, Verified, Final
    <3>3. Verified(d)' /\ Final(d)'
      BY <2>1, <3>2 DEF Verified, Final
    <3> QED
      BY <3>1, <3>3 DEF Verified, Final
  <2>4. ReceiptsFinal'
    <3>1. receipts' = receipts /\ receipts \subseteq Digest
      BY DEF SyncDirectory, Durable, TypeOK
    <3> SUFFICES ASSUME NEW d \in receipts PROVE Final(d)'
      BY <3>1 DEF ReceiptsFinal
    <3> QED
      BY <2>1, <3>1 DEF Durable, ReceiptsFinal, Final
  <2> QED
    BY <2>3, <2>4
<1> QED
  BY <1>3, <1>4, <1>5, <1>6 DEF Durable

\* The unlink of a temporary name shows under no final name.
LEMMA UnlinkTemporary ==
  ASSUME Durable, NEW t \in Temp,
         dir' = [dir EXCEPT ![t] = Absent], onDisk' = Pending(t, Absent),
         UNCHANGED <<bytes, synced>>
  PROVE  /\ dir' \in [Name -> File] /\ onDisk' \in [Name -> SUBSET File]
         /\ NamesInOrder' /\ NoPartialBlob'
         /\ \A d \in Digest : dir'[d] = dir[d] /\ onDisk'[d] = onDisk[d]
<1>1. t \in Name /\ \A d \in Digest : d \in Name /\ d # t
  BY NamesAssumption DEF Name
<1>2. dir \in [Name -> File] /\ onDisk \in [Name -> SUBSET File] /\ Absent \in File
  BY DEF Durable, TypeOK, File
<1>3. dir' \in [Name -> File]
  BY <1>2
<1>4. onDisk' = [onDisk EXCEPT ![t] = onDisk[t] \cup {Absent}]
  BY <1>1, <1>2 DEF Pending
<1>5. onDisk[t] \cup {Absent} \in SUBSET File
  BY <1>1, <1>2
<1>6. onDisk' \in [Name -> SUBSET File]
  BY <1>2, <1>4, <1>5
<1>7. \A d \in Digest : dir'[d] = dir[d] /\ onDisk'[d] = onDisk[d]
  BY <1>1, <1>2, <1>4
<1>8. NamesInOrder'
  BY <1>1, <1>2, <1>4 DEF Durable, NamesInOrder, Name
<1>9. NoPartialBlob'
  BY <1>7 DEF Durable, NoPartialBlob
<1> QED
  BY <1>3, <1>6, <1>7, <1>8, <1>9

\* A step that changes no file under a final name keeps what is said of the
\* calls, as long as these stay as they are or return.
LEMMA CallsKept ==
  ASSUME Durable, UNCHANGED <<bytes, synced, receipts>>,
         \A d \in Digest : dir'[d] = dir[d] /\ onDisk'[d] = onDisk[d],
         \A e \in Call : call'[e] \in {call[e], Idle}
  PROVE  OwnersInOrder' /\ SettledInOrder' /\ ReceiptsFinal'
<1>1. OwnersInOrder'
  <2> SUFFICES ASSUME NEW c \in Call, call'[c].pc \in Own
               PROVE  Exclusive(c)' /\ Written(c)'
    BY DEF OwnersInOrder
  <2>1. call'[c] = call[c] /\ Exclusive(c) /\ Written(c) /\ call[c].file \in Temp
    BY CallFacts, IdleShape DEF Own
  <2>2. \A e \in Call \ {c} : call'[e].file # call[c].file
    BY <2>1, IdleShape, NamesAssumption DEF Exclusive
  <2> QED
    BY <2>1, <2>2 DEF Exclusive, Written
<1>2. SettledInOrder'
  <2> SUFFICES ASSUME NEW c \in Call, call'[c].pc \in Settled
               PROVE  /\ Verified(call[c].digest)'
                      /\ call'[c].pc = "readback" => Final(call[c].digest)'
    BY DEF SettledInOrder, Settled
  <2>1. call'[c] = call[c] /\ call[c].digest \in Digest
    BY CallFacts, IdleShape DEF Settled, Shape
  <2> QED
    BY <2>1 DEF Durable, SettledInOrder, Verified, Final
<1>3. ReceiptsFinal'
  BY DEF Durable, ReceiptsFinal, Final, TypeOK
<1> QED
  BY <1>1, <1>2, <1>3

\* The collector unlinks a temporary file, its owner may live.
LEMMA CollectTemporaryDurable ==
  ASSUME Durable, NEW t \in Temp, CollectTemporary(t) PROVE Durable'
<1>1. /\ dir' \in [Name -> File] /\ onDisk' \in [Name -> SUBSET File]
      /\ NamesInOrder' /\ NoPartialBlob'
      /\ \A d \in Digest : dir'[d] = dir[d] /\ onDisk'[d] = onDisk[d]
  BY UnlinkTemporary DEF CollectTemporary
<1>2. OwnersInOrder' /\ SettledInOrder' /\ ReceiptsFinal'
  BY <1>1, CallsKept DEF CollectTemporary
<1> QED
  BY <1>1, <1>2 DEF Durable, CollectTemporary, TypeOK, File

\* A failed call returns, its temporary file unlinked or left.
LEMMA FailDurable ==
  ASSUME Durable, NEW c \in Call, Fail(c) PROVE Durable'
<1>1. CASE UNCHANGED <<dir, onDisk>>
  <2>1. UNCHANGED <<disk, sweeping>> /\ Return(c)
    BY <1>1 DEF Fail, disk
  <2>2. receipts' \subseteq Digest /\ ReceiptsFinal'
    BY <1>1 DEF Fail, Durable, TypeOK, ReceiptsFinal, Final
  <2> QED
    BY <2>1, <2>2, ReturnStep
<1>2. CASE \E t \in Temp : dir' = [dir EXCEPT ![t] = Absent] /\ onDisk' = Pending(t, Absent)
  <2>1. UNCHANGED <<bytes, synced, receipts, sweeping>>
    BY DEF Fail
  <2>2. /\ dir' \in [Name -> File] /\ onDisk' \in [Name -> SUBSET File]
        /\ NamesInOrder' /\ NoPartialBlob'
        /\ \A d \in Digest : dir'[d] = dir[d] /\ onDisk'[d] = onDisk[d]
    BY <1>2, <2>1, UnlinkTemporary
  <2>3. call' \in [Call -> CallState] /\ \A e \in Call : call'[e] \in {call[e], Idle}
    BY IdleShape DEF Fail, Return, Durable, TypeOK, CallState, File
  <2>4. OwnersInOrder' /\ SettledInOrder' /\ ReceiptsFinal'
    BY <2>1, <2>2, <2>3, CallsKept
  <2>5. \A e \in Call : Shape(call'[e]) /\ (call'[e].pc = "idle" => call'[e] = Idle)
    BY <2>3, IdleShape, CallFacts
  <2> QED
    BY <2>1, <2>2, <2>3, <2>4, <2>5 DEF Durable, TypeOK, CallState, File
<1> QED
  <2>1. UNCHANGED <<dir, onDisk>>
        \/ (call[c].file \in Temp /\ dir' = [dir EXCEPT ![call[c].file] = Absent]
            /\ onDisk' = Pending(call[c].file, Absent))
    BY CallFacts DEF Fail, Own
  <2> QED
    BY <1>1, <1>2, <2>1

\* The directory is synced by the collector, or not.
LEMMA CollectorEndsDurable ==
  ASSUME Durable, CollectorEnds PROVE Durable'
<1>1. UNCHANGED <<dir, bytes, synced, receipts, call>> /\ sweeping' = FALSE
  BY DEF CollectorEnds
<1>2. \A n \in Name : onDisk'[n] \subseteq onDisk[n]
  BY <1>1, InPlaceKeeps DEF CollectorEnds
<1>3. onDisk' \in [Name -> SUBSET File] /\ NamesInOrder' /\ NoPartialBlob'
  <2>1. CASE onDisk' = InPlace
    BY <1>1, <2>1, InPlaceKeeps
  <2>2. CASE onDisk' = onDisk
    BY <1>1, <2>2 DEF Durable, TypeOK, File, NamesInOrder, NoPartialBlob
  <2> QED
    BY <2>1, <2>2 DEF CollectorEnds
<1>4. TypeOK' /\ \A c \in Call : Shape(call'[c])
  BY <1>1, <1>3 DEF Durable, TypeOK, File
<1>5. OwnersInOrder'
  BY <1>1, <1>2 DEF Durable, OwnersInOrder, Exclusive, Written, Name
<1>6. \A d \in Digest : onDisk'[d] \subseteq onDisk[d]
  BY <1>2 DEF Name
<1>7. SettledInOrder' /\ ReceiptsFinal'
  <2>1. ReceiptsFinal'
    BY <1>1, <1>6 DEF Durable, ReceiptsFinal, Final, TypeOK
  <2>2. SettledInOrder'
    BY <1>1, <1>6, CallFacts DEF Durable, SettledInOrder, Verified, Final, Shape
  <2> QED
    BY <2>1, <2>2
<1> QED
  BY <1>3, <1>4, <1>5, <1>7 DEF Durable

\* The collector unlinks a blob that nobody publishes.
LEMMA CollectBlobDurable ==
  ASSUME Durable, NEW d \in Digest, CollectBlob(d) PROVE Durable'
<1>1. d \in Name /\ (\A t \in Temp : t # d) /\ \A b \in Digest : b \in Name
  BY NamesAssumption DEF Name
<1>2. dir \in [Name -> File] /\ onDisk \in [Name -> SUBSET File] /\ Absent \in File
  BY DEF Durable, TypeOK, File
<1>3. onDisk' = [onDisk EXCEPT ![d] = onDisk[d] \cup {Absent}] /\ dir' = [dir EXCEPT ![d] = Absent]
  BY <1>1, <1>2 DEF CollectBlob, Pending
<1>4. onDisk[d] \cup {Absent} \in SUBSET File
  BY <1>1, <1>2
<1>5. dir' \in [Name -> File] /\ onDisk' \in [Name -> SUBSET File]
  BY <1>2, <1>3, <1>4
<1>6. UNCHANGED <<bytes, synced, call>> /\ receipts' = receipts \ {d} /\ sweeping' = TRUE
  BY DEF CollectBlob
<1>7. TypeOK' /\ \A c \in Call : Shape(call'[c])
  BY <1>5, <1>6 DEF Durable, TypeOK, File
<1>8. \A n \in Name : /\ dir'[n] = IF n = d THEN Absent ELSE dir[n]
                      /\ onDisk'[n] = IF n = d THEN onDisk[d] \cup {Absent} ELSE onDisk[n]
  BY <1>2, <1>3
<1>9. NamesInOrder'
  BY <1>1, <1>8 DEF Durable, NamesInOrder, Name
<1>10. NoPartialBlob'
  BY <1>1, <1>6, <1>8 DEF Durable, NoPartialBlob
<1>11. OwnersInOrder'
  <2> SUFFICES ASSUME NEW c \in Call, call'[c].pc \in Own
               PROVE  Exclusive(c)' /\ Written(c)'
    BY DEF OwnersInOrder
  <2>1. call' = call /\ Exclusive(c) /\ Written(c) /\ call[c].file # Absent
    BY <1>6, CallFacts, NamesAssumption
  <2> QED
    BY <1>1, <1>6, <1>8, <2>1 DEF Exclusive, Written
<1>12. SettledInOrder'
  <2> SUFFICES ASSUME NEW c \in Call, call[c].pc \in Settled
               PROVE  /\ Verified(call[c].digest)'
                      /\ call[c].pc = "readback" => Final(call[c].digest)'
    BY <1>6 DEF SettledInOrder, Settled
  <2>1. call[c].digest \in Digest \ {d}
    BY CallFacts DEF CollectBlob, Settling, Settled, Shape
  <2>2. dir'[call[c].digest] = dir[call[c].digest] /\ onDisk'[call[c].digest] = onDisk[call[c].digest]
    BY <1>1, <1>8, <2>1
  <2> QED
    BY <1>6, <2>2 DEF Durable, SettledInOrder, Verified, Final
<1>13. ReceiptsFinal'
  <2> SUFFICES ASSUME NEW b \in receipts \ {d} PROVE Final(b)'
    BY <1>6 DEF ReceiptsFinal
  <2>1. onDisk'[b] = onDisk[b]
    BY <1>1, <1>8 DEF Durable, TypeOK
  <2> QED
    BY <1>6, <2>1 DEF Durable, ReceiptsFinal, Final
<1> QED
  BY <1>7, <1>9, <1>10, <1>11, <1>12, <1>13 DEF Durable

\* Bit rot: the file has only this one digest, so no other blob is hurt.
LEMMA RotDurable ==
  ASSUME Durable, NEW d \in Digest, Rot(d) PROVE Durable'
<1>1. PICK f \in Temp : f = dir[d] /\ bytes[f] = d /\ f \in onDisk[d]
  BY DEF Rot, Verified, Durable, TypeOK, NamesInOrder, Name
<1>2. UNCHANGED <<dir, onDisk, synced, call, sweeping>> /\ receipts' = receipts \ {d}
  BY DEF Rot
<1>3. \A t \in Temp : bytes'[t] = IF t = f THEN Rotten ELSE bytes[t]
  BY <1>1 DEF Rot, Durable, TypeOK
<1>4. TypeOK' /\ \A c \in Call : Shape(call'[c])
  <2>1. bytes' \in [Temp -> Digest \cup {Partial, Rotten}]
    BY <1>1 DEF Rot, Durable, TypeOK
  <2> QED
    BY <1>2, <2>1 DEF Durable, TypeOK
<1>5. NamesInOrder'
  BY <1>2 DEF Durable, NamesInOrder
<1>6. NoPartialBlob'
  BY <1>2, <1>3 DEF Durable, NoPartialBlob, TypeOK
<1>7. OwnersInOrder'
  <2> SUFFICES ASSUME NEW c \in Call, call[c].pc \in Own
               PROVE  Exclusive(c)' /\ Written(c)'
    BY <1>2 DEF OwnersInOrder
  <2>1. Exclusive(c) /\ Written(c) /\ call[c].file \in Temp /\ call[c].file # f
    BY <1>1, CallFacts DEF Exclusive
  <2> QED
    BY <1>2, <1>3, <2>1 DEF Exclusive, Written
\* What is known of another digest does not concern the file that rots.
<1>8. ASSUME NEW b \in Digest, b # d
      PROVE  (Verified(b) => Verified(b)') /\ (Final(b) => Final(b)')
  <2>1. b \in Name
    BY DEF Name
  <2>2. onDisk[b] \subseteq File /\ dir[b] \in File
    BY <2>1 DEF Durable, TypeOK, File
  <2> QED
    BY <1>1, <1>2, <1>3, <1>8, <2>2 DEF Verified, Final, File
<1>9. SettledInOrder'
  <2> SUFFICES ASSUME NEW c \in Call, call[c].pc \in Settled
               PROVE  /\ Verified(call[c].digest)'
                      /\ call[c].pc = "readback" => Final(call[c].digest)'
    BY <1>2 DEF SettledInOrder, Settled
  <2>1. PICK b \in Digest : b = call[c].digest /\ b # d
    BY CallFacts DEF Rot, Settling, Settled, Shape
  <2>2. Verified(b)' /\ (call[c].pc = "readback" => Final(b)')
    BY <1>8, <2>1 DEF Durable, SettledInOrder
  <2> QED
    BY <1>2, <2>1, <2>2 DEF Verified, Final
<1>10. ReceiptsFinal'
  <2> SUFFICES ASSUME NEW b \in receipts \ {d} PROVE Final(b)'
    BY <1>2 DEF ReceiptsFinal
  <2>1. b \in Digest /\ b # d /\ Final(b)
    BY DEF Durable, TypeOK, ReceiptsFinal
  <2> QED
    BY <1>8, <2>1
<1> QED
  BY <1>4, <1>5, <1>6, <1>7, <1>9, <1>10 DEF Durable

\* A crash of the host: synced bytes are kept, and what is seen is final.
LEMMA HostCrashDurable ==
  ASSUME Durable, HostCrash PROVE Durable'
<1>1. /\ dir' \in [Name -> File] /\ \A n \in Name : dir'[n] \in onDisk[n]
      /\ onDisk' = [n \in Name |-> {dir'[n]}]
      /\ bytes' \in [Temp -> Digest \cup {Partial, Rotten}]
      /\ synced' = Temp /\ sweeping' = FALSE /\ call' = [c \in Call |-> Idle]
      /\ receipts' = receipts
  BY DEF HostCrash, File
<1>2. \A t \in synced : bytes'[t] = bytes[t]
  BY DEF HostCrash, Durable, TypeOK
<1>3. onDisk' \in [Name -> SUBSET File] /\ \A n \in Name : onDisk'[n] = {dir'[n]}
  BY <1>1
<1>4. TypeOK' /\ \A c \in Call : Shape(call'[c])
  BY <1>1, <1>3, IdleShape DEF Durable, TypeOK, CallState, File
<1>5. NamesInOrder'
  BY <1>1, <1>3 DEF Durable, NamesInOrder, Name
<1>6. \A d \in Digest : d \in Name
  BY DEF Name
<1>7. NoPartialBlob'
  <2> SUFFICES ASSUME NEW d \in Digest, NEW t \in onDisk'[d] \cup {dir'[d]}, t # Absent
               PROVE  t \in synced' /\ bytes'[t] \in {d, Rotten}
    BY DEF NoPartialBlob
  <2>1. t \in onDisk[d] /\ t \in Temp
    BY <1>1, <1>3, <1>6 DEF File
  <2> QED
    BY <1>1, <1>2, <2>1 DEF Durable, NoPartialBlob
<1>8. OwnersInOrder' /\ SettledInOrder'
  BY <1>1, IdleShape DEF OwnersInOrder, SettledInOrder, Own, Settled
<1>9. ReceiptsFinal'
  <2> SUFFICES ASSUME NEW d \in receipts, NEW t \in onDisk'[d]
               PROVE  t # Absent /\ bytes'[t] = d
    BY <1>1 DEF ReceiptsFinal, Final
  <2>1. d \in Digest /\ t \in onDisk[d]
    BY <1>1, <1>3, <1>6 DEF Durable, TypeOK
  <2>2. t # Absent /\ bytes[t] = d /\ t \in synced
    BY <2>1 DEF Durable, ReceiptsFinal, Final, NoPartialBlob
  <2> QED
    BY <1>2, <2>2
<1> QED
  BY <1>4, <1>5, <1>7, <1>8, <1>9 DEF Durable

\* A step that changes nothing.
LEMMA StutterDurable == Durable /\ UNCHANGED vars => Durable'
  BY DEF vars, Durable, TypeOK, Shape, NamesInOrder, OwnersInOrder, Exclusive, Written,
         NoPartialBlob, SettledInOrder, Verified, ReceiptsFinal, Final

\* Durable is inductive.
LEMMA NextDurable == Durable /\ [Next]_vars => Durable'
<1> SUFFICES ASSUME Durable, [Next]_vars PROVE Durable'
  OBVIOUS
<1>1. ASSUME NEW c \in Call, Step(c) PROVE Durable'
  BY <1>1, VerifyDurable, OpenExistingDurable, SyncDurable, CreateDurable, WriteDurable,
     RenameDurable, SyncDirectoryDurable, ReadbackDurable DEF Step
<1>2. ASSUME NEW c \in Call, Fail(c) \/ \E d \in Digest : Publish(c, d) PROVE Durable'
  BY <1>2, FailDurable, PublishDurable
<1>3. ASSUME NEW d \in Digest, Rot(d) \/ CollectBlob(d) PROVE Durable'
  BY <1>3, RotDurable, CollectBlobDurable
<1>4. ASSUME NEW t \in Temp, CollectTemporary(t) PROVE Durable'
  BY <1>4, CollectTemporaryDurable
<1>5. CASE CollectorEnds \/ HostCrash
  BY <1>5, CollectorEndsDurable, HostCrashDurable
<1>6. CASE UNCHANGED vars
  BY <1>6, StutterDurable
<1> QED
  BY <1>1, <1>2, <1>3, <1>4, <1>5, <1>6 DEF Next

-----------------------------------------------------------------------------
(* Theorems.                                                               *)

\* The invariant holds of every behaviour of the replica store.
THEOREM StoreDurable == Spec => []Durable
  BY InitDurable, NextDurable, PTL DEF Spec

\* Every variable of the replica store stays in its domain.
THEOREM StoreTypes == Spec => []TypeOK
  BY StoreDurable, PTL DEF Durable

\* No reader ever finds a partial file under the name of a digest, neither
\* while blobs are published nor after a crash of the host in between.
THEOREM StoreWhole == Spec => []NoPartialBlob
  BY StoreDurable, PTL DEF Durable

-----------------------------------------------------------------------------
(* The replica store implements DurableBlobs.                              *)

\* A verified blob is seen as such.
LEMMA SeenVerified ==
  ASSUME NEW d \in Digest
  PROVE  Verified(d) => Seen(d) = "verified"
  BY DEF Seen, Verified

\* A digest with a receipt is verified.
LEMMA ReceiptVerified ==
  ASSUME Durable, NEW d \in receipts
  PROVE  d \in Digest /\ Verified(d)
  BY DEF Durable, ReceiptsFinal, Final, NamesInOrder, Name, TypeOK, Verified

\* The steps that show nothing to a reader, and neither give nor take a
\* receipt.
LEMMA HiddenStep ==
  ASSUME receipts' = receipts,
         \A d \in Digest : /\ dir'[d] = dir[d]
                           /\ dir[d] # Absent => bytes'[dir[d]] = bytes[dir[d]]
  PROVE  UNCHANGED <<[d \in Digest |-> Seen(d)], receipts>>
<1>1. ASSUME NEW d \in Digest
      PROVE  Verified(d)' <=> Verified(d)
  BY DEF Verified
<1>2. ASSUME NEW d \in Digest
      PROVE  Seen(d)' = Seen(d)
  BY <1>1 DEF Seen
<1>3. [d \in Digest |-> Seen(d)]' = [d \in Digest |-> Seen(d)]
  BY <1>2, Zenon
<1> QED
  BY <1>3

\* The initial state of the replica store is one of DurableBlobs.
LEMMA InitBlobs == Init => Blobs!Init
<1> SUFFICES ASSUME Init PROVE Blobs!Init
  OBVIOUS
<1>1. ASSUME NEW d \in Digest
      PROVE  Seen(d) = "missing"
  <2>1. d \in Name /\ dir[d] = Absent
    BY DEF Init, Name
  <2> QED
    BY <2>1 DEF Seen, Verified
<1> QED
  BY <1>1 DEF Init, Blobs!Init

\* Publications that complete: a rename places, a readback promises.
LEMMA RenameBlobs ==
  ASSUME Durable, NEW c \in Call, Rename(c)
  PROVE  Blobs!Next \/ UNCHANGED <<[d \in Digest |-> Seen(d)], receipts>>
<1>1. PICK t \in Temp, d \in Digest :
        t = call[c].file /\ d = call[c].digest /\ bytes[t] = d
  BY CallFacts DEF Rename, Own, Shape, Written
<1>2. CASE dir[t] = Absent
  BY <1>1, <1>2, HiddenStep DEF Rename
<1>3. CASE dir[t] # Absent
  <2>1. /\ dir' = [dir EXCEPT ![d] = t, ![t] = Absent] /\ UNCHANGED <<bytes, receipts>>
    BY <1>1, <1>3 DEF Rename
  <2>2. \A b \in Digest : b \in Name /\ b # t
    BY NamesAssumption DEF Name
  <2>3. \A b \in Digest : dir'[b] = IF b = d THEN t ELSE dir[b]
    BY <2>1, <2>2 DEF Durable, TypeOK
  <2>4. t # Absent
    BY NamesAssumption
  <2>5. [b \in Digest |-> Seen(b)]' = [[b \in Digest |-> Seen(b)] EXCEPT ![d] = "verified"]
    BY <1>1, <2>1, <2>3, <2>4 DEF Seen, Verified
  <2> QED
    BY <2>1, <2>5 DEF Blobs!Next, Blobs!Place
<1> QED
  BY <1>2, <1>3

\* A readback that finds the blob verified promises it.
LEMMA ReadbackBlobs ==
  ASSUME Durable, NEW c \in Call, Readback(c)
  PROVE  Blobs!Next
<1>1. PICK d \in Digest : d = call[c].digest
  BY CallFacts DEF Readback, Shape
<1>2. Verified(d)
  BY <1>1 DEF Durable, SettledInOrder, Settled, Readback
<1>3. receipts' = receipts \cup {d} /\ UNCHANGED disk
  BY <1>1, <1>2 DEF Readback
<1>4. [b \in Digest |-> Seen(b)]' = [b \in Digest |-> Seen(b)]
  BY <1>3 DEF disk, Seen, Verified
<1>5. [b \in Digest |-> Seen(b)][d] = "verified"
  BY <1>2, SeenVerified
<1> QED
  BY <1>3, <1>4, <1>5 DEF Blobs!Next, Blobs!Promise

\* A blob that is collected or rots is lost, and its receipt with it.
LEMMA LossBlobs ==
  ASSUME Durable, NEW d \in Digest, Rot(d) \/ CollectBlob(d)
  PROVE  Blobs!Next
<1>1. receipts' = receipts \ {d}
  BY DEF Rot, CollectBlob
<1>2. CASE Rot(d)
  <2>1. PICK f \in Temp : f = dir[d] /\ bytes[f] = d
    BY <1>2 DEF Rot, Verified, Durable, TypeOK, Name
  <2>2. dir' = dir /\ \A t \in Temp : bytes'[t] = IF t = f THEN Rotten ELSE bytes[t]
    BY <1>2, <2>1 DEF Rot, Durable, TypeOK
  <2>3. \A b \in Digest : dir[b] \in File /\ b # Rotten
    BY NamesAssumption DEF Durable, TypeOK, Name, File
  <2>4. \A b \in Digest : b # d => dir[b] # f
    BY <2>1, <2>3, NamesAssumption DEF Durable, NoPartialBlob
  <2>5. [b \in Digest |-> Seen(b)]' = [[b \in Digest |-> Seen(b)] EXCEPT ![d] = "corrupt"]
    BY <2>1, <2>2, <2>3, <2>4, NamesAssumption DEF Seen, Verified, File
  <2> QED
    BY <1>1, <2>5 DEF Blobs!Next, Blobs!Lose
<1>3. CASE CollectBlob(d)
  <2>1. bytes' = bytes /\ \A b \in Digest : dir'[b] = IF b = d THEN Absent ELSE dir[b]
    BY <1>3 DEF CollectBlob, Durable, TypeOK, Name
  <2>2. [b \in Digest |-> Seen(b)]' = [[b \in Digest |-> Seen(b)] EXCEPT ![d] = "missing"]
    BY <2>1 DEF Seen, Verified
  <2> QED
    BY <1>1, <2>2 DEF Blobs!Next, Blobs!Lose
<1> QED
  BY <1>2, <1>3

\* After a crash each digest with a receipt still shows a verified blob.
LEMMA CrashBlobs ==
  ASSUME Durable, HostCrash
  PROVE  Blobs!Next
<1>1. Durable' /\ receipts' = receipts
  BY HostCrashDurable DEF HostCrash
<1>2. [b \in Digest |-> Seen(b)]' \in [Digest -> {"missing", "verified", "corrupt"}]
  BY DEF Seen
<1>3. ASSUME NEW d \in receipts
      PROVE  [b \in Digest |-> Seen(b)]'[d] = [b \in Digest |-> Seen(b)][d]
  <2>1. d \in Digest /\ Verified(d) /\ Verified(d)'
    BY <1>1, ReceiptVerified DEF Durable, ReceiptsFinal, Final, NamesInOrder, Name, TypeOK, Verified
  <2> QED
    BY <2>1 DEF Seen, Verified
<1> QED
  BY <1>1, <1>2, <1>3 DEF Blobs!Next, Blobs!Crash, Blobs!Status

\* Every step of the replica store is a step of DurableBlobs, or hidden.
LEMMA NextBlobs ==
  Durable /\ [Next]_vars => [Blobs!Next]_<<[d \in Digest |-> Seen(d)], receipts>>
<1> SUFFICES ASSUME Durable, [Next]_vars
             PROVE  Blobs!Next \/ UNCHANGED <<[d \in Digest |-> Seen(d)], receipts>>
  OBVIOUS
<1>1. ASSUME NEW c \in Call, \/ Verify(c) \/ OpenExisting(c) \/ Adopt(c) \/ SyncFile(c)
                              \/ SyncDirectory(c) \/ \E d \in Digest : Publish(c, d)
      PROVE  UNCHANGED <<[d \in Digest |-> Seen(d)], receipts>>
  BY <1>1, HiddenStep DEF Verify, OpenExisting, Adopt, SyncFile, SyncDirectory, Publish, disk
<1>2. ASSUME NEW c \in Call, Create(c)
      PROVE  UNCHANGED <<[d \in Digest |-> Seen(d)], receipts>>
  <2>1. PICK t \in Temp : /\ \A n \in Name : dir[n] # t
                          /\ dir' = [dir EXCEPT ![t] = t]
                          /\ bytes' = [bytes EXCEPT ![t] = Partial]
    BY <1>2 DEF Create, Fresh
  <2>2. \A d \in Digest : dir'[d] = dir[d] /\ dir[d] # t
    BY <2>1, NamesAssumption DEF Durable, TypeOK, Name
  <2>3. \A d \in Digest : dir[d] # Absent => bytes'[dir[d]] = bytes[dir[d]]
    BY <2>1, <2>2 DEF Durable, TypeOK, Name
  <2> QED
    BY <1>2, <2>2, <2>3, HiddenStep DEF Create
<1>3. ASSUME NEW c \in Call, Write(c)
      PROVE  UNCHANGED <<[d \in Digest |-> Seen(d)], receipts>>
  <2>1. \A d \in Digest : dir[d] # call[c].file
    BY <1>3, CallFacts DEF Write, Own, Exclusive, Durable, NamesInOrder, Name
  <2>2. \A d \in Digest : dir[d] # Absent => bytes'[dir[d]] = bytes[dir[d]]
    BY <1>3, <2>1 DEF Write, Durable, TypeOK, Name
  <2> QED
    BY <1>3, <2>2, HiddenStep DEF Write
<1>4. ASSUME NEW t \in Temp, dir' = [dir EXCEPT ![t] = Absent], UNCHANGED <<bytes, receipts>>
      PROVE  UNCHANGED <<[d \in Digest |-> Seen(d)], receipts>>
  <2>1. \A d \in Digest : dir'[d] = dir[d]
    BY <1>4, NamesAssumption DEF Durable, TypeOK, Name
  <2> QED
    BY <1>4, <2>1, HiddenStep
<1>5. ASSUME NEW c \in Call, Fail(c)
      PROVE  UNCHANGED <<[d \in Digest |-> Seen(d)], receipts>>
  <2>1. UNCHANGED dir \/ (call[c].file \in Temp /\ dir' = [dir EXCEPT ![call[c].file] = Absent])
    BY <1>5, CallFacts DEF Fail, Own
  <2>2. UNCHANGED <<bytes, receipts>>
    BY <1>5 DEF Fail
  <2> QED
    BY <1>4, <2>1, <2>2, HiddenStep
<1>6. ASSUME NEW t \in Temp, CollectTemporary(t)
      PROVE  UNCHANGED <<[d \in Digest |-> Seen(d)], receipts>>
  BY <1>4, <1>6 DEF CollectTemporary
<1>7. CASE CollectorEnds \/ UNCHANGED vars
  BY <1>7, HiddenStep DEF CollectorEnds, vars
<1> QED
  BY <1>1, <1>2, <1>3, <1>5, <1>6, <1>7, RenameBlobs, ReadbackBlobs, LossBlobs, CrashBlobs
  DEF Next, Step

\* A receipt survives every crash of the host, whichever of two publishers of
\* the same digest synced what, and in whatever order they renamed and adopted.
THEOREM StoreKeepsPromises == Spec => ReceiptsAreDurable
<1>1. Spec => [][Blobs!Next]_<<[d \in Digest |-> Seen(d)], receipts>>
  BY StoreDurable, NextBlobs, PTL DEF Spec
<1> QED
  BY <1>1, InitBlobs, PTL DEF Spec, ReceiptsAreDurable, Blobs!Spec
=============================================================================
