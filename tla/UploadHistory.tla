---------------------------- MODULE UploadHistory ----------------------------
(***************************************************************************)
(* What multipart uploads promise a client, with none of the machinery:    *)
(* every request takes effect in one step, at most once per identity.  An  *)
(* upload is opened, gets each of its parts once, and ends once: as an     *)
(* object of its parts or as nothing.                                      *)
(*                                                                         *)
(* The module is the abstract specification that Multipart implements.     *)
(***************************************************************************)
CONSTANTS Upload, Number, Mutation, Nothing

VARIABLES
  phase,     \* of each upload
  parts,     \* the bytes of each part that is there
  object,    \* what a completed upload became: the request and the content
  answered   \* requests that had their effect

vars == <<phase, parts, object, answered>>

\* The request identity of m has had no effect.
New(m) ==
  \A r \in answered :
    ~ /\ r.kind = m.kind /\ r.upload = m.upload /\ r.request = m.request
      /\ m.kind = "part" => r.number = m.number

Answer(m) == New(m) /\ answered' = answered \cup {m}

Open(u) ==
  /\ phase[u] = "none"
  /\ phase' = [phase EXCEPT ![u] = "open"]
  /\ UNCHANGED <<parts, object, answered>>

\* A part that is there may be put again with the same bytes.
PutPart(m) ==
  /\ m.kind = "part" /\ Answer(m)
  /\ phase[m.upload] = "open"
  /\ parts[m.upload][m.number] \in {Nothing, m.bytes}
  /\ parts' = [parts EXCEPT ![m.upload][m.number] = m.bytes]
  /\ UNCHANGED <<phase, object>>

\* All parts are there, and the key has no version if that was asked.
Complete(m) ==
  LET u == m.upload IN
  /\ m.kind = "complete" /\ Answer(m)
  /\ phase[u] = "open"
  /\ \A n \in Number : parts[u][n] # Nothing
  /\ m.pre = "absent" => \A w \in Upload : phase[w] # "completed"
  /\ phase' = [phase EXCEPT ![u] = "completed"]
  /\ object' = [object EXCEPT ![u] = [mut |-> m, content |-> parts[u]]]
  /\ UNCHANGED parts

\* A completion is repeated under another request key.
Confirm(m) ==
  /\ m.kind = "complete" /\ Answer(m)
  /\ phase[m.upload] = "completed" /\ object[m.upload].mut.pre = m.pre
  /\ UNCHANGED <<phase, parts, object>>

\* An upload ends as nothing, or had done so before.
End(m) ==
  /\ m.kind = "abort" /\ Answer(m)
  /\ \/ /\ phase[m.upload] = "open"
        /\ \E end \in {"aborted", "expired"} : phase' = [phase EXCEPT ![m.upload] = end]
     \/ phase[m.upload] \in {"aborted", "expired"} /\ UNCHANGED phase
  /\ UNCHANGED <<parts, object>>

Init ==
  /\ phase = [u \in Upload |-> "none"]
  /\ parts = [u \in Upload |-> [n \in Number |-> Nothing]]
  /\ object = [u \in Upload |-> Nothing]
  /\ answered = {}

Next ==
  \/ \E u \in Upload : Open(u)
  \/ \E m \in Mutation : PutPart(m) \/ Complete(m) \/ Confirm(m) \/ End(m)

Spec == Init /\ [][Next]_vars
=============================================================================
