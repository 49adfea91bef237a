--------------------------- MODULE ContextVersions ---------------------------
(***************************************************************************)
(* core/context/version_manager.py: snapshots of a context are stored as   *)
(* objects of a bucket that all the servers share.  Each server keeps, in  *)
(* its memory, the index of the versions it created and the snapshots it   *)
(* could not put into the bucket.                                          *)
(*                                                                         *)
(* A call of the bucket suspends the coroutine that makes it; it may raise *)
(* after it took effect.  Without a bucket an operation does not suspend.  *)
(* A server may crash and start again at any time.                         *)
(*                                                                         *)
(* A version id is a fresh uuid; here versions are numbered in the order   *)
(* of their created_at.                                                    *)
(***************************************************************************)
EXTENDS Integers, FiniteSets

CONSTANTS
    Servers,      \* processes, each with its ContextVersionManager
    Callers,      \* coroutines, one operation at a time each
    MaxVersions,  \* BOUND on the snapshots ever created
    Limit,        \* the limit of list_versions(), 20 by default
    Idle          \* no call is going on

Versions == 1..MaxVersions
Calls == [op : {"put", "delete"}, at : Servers, of : Versions]

ASSUME VersionsAssumption ==
    /\ MaxVersions \in Nat
    /\ Limit \in Nat
    /\ Idle \notin Calls

VARIABLES
    useS3,     \* an s3_client was given; chosen at the start
    born,      \* how many version ids were made
    stored,    \* the objects in the bucket
    index,     \* index[s]: the versions in _local of s
    fallback,  \* fallback[s]: the versions in _local_data of s
    call,      \* call[c]: the call of the bucket that c waits for, or Idle
    \* What happened, for the properties only:
    created,   \* the versions whose create_snapshot() returned
    doomed,    \* the versions a delete_version() was called for
    deleted    \* deleted[s]: those whose delete_version() returned on s

vars == <<useS3, born, stored, index, fallback, call, created, doomed, deleted>>

Doing(c, op) == call[c] # Idle /\ call[c].op = op
Waits(c, op, s, v) == call' = [call EXCEPT ![c] = [op |-> op, at |-> s, of |-> v]]
Returns(c) == call' = [call EXCEPT ![c] = Idle]

Init ==
    /\ useS3 \in BOOLEAN
    /\ born = 0
    /\ stored = {}
    /\ index = [s \in Servers |-> {}]
    /\ fallback = [s \in Servers |-> {}]
    /\ call = [c \in Callers |-> Idle]
    /\ created = {} /\ doomed = {}
    /\ deleted = [s \in Servers |-> {}]

-----------------------------------------------------------------------------
(* create_snapshot()                                                       *)

BeginCreate(c, s) ==
    /\ useS3
    /\ call[c] = Idle
    /\ born < MaxVersions
    /\ born' = born + 1
    /\ Waits(c, "put", s, born + 1)
    /\ UNCHANGED <<useS3, stored, index, fallback, created, doomed, deleted>>

\* The record is put into the index once the snapshot is stored somewhere.
Registers(s, v) ==
    /\ index' = [index EXCEPT ![s] = @ \cup {v}]
    /\ created' = created \cup {v}

PutReturns(c) ==
    /\ Doing(c, "put")
    /\ stored' = stored \cup {call[c].of}
    /\ Registers(call[c].at, call[c].of)
    /\ Returns(c)
    /\ UNCHANGED <<useS3, born, fallback, doomed, deleted>>

\* Mutant: the snapshot is not kept when the bucket fails.
PutRaises_NoFallback(c) ==
    /\ Doing(c, "put")
    /\ stored' \in {stored, stored \cup {call[c].of}}
    /\ Registers(call[c].at, call[c].of)
    /\ Returns(c)
    /\ UNCHANGED <<useS3, born, fallback, doomed, deleted>>

\* The bucket fails: the snapshot is kept in the memory of the server.
PutRaises(c) ==
    /\ Doing(c, "put")
    /\ stored' \in {stored, stored \cup {call[c].of}}
    /\ fallback' = [fallback EXCEPT ![call[c].at] = @ \cup {call[c].of}]
    /\ Registers(call[c].at, call[c].of)
    /\ Returns(c)
    /\ UNCHANGED <<useS3, born, doomed, deleted>>

CreateLocally(s) ==
    /\ ~useS3
    /\ born < MaxVersions
    /\ born' = born + 1
    /\ fallback' = [fallback EXCEPT ![s] = @ \cup {born + 1}]
    /\ Registers(s, born + 1)
    /\ UNCHANGED <<useS3, stored, call, doomed, deleted>>

CreateEnds(c) == PutReturns(c) \/ PutRaises(c)

-----------------------------------------------------------------------------
(* restore() and list_versions() change nothing.                           *)

\* What restore() of the server s may return while the bucket may be down.
Restorable(s, v) == v \in stored \/ v \in fallback[s]

\* The newest versions of the index.
ListVersions(s) == {v \in index[s] : Cardinality({u \in index[s] : u > v}) < Limit}

-----------------------------------------------------------------------------
(* delete_version()                                                        *)

BeginDelete(c, s, v) ==
    /\ useS3
    /\ call[c] = Idle
    /\ v \in created
    /\ doomed' = doomed \cup {v}
    /\ Waits(c, "delete", s, v)
    /\ UNCHANGED <<useS3, born, stored, index, fallback, created, deleted>>

\* Mutant: the copy in memory is kept.
Forgets_KeepsCopy(s, v) ==
    /\ index' = [index EXCEPT ![s] = @ \ {v}]
    /\ deleted' = [deleted EXCEPT ![s] = @ \cup {v}]
    /\ UNCHANGED fallback

Forgets(s, v) ==
    /\ fallback' = [fallback EXCEPT ![s] = @ \ {v}]
    /\ index' = [index EXCEPT ![s] = @ \ {v}]
    /\ deleted' = [deleted EXCEPT ![s] = @ \cup {v}]

DeleteReturns(c) ==
    /\ Doing(c, "delete")
    /\ stored' = stored \ {call[c].of}
    /\ Forgets(call[c].at, call[c].of)
    /\ Returns(c)
    /\ UNCHANGED <<useS3, born, created, doomed>>

\* The bucket fails: the copy in memory and the index stay.
DeleteRaises(c) ==
    /\ Doing(c, "delete")
    /\ stored' \in {stored, stored \ {call[c].of}}
    /\ Returns(c)
    /\ UNCHANGED <<useS3, born, index, fallback, created, doomed, deleted>>

DeleteLocally(s, v) ==
    /\ ~useS3
    /\ v \in created
    /\ doomed' = doomed \cup {v}
    /\ Forgets(s, v)
    /\ UNCHANGED <<useS3, born, stored, call, created>>

-----------------------------------------------------------------------------
\* The server s crashes and starts again: its memory is lost, and the calls of
\* the bucket it was waiting for may or may not have taken effect.
Restart(s) ==
    /\ LET ofS == {c \in Callers : call[c] # Idle /\ call[c].at = s}
           Pending(op) == {call[c].of : c \in {d \in ofS : call[d].op = op}}
       IN  /\ \E puts \in SUBSET Pending("put"), deletes \in SUBSET Pending("delete") :
                 stored' = (stored \cup puts) \ deletes
           /\ call' = [c \in Callers |-> IF c \in ofS THEN Idle ELSE call[c]]
    /\ index' = [index EXCEPT ![s] = {}]
    /\ fallback' = [fallback EXCEPT ![s] = {}]
    /\ UNCHANGED <<useS3, born, created, doomed, deleted>>

VersionCall ==
    \/ \E c \in Callers, s \in Servers : BeginCreate(c, s)
    \/ \E c \in Callers, s \in Servers, v \in Versions : BeginDelete(c, s, v)
    \/ \E c \in Callers : CreateEnds(c) \/ DeleteReturns(c) \/ DeleteRaises(c)
    \/ \E s \in Servers : CreateLocally(s) \/ \E v \in Versions : DeleteLocally(s, v)

Next == VersionCall \/ \E s \in Servers : Restart(s)

Spec == Init /\ [][Next]_vars

-----------------------------------------------------------------------------
(* Properties.                                                             *)

\* The shape of the state: only a version that was created can be deleted.
TypeOK ==
    /\ useS3 \in BOOLEAN
    /\ born \in 0..MaxVersions
    /\ stored \subseteq Versions
    /\ index \in [Servers -> SUBSET Versions]
    /\ fallback \in [Servers -> SUBSET Versions]
    /\ call \in [Callers -> Calls \cup {Idle}]
    /\ created \subseteq 1..born
    /\ doomed \subseteq created
    /\ deleted \in [Servers -> SUBSET doomed]

\* A version that a server lists, and that nobody asked to delete, can be
\* restored there, whatever the bucket did to the put and whichever servers
\* crashed: a failing bucket does not leave a record without its snapshot.
ListedIsRestorable ==
    \A s \in Servers : \A v \in index[s] : v \in doomed \/ Restorable(s, v)

\* What delete_version() of a server has deleted can neither be restored nor is
\* it listed there any more, whoever else creates, deletes, fails or crashes.
DeletedIsGone ==
    \A s \in Servers : \A v \in deleted[s] : ~Restorable(s, v) /\ v \notin index[s]
=============================================================================
