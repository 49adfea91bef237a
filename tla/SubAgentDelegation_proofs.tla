---------------------- MODULE SubAgentDelegation_proofs ----------------------
(***************************************************************************)
(* Proofs about ContextVersions and SubAgentDelegation, for any number of  *)
(* servers, callers and versions: that a listed version can be restored    *)
(* and a deleted one cannot, that an active ticket names a version that    *)
(* can be restored, and that get_active_tickets() is exact.                *)
(*                                                                         *)
(* None of this is inductive.  What was deleted stays gone because no put  *)
(* of it can be under way: a version has one put, and that put is over     *)
(* once the version is created.  What is listed stays in the bucket        *)
(* because a delete under way is one that somebody asked for.  The         *)
(* delegations only add variables, so that all this holds with them; a     *)
(* version has one ticket because it is stored once.                       *)
(***************************************************************************)
EXTENDS SubAgentDelegation, TLAPS

-----------------------------------------------------------------------------
(* The versions.                                                           *)

\* The puts under way are of different versions, none of which is created yet.
PutsAreFresh ==
    \A c \in Callers : Doing(c, "put") =>
        /\ call[c].of \in (1..born) \ created
        /\ \A d \in Callers : Doing(d, "put") /\ call[d].of = call[c].of => d = c

\* The deletes under way were asked for.
DeletesAreDoomed == \A c \in Callers : Doing(c, "delete") => call[c].of \in doomed

\* Without a bucket nothing is stored in it and nobody waits for it.
NothingWithoutBucket == ~useS3 => stored = {} /\ \A c \in Callers : call[c] = Idle

IndexIsCreated == \A s \in Servers : index[s] \subseteq created

Inv ==
    /\ TypeOK
    /\ PutsAreFresh
    /\ NothingWithoutBucket
    /\ DeletesAreDoomed
    /\ IndexIsCreated
    /\ ListedIsRestorable
    /\ DeletedIsGone

\* No caller waits for the bucket at the start, and there is no version.
LEMMA InitInv == Init => Inv
  BY VersionsAssumption DEF Init, Inv, TypeOK, PutsAreFresh, NothingWithoutBucket, DeletesAreDoomed, IndexIsCreated,
     ListedIsRestorable, DeletedIsGone, Restorable, Doing, Calls, Versions

\* One step of a server, of a caller or of the bucket keeps the invariant.
LEMMA NextInv == Inv /\ [Next]_vars => Inv'
<1> SUFFICES ASSUME Inv, [Next]_vars PROVE Inv'
  OBVIOUS
<1> USE VersionsAssumption DEF Versions
<1>1. ASSUME NEW c \in Callers, NEW s \in Servers, BeginCreate(c, s) PROVE Inv'
  <2> USE <1>1 DEF BeginCreate, Waits, Inv, Calls
  <2>1. TypeOK'
    BY DEF TypeOK
  <2>2. PutsAreFresh' /\ NothingWithoutBucket' /\ DeletesAreDoomed'
    BY DEF TypeOK, PutsAreFresh, NothingWithoutBucket, DeletesAreDoomed, Doing
  <2>3. IndexIsCreated' /\ ListedIsRestorable' /\ DeletedIsGone'
    BY DEF IndexIsCreated, ListedIsRestorable, DeletedIsGone, Restorable
  <2> QED BY <2>1, <2>2, <2>3
<1>2. ASSUME NEW c \in Callers, PutReturns(c) \/ PutRaises(c) PROVE Inv'
  <2> USE <1>2 DEF PutReturns, PutRaises, Registers, Returns, Inv, Calls
  <2>1. call[c] \in Calls /\ call[c].of \in (1..born) \ created /\ call[c].at \in Servers
    BY DEF TypeOK, PutsAreFresh, Doing
  <2>2. stored' \in {stored, stored \cup {call[c].of}}
        /\ fallback' \in {fallback, [fallback EXCEPT ![call[c].at] = @ \cup {call[c].of}]}
        /\ (call[c].of \in stored' \/ call[c].of \in fallback'[call[c].at])
    BY <2>1 DEF TypeOK
  <2>3. index' = [index EXCEPT ![call[c].at] = @ \cup {call[c].of}]
        /\ created' = created \cup {call[c].of}
        /\ call' = [call EXCEPT ![c] = Idle]
        /\ UNCHANGED <<useS3, born, doomed, deleted>>
    OBVIOUS
  <2>4. TypeOK'
    <3>1. stored' \subseteq Versions /\ fallback' \in [Servers -> SUBSET Versions]
      BY <2>1, <2>2 DEF TypeOK
    <3>2. index' \in [Servers -> SUBSET Versions] /\ call' \in [Callers -> Calls \cup {Idle}]
      BY <2>1, <2>3 DEF TypeOK
    <3>3. created' \subseteq 1..born /\ doomed \subseteq created'
      BY <2>1, <2>3 DEF TypeOK
    <3> QED BY <3>1, <3>2, <3>3, <2>3 DEF TypeOK
  <2>5. useS3
    BY <2>1 DEF NothingWithoutBucket, TypeOK
  <2>6. PutsAreFresh' /\ DeletesAreDoomed'
    <3> SUFFICES ASSUME NEW d \in Callers, Doing(d, "put")' \/ Doing(d, "delete")'
                 PROVE  d # c /\ call'[d] = call[d]
      BY <2>3 DEF PutsAreFresh, DeletesAreDoomed, Doing
    <3> QED BY <2>3 DEF TypeOK, Doing
  <2>7. NothingWithoutBucket'
    BY <2>3, <2>5 DEF NothingWithoutBucket
  <2>8. IndexIsCreated' /\ ListedIsRestorable'
    BY <2>1 DEF TypeOK, IndexIsCreated, ListedIsRestorable, Restorable
  <2>9. call[c].of \notin doomed
    BY <2>1 DEF TypeOK
  <2>10. DeletedIsGone'
    <3> SUFFICES ASSUME NEW t \in Servers, NEW v \in deleted[t]
                 PROVE  v \notin stored' /\ v \notin fallback'[t] /\ v \notin index'[t]
      BY <2>3 DEF DeletedIsGone, Restorable
    <3>1. v # call[c].of /\ v \notin stored /\ v \notin fallback[t] /\ v \notin index[t]
      BY <2>9 DEF TypeOK, DeletedIsGone, Restorable
    <3> QED BY <3>1, <2>1, <2>2, <2>3 DEF TypeOK
  <2> QED BY <2>4, <2>6, <2>7, <2>8, <2>10
<1>3. ASSUME NEW s \in Servers, CreateLocally(s) PROVE Inv'
  <2> USE <1>3 DEF CreateLocally, Registers, Inv
  <2>1. TypeOK'
    BY DEF TypeOK
  <2>2. born + 1 \notin created
    BY DEF TypeOK
  <2>3. PutsAreFresh' /\ NothingWithoutBucket' /\ DeletesAreDoomed'
    BY <2>2 DEF TypeOK, PutsAreFresh, NothingWithoutBucket, DeletesAreDoomed, Doing
  <2>4. IndexIsCreated' /\ ListedIsRestorable'
    BY DEF TypeOK, IndexIsCreated, ListedIsRestorable, Restorable
  <2>5. DeletedIsGone'
    BY <2>2 DEF TypeOK, DeletedIsGone, Restorable
  <2> QED BY <2>1, <2>3, <2>4, <2>5
<1>4. ASSUME NEW c \in Callers, NEW s \in Servers, NEW v \in Versions, BeginDelete(c, s, v) PROVE Inv'
  <2> USE <1>4 DEF BeginDelete, Waits, Inv, Calls
  <2>1. TypeOK'
    BY DEF TypeOK
  <2>2. PutsAreFresh' /\ NothingWithoutBucket' /\ DeletesAreDoomed'
    BY DEF TypeOK, PutsAreFresh, NothingWithoutBucket, DeletesAreDoomed, Doing
  <2>3. IndexIsCreated' /\ ListedIsRestorable' /\ DeletedIsGone'
    BY DEF IndexIsCreated, ListedIsRestorable, DeletedIsGone, Restorable
  <2> QED BY <2>1, <2>2, <2>3
<1>5. ASSUME NEW c \in Callers, DeleteReturns(c) PROVE Inv'
  <2> USE <1>5 DEF DeleteReturns, Forgets, Returns, Inv, Calls
  <2>1. call[c] \in Calls /\ call[c].of \in doomed /\ call[c].at \in Servers
    BY DEF TypeOK, DeletesAreDoomed, Doing
  <2>2. TypeOK'
    BY <2>1 DEF TypeOK
  <2>3. PutsAreFresh' /\ NothingWithoutBucket' /\ DeletesAreDoomed'
    BY DEF TypeOK, PutsAreFresh, NothingWithoutBucket, DeletesAreDoomed, Doing
  <2>4. IndexIsCreated' /\ ListedIsRestorable'
    BY <2>1 DEF TypeOK, IndexIsCreated, ListedIsRestorable, Restorable
  <2>5. DeletedIsGone'
    BY <2>1 DEF TypeOK, DeletedIsGone, Restorable
  <2> QED BY <2>2, <2>3, <2>4, <2>5
<1>6. ASSUME NEW c \in Callers, DeleteRaises(c) PROVE Inv'
  <2> USE <1>6 DEF DeleteRaises, Returns, Inv, Calls
  <2>1. call[c] \in Calls /\ call[c].of \in doomed
    BY DEF TypeOK, DeletesAreDoomed, Doing
  <2>2. TypeOK'
    BY DEF TypeOK
  <2>3. PutsAreFresh' /\ NothingWithoutBucket' /\ DeletesAreDoomed'
    BY DEF TypeOK, PutsAreFresh, NothingWithoutBucket, DeletesAreDoomed, Doing
  <2>4. IndexIsCreated' /\ ListedIsRestorable' /\ DeletedIsGone'
    BY <2>1 DEF IndexIsCreated, ListedIsRestorable, DeletedIsGone, Restorable
  <2> QED BY <2>2, <2>3, <2>4
<1>7. ASSUME NEW s \in Servers, NEW v \in Versions, DeleteLocally(s, v) PROVE Inv'
  <2> USE <1>7 DEF DeleteLocally, Forgets, Inv
  <2>1. TypeOK'
    BY DEF TypeOK
  <2>2. PutsAreFresh' /\ NothingWithoutBucket' /\ DeletesAreDoomed'
    BY DEF TypeOK, PutsAreFresh, NothingWithoutBucket, DeletesAreDoomed, Doing
  <2>3. IndexIsCreated' /\ ListedIsRestorable'
    BY DEF TypeOK, IndexIsCreated, ListedIsRestorable, Restorable
  <2>4. DeletedIsGone'
    <3> SUFFICES ASSUME NEW t \in Servers, NEW w \in deleted'[t]
                 PROVE  w \notin stored /\ w \notin fallback'[t] /\ w \notin index'[t]
      BY DEF DeletedIsGone, Restorable
    <3>1. CASE w \in deleted[t]
      BY <3>1 DEF TypeOK, DeletedIsGone, Restorable
    <3>2. CASE t = s /\ w = v
      BY <3>2 DEF TypeOK, NothingWithoutBucket
    <3> QED BY <3>1, <3>2 DEF TypeOK
  <2> QED BY <2>1, <2>2, <2>3, <2>4
<1>8. ASSUME NEW s \in Servers, Restart(s) PROVE Inv'
  <2> DEFINE ofS == {c \in Callers : call[c] # Idle /\ call[c].at = s}
             Pending(op) == {call[c].of : c \in {d \in ofS : call[d].op = op}}
  <2>1. PICK puts \in SUBSET Pending("put"), deletes \in SUBSET Pending("delete") :
           stored' = (stored \cup puts) \ deletes
    BY <1>8 DEF Restart
  <2>2. /\ call' = [c \in Callers |-> IF c \in ofS THEN Idle ELSE call[c]]
        /\ index' = [index EXCEPT ![s] = {}]
        /\ fallback' = [fallback EXCEPT ![s] = {}]
        /\ UNCHANGED <<useS3, born, created, doomed, deleted>>
    BY <1>8 DEF Restart
  <2>3. puts \subseteq (1..born) \ created
    BY DEF Inv, PutsAreFresh, Doing
  <2>4. deletes \subseteq doomed
    BY DEF Inv, DeletesAreDoomed, Doing
  <2>5. ~useS3 => puts = {}
    BY DEF Inv, NothingWithoutBucket
  <2> HIDE DEF Pending, ofS
  <2>6. TypeOK'
    BY <2>1, <2>2, <2>3 DEF Inv, TypeOK
  <2>7. PutsAreFresh' /\ NothingWithoutBucket' /\ DeletesAreDoomed'
    BY <2>1, <2>2, <2>5 DEF Inv, TypeOK, PutsAreFresh, NothingWithoutBucket, DeletesAreDoomed, Doing
  <2>8. IndexIsCreated' /\ ListedIsRestorable'
    BY <2>1, <2>2, <2>3, <2>4 DEF Inv, TypeOK, IndexIsCreated, ListedIsRestorable, Restorable
  <2>9. DeletedIsGone'
    <3> SUFFICES ASSUME NEW t \in Servers, NEW v \in deleted[t]
                 PROVE  v \notin stored' /\ v \notin fallback'[t] /\ v \notin index'[t]
      BY <2>2 DEF DeletedIsGone, Restorable
    <3>1. v \in created /\ v \notin stored /\ v \notin fallback[t] /\ v \notin index[t]
      BY DEF Inv, TypeOK, DeletedIsGone, Restorable
    <3> QED BY <3>1, <2>1, <2>2, <2>3 DEF Inv, TypeOK
  <2> QED BY <2>6, <2>7, <2>8, <2>9 DEF Inv
<1>9. CASE UNCHANGED vars
  BY <1>9 DEF vars, Inv, TypeOK, PutsAreFresh, NothingWithoutBucket, DeletesAreDoomed, IndexIsCreated,
     ListedIsRestorable, DeletedIsGone, Restorable, Doing, Calls
<1> QED
  BY <1>1, <1>2, <1>3, <1>4, <1>5, <1>6, <1>7, <1>8, <1>9 DEF Next, VersionCall, CreateEnds

LEMMA Invariance == Spec => []Inv
  BY InitInv, NextInv, PTL DEF Spec

\* create_snapshot() leaves no record without its snapshot: what a server lists,
\* and nobody asked to delete, it can restore.
THEOREM ListedRestorable == Spec => []ListedIsRestorable
<1>1. Inv => ListedIsRestorable
  BY DEF Inv
<1> QED BY <1>1, Invariance, PTL

\* What delete_version() of a server deleted stays deleted for that server.
THEOREM DeletedGone == Spec => []DeletedIsGone
<1>1. Inv => DeletedIsGone
  BY DEF Inv
<1> QED BY <1>1, Invariance, PTL

-----------------------------------------------------------------------------
(* The delegations.                                                        *)

DelegationTypes ==
    /\ tickets \in [Servers -> SUBSET created]
    /\ holder \in [Servers -> SUBSET created]
    /\ merges \in [Versions -> Nat]

\* A version whose ticket is kept can be restored, whether or not it expired.
KeptIsRestorable ==
    \A s \in Servers : \A v \in tickets[s] : v \in doomed \/ Restorable(s, v)

\* A ticket is handed out on one server, and before that nothing is merged for it.
OneHolder ==
    /\ \A s, t \in Servers : \A v \in holder[s] \cap holder[t] : s = t
    /\ \A v \in Versions \ created : merges[v] = 0

KeptUntilReceived == \A s \in Servers : tickets[s] = {v \in holder[s] : merges[v] = 0}

DelegationInv ==
    /\ DelegationTypes
    /\ KeptIsRestorable
    /\ OneHolder
    /\ KeptUntilReceived

USE VersionsAssumption, DelegationAssumption

\* A step of the delegations is a step of the versions or leaves them alone.
LEMMA StepOfVersions == [DelegationNext]_allVars => [Next]_vars
  BY DEF DelegationNext, allVars, OtherVersionCall, DelegateEnds, DelegateLocally, RestartManager,
     Receive, Tick, Next, VersionCall

\* The invariant of the versions holds of a server that delegates, too.
LEMMA VersionsInvariance == DelegationSpec => []Inv
<1>1. DelegationInit => Inv
  BY InitInv DEF DelegationInit
<1>2. Inv /\ [DelegationNext]_allVars => Inv'
  BY StepOfVersions, NextInv
<1> QED BY <1>1, <1>2, PTL DEF DelegationSpec

\* There is no ticket at the start.
LEMMA InitDelegationInv == DelegationInit => DelegationInv
  BY DEF DelegationInit, DelegationInv, DelegationTypes, KeptIsRestorable, OneHolder, KeptUntilReceived

\* Only a restart of s, or a delete somebody asked for, takes a snapshot from s.
LEMMA StaysRestorable ==
    ASSUME Inv, NEW s \in Servers, VersionCall \/ \E t \in Servers \ {s} : Restart(t),
           NEW v \in Versions, v \in doomed \/ Restorable(s, v)
    PROVE  (v \in doomed \/ Restorable(s, v))'
<1>1. CASE \E c \in Callers, t \in Servers : BeginCreate(c, t)
  BY <1>1 DEF BeginCreate, Restorable
<1>2. CASE \E c \in Callers, t \in Servers, w \in Versions : BeginDelete(c, t, w)
  BY <1>2 DEF BeginDelete, Restorable
<1>3. ASSUME NEW c \in Callers, CreateEnds(c)
      PROVE  (v \in doomed \/ Restorable(s, v))'
  BY <1>3 DEF CreateEnds, PutReturns, PutRaises, Registers, Restorable, Inv, TypeOK
<1>4. ASSUME NEW c \in Callers, DeleteReturns(c) \/ DeleteRaises(c)
      PROVE  (v \in doomed \/ Restorable(s, v))'
  BY <1>4 DEF DeleteReturns, DeleteRaises, Forgets, Restorable, Inv, TypeOK, DeletesAreDoomed
<1>5. ASSUME NEW t \in Servers, CreateLocally(t)
      PROVE  (v \in doomed \/ Restorable(s, v))'
  BY <1>5 DEF CreateLocally, Registers, Restorable, Inv, TypeOK
<1>6. ASSUME NEW t \in Servers, NEW w \in Versions, DeleteLocally(t, w)
      PROVE  (v \in doomed \/ Restorable(s, v))'
  BY <1>6 DEF DeleteLocally, Forgets, Restorable, Inv, TypeOK
<1>7. ASSUME NEW t \in Servers \ {s}, Restart(t)
      PROVE  (v \in doomed \/ Restorable(s, v))'
  <2>1. UNCHANGED doomed /\ fallback' = [fallback EXCEPT ![t] = {}]
    BY <1>7 DEF Restart
  <2>2. \A w \in stored : w \in doomed \/ w \in stored'
    BY <1>7 DEF Restart, Inv, DeletesAreDoomed, Doing
  <2> QED BY <2>1, <2>2 DEF Restorable, Inv, TypeOK
<1> QED BY <1>1, <1>2, <1>3, <1>4, <1>5, <1>6, <1>7 DEF VersionCall

\* A version that gets its ticket when it is created: all that a ticket changes.
LEMMA TicketsInv ==
    ASSUME Inv, DelegationInv, VersionCall, NEW s \in Servers, NEW v \in Versions \ created,
           created' = created \cup {v}, Restorable(s, v)', Tickets(s, v)
    PROVE  DelegationInv'
<1> USE DEF Tickets, DelegationInv
<1>1. DelegationTypes'
  BY DEF DelegationTypes
<1>2. KeptIsRestorable'
  <2> SUFFICES ASSUME NEW t \in Servers, NEW w \in tickets'[t]
               PROVE  (w \in doomed \/ Restorable(t, w))'
    BY DEF KeptIsRestorable
  <2>1. CASE t = s /\ w = v
    BY <2>1
  <2>2. CASE w \in tickets[t]
    BY <2>2, StaysRestorable DEF KeptIsRestorable, DelegationTypes, Inv, TypeOK, Versions
  <2> QED BY <2>1, <2>2 DEF DelegationTypes
<1>3. OneHolder'
  BY DEF OneHolder, DelegationTypes
<1>4. KeptUntilReceived'
  BY DEF KeptUntilReceived, OneHolder, DelegationTypes
<1> QED BY <1>1, <1>2, <1>3, <1>4

\* A call on the versions that makes no ticket.
LEMMA OtherVersionCallInv ==
    ASSUME Inv, DelegationInv, OtherVersionCall
    PROVE  DelegationInv'
<1> USE DEF DelegationInv
<1>1. VersionCall /\ UNCHANGED delegationVars
  BY DEF OtherVersionCall, VersionCall
<1>2. created \subseteq created'
  BY <1>1 DEF VersionCall, BeginCreate, BeginDelete, CreateEnds, PutReturns, PutRaises, Registers,
     DeleteReturns, DeleteRaises, CreateLocally, DeleteLocally
<1>3. DelegationTypes' /\ OneHolder' /\ KeptUntilReceived'
  BY <1>1, <1>2 DEF DelegationTypes, OneHolder, KeptUntilReceived, delegationVars
<1>4. KeptIsRestorable'
  <2> SUFFICES ASSUME NEW s \in Servers, NEW v \in tickets[s]
               PROVE  (v \in doomed \/ Restorable(s, v))'
    BY <1>1 DEF KeptIsRestorable, delegationVars
  <2> QED BY <1>1, StaysRestorable DEF KeptIsRestorable, DelegationTypes, Inv, TypeOK, Versions
<1> QED BY <1>3, <1>4

\* One step of a delegation keeps its invariant.
LEMMA NextDelegationInv == Inv /\ DelegationInv /\ [DelegationNext]_allVars => DelegationInv'
<1> SUFFICES ASSUME Inv, DelegationInv, [DelegationNext]_allVars PROVE DelegationInv'
  OBVIOUS
<1>1. CASE OtherVersionCall
  BY <1>1, OtherVersionCallInv
<1>2. ASSUME NEW c \in Callers, DelegateEnds(c) PROVE DelegationInv'
  <2>1. VersionCall /\ Doing(c, "put")
    BY <1>2 DEF DelegateEnds, VersionCall, CreateEnds, PutReturns, PutRaises
  <2>2. call[c].at \in Servers /\ call[c].of \in Versions \ created
    BY <2>1 DEF Doing, Inv, TypeOK, PutsAreFresh, Versions, Calls
  <2>3. PICK s \in Servers, v \in Versions \ created : s = call[c].at /\ v = call[c].of
    BY <2>2
  <2>4. Tickets(s, v)
    BY <1>2, <2>3 DEF DelegateEnds
  <2>5. created' = created \cup {v} /\ Restorable(s, v)'
    BY <1>2, <2>3 DEF DelegateEnds, CreateEnds, PutReturns, PutRaises, Registers, Restorable, Inv, TypeOK
  <2> QED BY <2>1, <2>4, <2>5, TicketsInv
<1>3. ASSUME NEW s \in Servers, DelegateLocally(s) PROVE DelegationInv'
  <2>1. VersionCall
    BY <1>3 DEF DelegateLocally, VersionCall
  <2>2. PICK v \in Versions \ created : v = born + 1
    BY <1>3 DEF DelegateLocally, CreateLocally, Inv, TypeOK, Versions
  <2>3. Tickets(s, v)
    BY <1>3, <2>2 DEF DelegateLocally
  <2>4. created' = created \cup {v} /\ Restorable(s, v)'
    BY <1>3, <2>2 DEF DelegateLocally, CreateLocally, Registers, Restorable, Inv, TypeOK
  <2> QED BY <2>1, <2>3, <2>4, TicketsInv
<1>4. ASSUME NEW s \in Servers, RestartManager(s) PROVE DelegationInv'
  <2>1. Restart(s) /\ tickets' = [tickets EXCEPT ![s] = {}] /\ holder' = [holder EXCEPT ![s] = {}]
        /\ UNCHANGED <<created, merges>>
    BY <1>4 DEF RestartManager, Restart
  <2>2. DelegationTypes' /\ OneHolder' /\ KeptUntilReceived'
    BY <2>1 DEF DelegationInv, DelegationTypes, OneHolder, KeptUntilReceived
  <2>3. KeptIsRestorable'
    <3> SUFFICES ASSUME NEW t \in Servers, NEW v \in tickets'[t]
                 PROVE  (v \in doomed \/ Restorable(t, v))'
      BY DEF KeptIsRestorable
    <3>1. t # s /\ v \in tickets[t] /\ v \in Versions
      BY <2>1 DEF DelegationInv, DelegationTypes, Inv, TypeOK, Versions
    <3> QED BY <3>1, <2>1, StaysRestorable DEF DelegationInv, KeptIsRestorable
  <2> QED BY <2>2, <2>3 DEF DelegationInv
<1>5. ASSUME NEW s \in Servers, NEW v \in Versions, Receive(s, v) PROVE DelegationInv'
  <2> USE <1>5 DEF Receive, vars, DelegationInv
  <2>1. DelegationTypes' /\ KeptIsRestorable'
    BY DEF DelegationTypes, KeptIsRestorable, Restorable
  <2>2. OneHolder' /\ KeptUntilReceived'
    BY DEF DelegationTypes, OneHolder, KeptUntilReceived
  <2> QED BY <2>1, <2>2
<1>6. CASE Tick \/ UNCHANGED allVars
  BY <1>6 DEF Tick, allVars, vars, delegationVars, DelegationInv, DelegationTypes, KeptIsRestorable,
     OneHolder, KeptUntilReceived, Restorable
<1> QED BY <1>1, <1>2, <1>3, <1>4, <1>5, <1>6 DEF DelegationNext

LEMMA DelegationInvariance == DelegationSpec => []DelegationInv
  BY InitDelegationInv, NextDelegationInv, VersionsInvariance, PTL DEF DelegationSpec

\* While delegate() waits for a result, the context of the parent can be restored
\* from the version of the ticket.
THEOREM ActiveRestorable == DelegationSpec => []ActiveIsRestorable
<1>1. DelegationInv => ActiveIsRestorable
  BY DEF DelegationInv, KeptIsRestorable, ActiveIsRestorable, Active
<1> QED BY <1>1, DelegationInvariance, PTL

\* get_active_tickets() returns exactly the tickets that wait for a result.
THEOREM ActiveExact == DelegationSpec => []ActiveIsExact
<1>1. DelegationInv => ActiveIsExact
  BY DEF DelegationInv, KeptUntilReceived, ActiveIsExact, Active
<1> QED BY <1>1, DelegationInvariance, PTL
=============================================================================
