------------------------- MODULE SubAgentDelegation -------------------------
(***************************************************************************)
(* orchestration/sub_agent_manager.py on top of ContextVersions: delegate()*)
(* stores a version of the parent's context and hands out a ticket, and    *)
(* receive_result() takes the items of the sub-agent against the ticket.   *)
(*                                                                         *)
(* A ticket is named by the version it was created with: each delegate()   *)
(* creates one version and one ticket.  The callers in Delegators call     *)
(* delegate(), the others create_snapshot().                               *)
(***************************************************************************)
EXTENDS ContextVersions

CONSTANTS
    Delegators,  \* the callers whose creates are those of delegate()
    Ttl,         \* ttl_s of a ticket
    MaxTime,     \* BOUND on the clock
    MaxResults,  \* BOUND on the results received for a ticket
    NoTicket     \* the version has no ticket

ASSUME DelegationAssumption ==
    /\ Delegators \subseteq Callers
    /\ Ttl \in Nat /\ MaxTime \in Nat /\ MaxResults \in Nat
    /\ NoTicket \notin 0..MaxTime

VARIABLES
    now,
    tickets,   \* tickets[s]: _tickets of s
    issued,    \* issued[v]: when the ticket of v was created
    holder,    \* holder[s]: the tickets delegate() returned on s
    merges     \* merges[v]: how often receive_result() merged items for the ticket

delegationVars == <<now, tickets, issued, holder, merges>>
allVars == <<vars, delegationVars>>

Expired(v, t) == t - issued[v] > Ttl

DelegationInit ==
    /\ Init
    /\ now = 0
    /\ tickets = [s \in Servers |-> {}]
    /\ issued = [v \in Versions |-> NoTicket]
    /\ holder = [s \in Servers |-> {}]
    /\ merges = [v \in Versions |-> 0]

\* The ticket of the version v is made, kept and handed out; the exposure policy
\* is applied in the process.
Tickets(s, v) ==
    /\ tickets' = [tickets EXCEPT ![s] = @ \cup {v}]
    /\ holder' = [holder EXCEPT ![s] = @ \cup {v}]
    /\ issued' = [issued EXCEPT ![v] = now]
    /\ UNCHANGED <<now, merges>>

\* Mutant: the ticket is made before the version is stored.
DelegateEnds_Early(c) ==
    /\ c \in Delegators
    /\ call[c] # Idle
    /\ Doing(c, "put")
    /\ Tickets(call[c].at, call[c].of)
    /\ UNCHANGED vars

\* create_snapshot() of delegate() returns.
DelegateEnds(c) ==
    /\ c \in Delegators
    /\ CreateEnds(c)
    /\ Tickets(call[c].at, call[c].of)

DelegateLocally(s) == CreateLocally(s) /\ Tickets(s, born + 1)

\* Mutant: the ticket stays among the active ones.
Receive_KeepsTicket(s, v) ==
    /\ v \in holder[s]
    /\ ~Expired(v, now)
    /\ merges[v] < MaxResults
    /\ merges' = [merges EXCEPT ![v] = @ + 1]
    /\ UNCHANGED <<vars, now, tickets, issued, holder>>

\* receive_result() looks at the time of the ticket it is given; an expired one
\* yields no items and changes nothing.
Receive(s, v) ==
    /\ v \in holder[s]
    /\ ~Expired(v, now)
    /\ merges[v] < MaxResults
    /\ merges' = [merges EXCEPT ![v] = @ + 1]
    /\ tickets' = [tickets EXCEPT ![s] = @ \ {v}]
    /\ UNCHANGED <<vars, now, issued, holder>>

Tick ==
    /\ now < MaxTime
    /\ now' = now + 1
    /\ UNCHANGED <<vars, tickets, issued, holder, merges>>

\* The tickets of a server that crashes are lost, and so are those in the hands
\* of its callers.
RestartManager(s) ==
    /\ Restart(s)
    /\ tickets' = [tickets EXCEPT ![s] = {}]
    /\ holder' = [holder EXCEPT ![s] = {}]
    /\ UNCHANGED <<now, issued, merges>>

OtherVersionCall ==
    /\ \/ \E c \in Callers, s \in Servers : BeginCreate(c, s)
       \/ \E c \in Callers, s \in Servers, v \in Versions : BeginDelete(c, s, v)
       \/ \E c \in Callers \ Delegators : CreateEnds(c)
       \/ \E c \in Callers : DeleteReturns(c) \/ DeleteRaises(c)
       \/ \E s \in Servers : CreateLocally(s) \/ \E v \in Versions : DeleteLocally(s, v)
    /\ UNCHANGED delegationVars

DelegationNext ==
    \/ OtherVersionCall
    \/ \E c \in Callers : DelegateEnds(c)
    \/ \E s \in Servers : DelegateLocally(s) \/ RestartManager(s) \/ \E v \in Versions : Receive(s, v)
    \/ Tick

DelegationSpec == DelegationInit /\ [][DelegationNext]_allVars

\* get_active_tickets()
Active(s) == {v \in tickets[s] : ~Expired(v, now)}

-----------------------------------------------------------------------------
(* Properties.                                                             *)

\* While a delegation is active the context of the parent can be restored from
\* the version the ticket names, unless somebody asked to delete that version.
ActiveIsRestorable ==
    \A s \in Servers : \A v \in Active(s) : v \in doomed \/ Restorable(s, v)

\* get_active_tickets() is exact: it returns the tickets delegate() returned since
\* the server started that are neither expired nor received.
ActiveIsExact ==
    \A s \in Servers : Active(s) = {v \in holder[s] : ~Expired(v, now) /\ merges[v] = 0}
=============================================================================
