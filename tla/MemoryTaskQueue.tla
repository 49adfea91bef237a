--------------------------- MODULE MemoryTaskQueue --------------------------
(***************************************************************************)
(* What core/memory/async_processor.py promises the write path, without    *)
(* workers, sentinels or a life cycle: a bounded first-in first-out queue  *)
(* whose tasks are started in the order they were accepted, at most        *)
(* Concurrency at a time, each of them once.                               *)
(***************************************************************************)
EXTENDS Integers, Sequences, FiniteSets

CONSTANTS Tasks, Capacity, Concurrency

VARIABLES
    pending,   \* accepted and not started, oldest first
    inflight,  \* started and not finished
    finished

vars == <<pending, inflight, finished>>

Known == {pending[i] : i \in 1..Len(pending)} \cup inflight \cup finished

Init == pending = <<>> /\ inflight = {} /\ finished = {}

Accept(t) ==
    /\ t \notin Known
    /\ Len(pending) < Capacity
    /\ pending' = Append(pending, t)
    /\ UNCHANGED <<inflight, finished>>

Dispatch ==
    /\ pending # <<>>
    /\ Cardinality(inflight) < Concurrency
    /\ inflight' = inflight \cup {Head(pending)}
    /\ pending' = Tail(pending)
    /\ UNCHANGED finished

Finish(t) ==
    /\ t \in inflight
    /\ inflight' = inflight \ {t}
    /\ finished' = finished \cup {t}
    /\ UNCHANGED pending

Next == Dispatch \/ \E t \in Tasks : Accept(t) \/ Finish(t)

Spec == Init /\ [][Next]_vars
=============================================================================
