------------------------- MODULE Operations_proofs -------------------------
(***************************************************************************)
(* Proofs about the modules of core/monitoring/ and the life cycle they    *)
(* watch.                                                                  *)
(*                                                                         *)
(* Monitoring: the collector implements MetricLog, an orderly stop()       *)
(* flushes what was emitted before it, and alerts are fired once within a  *)
(* cooldown and by no other than their own breach, for every batch size,   *)
(* interval, set of records and configuration.  That the records of the    *)
(* queue without its sentinels continue the batch is said by a rank for    *)
(* each place of the queue: how many records have been emitted up to it.   *)
(*                                                                         *)
(* ServiceLifecycle and RuntimeHealth, for every set of deployments and    *)
(* any number of outages: that nothing stays open after an exit rests on   *)
(* what the cleanup list covers since the bootstrap built it, and that the *)
(* processor has its stores on what was opened three steps before the      *)
(* router was given the memory.  The health checks leave all this alone.   *)
(* That an overall "ok" is right needs, since a component that is skipped  *)
(* counts as well as one that answered, why each may be skipped; the LLM   *)
(* may be for placeholders, which the check of the environment then        *)
(* reports.                                                                *)
(***************************************************************************)
EXTENDS Monitoring, RuntimeHealth, SequenceFilters_proofs, TLAPS

-----------------------------------------------------------------------------
(* Monitoring.                                                             *)

Entries == Records \cup {Sentinel}

\* The entries of the queue q continue the first records of the log, to its end.
Places(rank, q, first, log) ==
    /\ rank \in [0..Len(q) -> Nat]
    /\ rank[0] = first /\ rank[Len(q)] = Len(log)
    /\ \A i \in 1..Len(q) :
         /\ q[i] = Sentinel => rank[i] = rank[i - 1]
         /\ q[i] # Sentinel => rank[i] = rank[i - 1] + 1 /\ rank[i] <= Len(log) /\ q[i] = log[rank[i]]

\* In turn with start(), a stop() has one sentinel on the way, behind what was emitted before.
Behind(rank) ==
    /\ \A i \in 1..Len(queue) :
         queue[i] = Sentinel => stopping /\ worker = "running" /\ before <= rank[i]
    /\ \A i, j \in 1..Len(queue) : queue[i] = Sentinel /\ queue[j] = Sentinel => i = j
    /\ stopping /\ worker # "running" => before <= Len(delivered)

Types ==
    /\ queue \in Seq(Entries) /\ batch \in Seq(Records)
    /\ emitted \in Seq(Records) /\ delivered \in Seq(Records)
    /\ before \in Nat /\ stopping \in BOOLEAN

InOrder ==
    /\ Len(delivered) + Len(batch) <= Len(emitted)
    /\ \A i \in 1..Len(delivered) : delivered[i] = emitted[i]
    /\ \A i \in 1..Len(batch) : batch[i] = emitted[Len(delivered) + i]
    /\ worker # "running" => batch = <<>>

LogInv ==
    /\ Types
    /\ InOrder
    /\ \E rank : /\ Places(rank, queue, Len(delivered) + Len(batch), emitted)
                 /\ Orderly => Behind(rank)

Longer(rank, q, last) == [i \in 0..Len(q) + 1 |-> IF i <= Len(q) THEN rank[i] ELSE last]
Shorter(rank, q) == [i \in 0..Len(q) - 1 |-> rank[i + 1]]

-----------------------------------------------------------------------------
\* A record at the end of the queue and of the log.
LEMMA RecordAdded ==
    ASSUME NEW q \in Seq(Entries), NEW log \in Seq(Records), NEW first \in Nat, NEW rank,
           Places(rank, q, first, log), NEW r \in Records
    PROVE  Places(Longer(rank, q, Len(log) + 1), Append(q, r), first, Append(log, r))
  <1> DEFINE rank2 == Longer(rank, q, Len(log) + 1)
             q2 == Append(q, r)
             log2 == Append(log, r)
  <1>1. q2 \in Seq(Entries) /\ Len(q2) = Len(q) + 1 /\ Len(log2) = Len(log) + 1
        /\ Len(q) \in Nat /\ Len(log) \in Nat
    BY DEF Entries
  <1>2. rank2 \in [0..Len(q2) -> Nat] /\ rank2[0] = first /\ rank2[Len(q2)] = Len(log2)
        /\ \A i \in 0..Len(q) : rank2[i] = rank[i]
    BY <1>1 DEF Longer, Places
  <1>3. ASSUME NEW i \in 1..Len(q2)
        PROVE  /\ q2[i] = Sentinel => rank2[i] = rank2[i - 1]
               /\ q2[i] # Sentinel => rank2[i] = rank2[i - 1] + 1 /\ rank2[i] <= Len(log2)
                                        /\ q2[i] = log2[rank2[i]]
    <2>1. CASE i <= Len(q)
      <3>1. i \in 1..Len(q) /\ i - 1 \in 0..Len(q) /\ i \in 0..Len(q) /\ q2[i] = q[i]
        BY <1>1, <2>1
      <3>2. rank2[i] = rank[i] /\ rank2[i - 1] = rank[i - 1] /\ rank[i - 1] \in Nat /\ rank[i] \in Nat
        BY <1>2, <3>1 DEF Places
      <3>3. q[i] # Sentinel => rank[i] \in 1..Len(log) /\ q[i] = log[rank[i]]
        BY <3>1, <3>2 DEF Places
      <3>4. \A k \in 1..Len(log) : log2[k] = log[k]
        OBVIOUS
      <3> QED
        BY <1>1, <3>1, <3>2, <3>3, <3>4 DEF Places
    <2>2. CASE i = Len(q) + 1
      <3>1. q2[i] = r /\ r # Sentinel /\ log2[Len(log) + 1] = r
        BY <2>2, CollectorAssumption
      <3>2. rank2[i] = Len(log) + 1 /\ rank2[i - 1] = Len(log)
        BY <1>1, <1>2, <2>2 DEF Places
      <3> QED
        BY <1>1, <3>1, <3>2
    <2>3. i <= Len(q) \/ i = Len(q) + 1
      BY <1>1
    <2> QED
      BY <2>1, <2>2, <2>3
  <1> HIDE DEF rank2, q2, log2
  <1>4. Places(rank2, q2, first, log2)
    BY <1>2, <1>3 DEF Places
  <1> QED
    BY <1>4 DEF rank2, q2, log2

\* A sentinel at the end of the queue.
LEMMA SentinelAdded ==
    ASSUME NEW q \in Seq(Entries), NEW log \in Seq(Records), NEW first \in Nat, NEW rank,
           Places(rank, q, first, log)
    PROVE  Places(Longer(rank, q, Len(log)), Append(q, Sentinel), first, log)
  <1> DEFINE rank2 == Longer(rank, q, Len(log))
             q2 == Append(q, Sentinel)
  <1>1. q2 \in Seq(Entries) /\ Len(q2) = Len(q) + 1 /\ Len(q) \in Nat /\ Len(log) \in Nat
    BY DEF Entries
  <1>2. rank2 \in [0..Len(q2) -> Nat] /\ rank2[0] = first /\ rank2[Len(q2)] = Len(log)
        /\ \A i \in 0..Len(q) : rank2[i] = rank[i]
    BY <1>1 DEF Longer, Places
  <1>3. ASSUME NEW i \in 1..Len(q2)
        PROVE  /\ q2[i] = Sentinel => rank2[i] = rank2[i - 1]
               /\ q2[i] # Sentinel => rank2[i] = rank2[i - 1] + 1 /\ rank2[i] <= Len(log)
                                        /\ q2[i] = log[rank2[i]]
    <2>1. CASE i <= Len(q)
      <3>1. i \in 1..Len(q) /\ i - 1 \in 0..Len(q) /\ i \in 0..Len(q) /\ q2[i] = q[i]
        BY <1>1, <2>1
      <3> QED
        BY <1>2, <3>1 DEF Places
    <2>2. CASE i = Len(q) + 1
      <3>1. q2[i] = Sentinel
        BY <2>2
      <3>2. rank2[i] = Len(log) /\ rank2[i - 1] = Len(log)
        BY <1>1, <1>2, <2>2 DEF Places
      <3> QED
        BY <3>1, <3>2
    <2>3. i <= Len(q) \/ i = Len(q) + 1
      BY <1>1
    <2> QED
      BY <2>1, <2>2, <2>3
  <1> HIDE DEF rank2, q2
  <1>4. Places(rank2, q2, first, log)
    BY <1>2, <1>3 DEF Places
  <1> QED
    BY <1>4 DEF rank2, q2

\* The first entry is taken: a record is the next one of the log.
LEMMA EntryTaken ==
    ASSUME NEW q \in Seq(Entries), NEW log \in Seq(Records), NEW first \in Nat, NEW rank,
           Places(rank, q, first, log), q # <<>>
    PROVE  /\ Head(q) = Sentinel => Places(Shorter(rank, q), Tail(q), first, log)
           /\ Head(q) # Sentinel =>
                /\ Places(Shorter(rank, q), Tail(q), first + 1, log)
                /\ first + 1 <= Len(log) /\ Head(q) = log[first + 1]
  <1> DEFINE rank2 == Shorter(rank, q)
             q2 == Tail(q)
  <1>1. /\ q2 \in Seq(Entries) /\ Len(q2) = Len(q) - 1 /\ Len(q) \in Nat \ {0} /\ Head(q) = q[1]
        /\ \A i \in 1..Len(q2) : q2[i] = q[i + 1]
    OBVIOUS
  <1>2. rank2 \in [0..Len(q2) -> Nat] /\ \A i \in 0..Len(q2) : rank2[i] = rank[i + 1]
    <2>1. \A i \in 0..Len(q) - 1 : rank[i + 1] \in Nat
      BY <1>1 DEF Places
    <2> QED
      BY <1>1, <2>1 DEF Shorter
  <1>3. rank2[0] = rank[1] /\ rank2[Len(q2)] = Len(log) /\ 1 \in 1..Len(q)
    BY <1>1, <1>2 DEF Places
  <1>4. ASSUME NEW i \in 1..Len(q2)
        PROVE  /\ q2[i] = Sentinel => rank2[i] = rank2[i - 1]
               /\ q2[i] # Sentinel => rank2[i] = rank2[i - 1] + 1 /\ rank2[i] <= Len(log)
                                        /\ q2[i] = log[rank2[i]]
    <2>1. i + 1 \in 1..Len(q) /\ i \in 0..Len(q2) /\ i - 1 \in 0..Len(q2)
      BY <1>1
    <2>2. q2[i] = q[i + 1] /\ rank2[i] = rank[i + 1] /\ rank2[i - 1] = rank[i] /\ (i + 1) - 1 = i
      BY <1>1, <1>2, <2>1
    <2> QED
      BY <2>1, <2>2 DEF Places
  <1>5. /\ Head(q) = Sentinel => rank[1] = first
        /\ Head(q) # Sentinel => rank[1] = first + 1 /\ rank[1] <= Len(log) /\ Head(q) = log[rank[1]]
    BY <1>1, <1>3 DEF Places
  <1> HIDE DEF rank2, q2
  <1>6. Places(rank2, q2, rank2[0], log)
    BY <1>2, <1>3, <1>4 DEF Places
  <1> QED
    BY <1>3, <1>5, <1>6 DEF rank2, q2

-----------------------------------------------------------------------------
(* The steps of the collector.                                             *)

\* What a flush hands over continues the log.
LEMMA Flushed ==
    ASSUME NEW log \in Seq(Records), NEW out \in Seq(Records), NEW some \in Seq(Records),
           Len(out) + Len(some) <= Len(log),
           \A i \in 1..Len(out) : out[i] = log[i],
           \A i \in 1..Len(some) : some[i] = log[Len(out) + i]
    PROVE  /\ out \o some \in Seq(Records) /\ Len(out \o some) = Len(out) + Len(some)
           /\ \A i \in 1..Len(out \o some) : (out \o some)[i] = log[i]
  <1>1. out \o some \in Seq(Records) /\ Len(out \o some) = Len(out) + Len(some)
    OBVIOUS
  <1>2. ASSUME NEW i \in 1..Len(out) + Len(some) PROVE (out \o some)[i] = log[i]
    <2>1. CASE i <= Len(out)
      BY <2>1
    <2>2. CASE i > Len(out)
      <3>1. i - Len(out) \in 1..Len(some) /\ Len(out) + (i - Len(out)) = i
        BY <2>2
      <3>2. (out \o some)[i] = some[i - Len(out)]
        BY <2>2
      <3> QED
        BY <3>1, <3>2
    <2> QED
      BY <2>1, <2>2
  <1> QED
    BY <1>1, <1>2

\* A batch with the next record of the log.
LEMMA Grown ==
    ASSUME NEW log \in Seq(Records), NEW some \in Seq(Records), NEW n \in Nat, NEW r,
           \A i \in 1..Len(some) : some[i] = log[n + i],
           n + Len(some) + 1 <= Len(log), r = log[n + Len(some) + 1]
    PROVE  /\ Append(some, r) \in Seq(Records) /\ Len(Append(some, r)) = Len(some) + 1
           /\ \A i \in 1..Len(Append(some, r)) : Append(some, r)[i] = log[n + i]
  <1>1. n + Len(some) + 1 \in 1..Len(log)
    OBVIOUS
  <1>2. r \in Records
    BY <1>1
  <1>3. Append(some, r) \in Seq(Records) /\ Len(Append(some, r)) = Len(some) + 1
    BY <1>2
  <1>4. ASSUME NEW i \in 1..Len(some) + 1 PROVE Append(some, r)[i] = log[n + i]
    <2>1. CASE i <= Len(some)
      BY <2>1
    <2>2. CASE i = Len(some) + 1
      BY <2>2
    <2> QED
      BY <2>1, <2>2
  <1> QED
    BY <1>3, <1>4

\* emit()
LEMMA EmitInv == LogInv /\ Emit => LogInv'
  <1> SUFFICES ASSUME LogInv, Emit PROVE LogInv'
    OBVIOUS
  <1> USE DEF LogInv, Types
  <1>1. PICK r \in Records : queue' = Append(queue, r) /\ emitted' = Append(emitted, r)
    BY DEF Emit
  <1>2. UNCHANGED <<batch, worker, stopping, delivered, before>>
    BY DEF Emit
  <1>3. Types'
    BY <1>1, <1>2 DEF Entries
  <1>4. \A i \in 1..Len(emitted) : emitted'[i] = emitted[i]
    BY <1>1
  <1>5. Len(emitted') = Len(emitted) + 1
    BY <1>1
  <1>6. InOrder'
    <2>1. /\ \A i \in 1..Len(delivered) : i \in 1..Len(emitted)
          /\ \A i \in 1..Len(batch) : Len(delivered) + i \in 1..Len(emitted)
      BY DEF InOrder
    <2>2. \A i \in 1..Len(delivered) : delivered[i] = emitted'[i]
      BY <1>4, <2>1 DEF InOrder
    <2>3. \A i \in 1..Len(batch) : batch[i] = emitted'[Len(delivered) + i]
      BY <1>4, <2>1 DEF InOrder
    <2>4. Len(delivered) + Len(batch) <= Len(emitted')
      BY <1>5 DEF InOrder
    <2> QED
      BY <1>2, <2>2, <2>3, <2>4 DEF InOrder
  <1>7. PICK rank : /\ Places(rank, queue, Len(delivered) + Len(batch), emitted)
                    /\ Orderly => Behind(rank)
    OBVIOUS
  <1>8. PICK rank2 : rank2 = Longer(rank, queue, Len(emitted) + 1)
    OBVIOUS
  <1>9. Places(rank2, queue', Len(delivered') + Len(batch'), emitted')
    BY <1>1, <1>2, <1>7, <1>8, RecordAdded
  <1>10. ASSUME Behind(rank) PROVE Behind(rank2)'
    <2>1. /\ Len(queue') = Len(queue) + 1 /\ queue'[Len(queue) + 1] # Sentinel
          /\ \A i \in 1..Len(queue) : queue'[i] = queue[i] /\ rank2[i] = rank[i]
      BY <1>1, <1>8, CollectorAssumption DEF Longer
    <2>2. \A i \in 1..Len(queue') : queue'[i] = Sentinel => i \in 1..Len(queue)
      BY <2>1
    <2> QED
      BY <1>2, <1>10, <2>1, <2>2 DEF Behind
  <1> QED
    BY <1>3, <1>6, <1>7, <1>9, <1>10

\* stop()
LEMMA StopInv == LogInv /\ Stop => LogInv'
  <1> SUFFICES ASSUME LogInv, Stop PROVE LogInv'
    OBVIOUS
  <1> USE DEF LogInv, Types
  <1>1. /\ ~stopping /\ stopping' = TRUE /\ (Orderly => worker = "running")
        /\ queue' = Append(queue, Sentinel) /\ before' = Len(emitted)
        /\ UNCHANGED <<batch, worker, emitted, delivered>>
    BY DEF Stop
  <1>2. Types'
    BY <1>1 DEF Entries
  <1>3. InOrder'
    BY <1>1 DEF InOrder
  <1>4. PICK rank : /\ Places(rank, queue, Len(delivered) + Len(batch), emitted)
                    /\ Orderly => Behind(rank)
    OBVIOUS
  <1>5. PICK rank2 : rank2 = Longer(rank, queue, Len(emitted))
    OBVIOUS
  <1>6. Places(rank2, queue', Len(delivered') + Len(batch'), emitted')
    BY <1>1, <1>4, <1>5, SentinelAdded
  <1>7. ASSUME Orderly, Behind(rank) PROVE Behind(rank2)'
    <2>1. /\ Len(queue') = Len(queue) + 1 /\ rank2[Len(queue) + 1] = Len(emitted)
          /\ \A i \in 1..Len(queue) : queue'[i] = queue[i]
      BY <1>1, <1>5 DEF Longer
    <2>2. \A i \in 1..Len(queue) : queue[i] # Sentinel
      BY <1>1, <1>7 DEF Behind
    <2>3. ASSUME NEW i \in 1..Len(queue'), queue'[i] = Sentinel PROVE i = Len(queue) + 1
      <3>1. i \in 1..Len(queue) \/ i = Len(queue) + 1
        BY <2>1
      <3> QED
        BY <2>1, <2>2, <2>3, <3>1
    <2> QED
      BY <1>1, <1>7, <2>1, <2>3 DEF Behind
  <1> QED
    BY <1>2, <1>3, <1>4, <1>6, <1>7

\* start() and the return of stop() move no record.
LEMMA StartInv == LogInv /\ (Start \/ Stopped) => LogInv'
  <1> SUFFICES ASSUME LogInv, Start \/ Stopped PROVE LogInv'
    OBVIOUS
  <1> USE DEF LogInv, Types
  <1>1. PICK rank : /\ Places(rank, queue, Len(delivered) + Len(batch), emitted)
                    /\ Orderly => Behind(rank)
    OBVIOUS
  <1>2. UNCHANGED <<queue, emitted, delivered, before>> /\ worker # "running"
        /\ stopping' \in {stopping, FALSE} /\ batch' = <<>> /\ batch = <<>>
    BY DEF Start, Stopped, InOrder, history
  <1>3. Types'
    BY <1>2
  <1>4. InOrder'
    BY <1>2 DEF InOrder
  <1>5. Places(rank, queue', Len(delivered') + Len(batch'), emitted')
    BY <1>1, <1>2
  <1>6. ASSUME Behind(rank) PROVE Behind(rank)'
    <2>1. \A i \in 1..Len(queue) : queue[i] # Sentinel
      BY <1>2, <1>6 DEF Behind
    <2>2. stopping' /\ worker' # "running" => before' <= Len(delivered')
      BY <1>6 DEF Start, Stopped, Behind, history
    <2> QED
      BY <1>2, <2>1, <2>2 DEF Behind
  <1> QED
    BY <1>1, <1>3, <1>4, <1>5, <1>6

\* The worker gets a sentinel.
LEMMA TakeSentinelInv == LogInv /\ TakeSentinel => LogInv'
  <1> SUFFICES ASSUME LogInv, TakeSentinel PROVE LogInv'
    OBVIOUS
  <1> USE DEF LogInv, Types
  <1>1. PICK rank : /\ Places(rank, queue, Len(delivered) + Len(batch), emitted)
                    /\ Orderly => Behind(rank)
    OBVIOUS
  <1>2. /\ worker = "running" /\ queue # <<>> /\ Head(queue) = Sentinel /\ queue' = Tail(queue)
        /\ worker' = "done" /\ batch' = <<>> /\ UNCHANGED <<stopping, emitted, before>>
    BY DEF TakeSentinel
  <1>3. delivered' = delivered \o batch
    BY DEF TakeSentinel, Flush, KeepAlerts
  <1>4. /\ delivered' \in Seq(Records) /\ Len(delivered') = Len(delivered) + Len(batch)
        /\ \A i \in 1..Len(delivered') : delivered'[i] = emitted[i]
    BY <1>3, Flushed DEF InOrder
  <1>5. Types'
    BY <1>2, <1>4
  <1>6. InOrder'
    BY <1>2, <1>4 DEF InOrder
  <1>7. PICK rank2 : rank2 = Shorter(rank, queue)
    OBVIOUS
  <1>8. Places(rank2, queue', Len(delivered') + Len(batch'), emitted')
    BY <1>1, <1>2, <1>4, <1>7, EntryTaken
  <1>9. ASSUME Behind(rank) PROVE Behind(rank2)'
    <2>1. /\ Len(queue') = Len(queue) - 1 /\ Len(queue) \in Nat \ {0} /\ queue[1] = Sentinel
          /\ \A i \in 1..Len(queue') : queue'[i] = queue[i + 1]
      BY <1>2
    <2>2. ASSUME NEW i \in 1..Len(queue') PROVE queue'[i] # Sentinel
      <3>1. i + 1 \in 1..Len(queue) /\ 1 \in 1..Len(queue) /\ i + 1 # 1
        BY <2>1
      <3> QED
        BY <1>9, <2>1, <3>1 DEF Behind
    <2>3. rank[1] = Len(delivered) + Len(batch) /\ before <= rank[1]
      BY <1>1, <1>9, <2>1 DEF Places, Behind
    <2> QED
      BY <1>2, <1>4, <2>2, <2>3 DEF Behind
  <1> QED
    BY <1>1, <1>5, <1>6, <1>8, <1>9

\* The worker gets a record, which goes to the batch or, with the batch, to the subscribers.
LEMMA TakeRecordInv == LogInv /\ TakeRecord => LogInv'
  <1> SUFFICES ASSUME LogInv, TakeRecord PROVE LogInv'
    OBVIOUS
  <1> USE DEF LogInv, Types
  <1>1. PICK rank : /\ Places(rank, queue, Len(delivered) + Len(batch), emitted)
                    /\ Orderly => Behind(rank)
    OBVIOUS
  <1> DEFINE grown == Append(batch, Head(queue))
  <1>2. /\ worker = "running" /\ queue # <<>> /\ Head(queue) # Sentinel /\ queue' = Tail(queue)
        /\ UNCHANGED <<worker, stopping, emitted, before>>
    BY DEF TakeRecord
  <1>3. \/ delivered' = delivered \o grown /\ batch' = <<>>
        \/ delivered' = delivered /\ batch' = grown
    BY DEF TakeRecord, Flush, KeepAlerts
  <1>4. PICK rank2 : rank2 = Shorter(rank, queue)
    OBVIOUS
  <1>5. /\ Places(rank2, Tail(queue), Len(delivered) + Len(batch) + 1, emitted)
        /\ Len(delivered) + Len(batch) + 1 <= Len(emitted)
        /\ Head(queue) = emitted[Len(delivered) + Len(batch) + 1]
    BY <1>1, <1>2, <1>4, EntryTaken
  <1>6. /\ grown \in Seq(Records) /\ Len(grown) = Len(batch) + 1
        /\ \A i \in 1..Len(grown) : grown[i] = emitted[Len(delivered) + i]
    BY <1>5, Grown DEF InOrder
  <1> HIDE DEF grown
  <1>7. /\ delivered \o grown \in Seq(Records) /\ Len(delivered \o grown) = Len(delivered) + Len(grown)
        /\ \A i \in 1..Len(delivered \o grown) : (delivered \o grown)[i] = emitted[i]
    <2>1. Len(delivered) \in Nat /\ Len(batch) \in Nat /\ Len(emitted) \in Nat
      OBVIOUS
    <2>2. Len(delivered) + Len(grown) <= Len(emitted)
      BY <1>5, <1>6, <2>1
    <2>3. \A i \in 1..Len(delivered) : delivered[i] = emitted[i]
      BY DEF InOrder
    <2> QED
      BY <1>6, <2>2, <2>3, Flushed
  <1>8. Len(delivered') + Len(batch') = Len(delivered) + Len(batch) + 1
    <2>1. Len(delivered) \in Nat /\ Len(batch) \in Nat
      OBVIOUS
    <2>2. CASE delivered' = delivered \o grown /\ batch' = <<>>
      <3>1. Len(delivered') = Len(delivered) + Len(batch) + 1 /\ Len(batch') = 0
        BY <1>6, <1>7, <2>1, <2>2
      <3> QED
        BY <2>1, <3>1
    <2>3. CASE delivered' = delivered /\ batch' = grown
      <3>1. Len(delivered') = Len(delivered) /\ Len(batch') = Len(batch) + 1
        BY <1>6, <2>3, Zenon
      <3> QED
        BY <2>1, <3>1
    <2> QED
      BY <1>3, <2>2, <2>3, Zenon
  <1>9. Types'
    <2>1. delivered' \in Seq(Records) /\ batch' \in Seq(Records)
      <3>1. <<>> \in Seq(Records)
        OBVIOUS
      <3> QED
        BY <1>3, <1>6, <1>7, <3>1, Zenon
    <2>2. queue' \in Seq(Entries)
      BY <1>2
    <2> QED
      BY <1>2, <2>1, <2>2
  <1>10. InOrder'
    <2>1. CASE delivered' = delivered \o grown /\ batch' = <<>>
      BY <1>2, <1>5, <1>7, <1>8, <2>1 DEF InOrder
    <2>2. CASE delivered' = delivered /\ batch' = grown
      BY <1>2, <1>5, <1>6, <1>8, <2>2 DEF InOrder
    <2> QED
      BY <1>3, <2>1, <2>2
  <1>11. Places(rank2, queue', Len(delivered') + Len(batch'), emitted')
    BY <1>2, <1>5, <1>8
  <1>12. ASSUME Behind(rank) PROVE Behind(rank2)'
    <2>1. /\ Len(queue') = Len(queue) - 1 /\ Len(queue) \in Nat \ {0}
          /\ \A i \in 1..Len(queue') : queue'[i] = queue[i + 1]
      BY <1>2
    <2>2. \A i \in 1..Len(queue') : i + 1 \in 1..Len(queue) /\ rank2[i] = rank[i + 1]
      BY <1>4, <2>1 DEF Shorter
    <2>3. \A i \in 1..Len(queue') :
            queue'[i] = Sentinel => stopping /\ worker = "running" /\ before <= rank2[i]
      BY <1>12, <2>1, <2>2 DEF Behind
    <2>4. ASSUME NEW i \in 1..Len(queue'), NEW j \in 1..Len(queue'),
                 queue'[i] = Sentinel, queue'[j] = Sentinel
          PROVE  i = j
      <3>1. i + 1 = j + 1
        BY <1>12, <2>1, <2>2, <2>4 DEF Behind
      <3> QED
        BY <3>1
    <2> QED
      BY <1>2, <2>3, <2>4 DEF Behind
  <1> QED
    BY <1>1, <1>9, <1>10, <1>11, <1>12

\* The interval is over.
LEMMA WaitEndsInv == LogInv /\ WaitEnds => LogInv'
  <1> SUFFICES ASSUME LogInv, WaitEnds PROVE LogInv'
    OBVIOUS
  <1> USE DEF LogInv, Types
  <1>1. PICK rank : /\ Places(rank, queue, Len(delivered) + Len(batch), emitted)
                    /\ Orderly => Behind(rank)
    OBVIOUS
  <1>2. /\ worker = "running" /\ delivered' = delivered \o batch /\ batch' = <<>>
        /\ UNCHANGED <<queue, worker, stopping, emitted, before>>
    BY DEF WaitEnds, Flush
  <1>3. /\ delivered' \in Seq(Records) /\ Len(delivered') = Len(delivered) + Len(batch)
        /\ \A i \in 1..Len(delivered') : delivered'[i] = emitted[i]
    BY <1>2, Flushed DEF InOrder
  <1>4. Types' /\ InOrder'
    BY <1>2, <1>3 DEF InOrder
  <1>5. Places(rank, queue', Len(delivered') + Len(batch'), emitted')
    BY <1>1, <1>2, <1>3
  <1>6. Behind(rank) => Behind(rank)'
    BY <1>2 DEF Behind
  <1> QED
    BY <1>1, <1>4, <1>5, <1>6

\* The queue continues the batch, the batch what was delivered, and that the log.
LEMMA LogInvariance == MonitoringSpec => []LogInv
  <1>1. MonitoringInit => LogInv
    <2> SUFFICES ASSUME MonitoringInit PROVE LogInv
      OBVIOUS
    <2>1. queue = <<>> /\ batch = <<>> /\ emitted = <<>> /\ delivered = <<>> /\ before = 0 /\ stopping = FALSE
      BY DEF MonitoringInit
    <2>2. Types
      <3>1. <<>> \in Seq(Entries) /\ <<>> \in Seq(Records)
        OBVIOUS
      <3>2. queue \in Seq(Entries) /\ batch \in Seq(Records) /\ emitted \in Seq(Records) /\ delivered \in Seq(Records)
        BY <2>1, <3>1, Zenon
      <3> QED
        BY <2>1, <3>2 DEF Types
    <2>6. InOrder
      BY <2>1 DEF InOrder
    <2>3. PICK rank : rank = [i \in 0..0 |-> 0]
      OBVIOUS
    <2>4. Places(rank, queue, Len(delivered) + Len(batch), emitted)
      BY <2>1, <2>3 DEF Places
    <2>5. Behind(rank)
      BY <2>1 DEF Behind
    <2> QED
      BY <2>2, <2>4, <2>5, <2>6 DEF LogInv
  <1>2. LogInv /\ [MonitoringNext]_monitoringVars => LogInv'
    <2> SUFFICES ASSUME LogInv, [MonitoringNext]_monitoringVars PROVE LogInv'
      OBVIOUS
    <2>1. CASE Tick \/ Configure \/ UNCHANGED monitoringVars
      <3>1. UNCHANGED <<queue, batch, worker, stopping, emitted, delivered, before>>
        BY <2>1 DEF Tick, Configure, monitoringVars, collector, history
      <3> QED
        BY <3>1 DEF LogInv, Types, InOrder, Behind
    <2> QED
      BY <2>1, EmitInv, StopInv, StartInv, TakeSentinelInv, TakeRecordInv, WaitEndsInv DEF MonitoringNext, Worker
  <1> QED
    BY <1>1, <1>2, PTL DEF MonitoringSpec

-----------------------------------------------------------------------------
\* Over batches, intervals, stops and restarts the collector implements the log: no record
\* is lost, repeated or overtaken by another.
THEOREM ImplementsLog == MonitoringSpec => DeliversInOrder
  <1>1. MonitoringInit => Log!Init
    BY DEF MonitoringInit, Log!Init
  <1>2. LogInv /\ LogInv' /\ [MonitoringNext]_monitoringVars => [Log!Emit \/ Log!Deliver]_<<emitted, delivered>>
    <2> SUFFICES ASSUME LogInv, LogInv', [MonitoringNext]_monitoringVars
                 PROVE  Log!Emit \/ Log!Deliver \/ UNCHANGED <<emitted, delivered>>
      OBVIOUS
    <2>1. CASE Emit
      BY <2>1 DEF Emit, Log!Emit
    <2>2. CASE Worker
      <3>1. emitted' = emitted /\ \E some : delivered' \in {delivered, delivered \o some}
        BY <2>2 DEF Worker, TakeSentinel, TakeRecord, WaitEnds, Flush, KeepAlerts
      <3>2. Len(delivered) <= Len(delivered')
        <4>1. PICK rank : Places(rank, queue, Len(delivered) + Len(batch), emitted)
          BY DEF LogInv
        <4>2. ASSUME queue # <<>> PROVE Head(queue) \in Entries
          BY <4>2 DEF LogInv, Types
        <4>3. CASE TakeRecord
          <5>1. Append(batch, Head(queue)) \in Seq(Records)
            BY <4>2, <4>3 DEF TakeRecord, LogInv, Types, Entries
          <5> QED
            BY <4>3, <5>1 DEF TakeRecord, Flush, KeepAlerts, LogInv, Types
        <4>4. CASE TakeSentinel \/ WaitEnds
          BY <4>4 DEF TakeSentinel, WaitEnds, Flush, KeepAlerts, LogInv, Types
        <4> QED
          BY <2>2, <4>3, <4>4 DEF Worker
      <3>3. /\ Len(delivered') \in 0..Len(emitted) /\ Len(delivered) \in Nat
            /\ \A i \in 1..Len(delivered') : delivered'[i] = emitted[i]
            /\ \A i \in 1..Len(delivered) : delivered[i] = emitted[i]
        BY <3>1 DEF LogInv, Types, InOrder
      <3>4. delivered' = SubSeq(emitted, 1, Len(delivered'))
        BY <3>1, <3>3 DEF LogInv, Types
      <3>5. CASE Len(delivered) < Len(delivered')
        <4>1. Len(delivered') \in Len(delivered) + 1 .. Len(emitted)
          BY <3>3, <3>5
        <4> QED
          BY <3>1, <3>4, <4>1 DEF Log!Deliver
      <3>6. CASE Len(delivered) = Len(delivered')
        <4>1. delivered = SubSeq(emitted, 1, Len(delivered))
          BY <3>1, <3>3 DEF LogInv, Types
        <4>2. delivered' = delivered
          BY <3>4, <3>6, <4>1
        <4> QED
          BY <3>1, <4>2
      <3> QED
        BY <3>2, <3>3, <3>5, <3>6
    <2>3. CASE Start \/ Stop \/ Stopped \/ Tick \/ Configure \/ UNCHANGED monitoringVars
      BY <2>3 DEF Start, Stop, Stopped, Tick, Configure, monitoringVars, history
    <2> QED
      BY <2>1, <2>2, <2>3 DEF MonitoringNext
  <1> QED
    BY <1>1, <1>2, LogInvariance, PTL DEF MonitoringSpec, DeliversInOrder, Log!Spec

\* Called in turn with start(), stop() returns when all that was emitted before it is delivered.
THEOREM StopFlushes == Orderly /\ MonitoringSpec => StopFlushesRemaining
  <1> SUFFICES ASSUME Orderly PROVE MonitoringSpec => StopFlushesRemaining
    OBVIOUS
  <1>1. LogInv /\ [MonitoringNext]_monitoringVars => [stopping /\ ~stopping' => Len(delivered') >= before]_monitoringVars
    <2> SUFFICES ASSUME LogInv, MonitoringNext, stopping, ~stopping'
                 PROVE  Len(delivered') >= before
      OBVIOUS
    <2>1. Stopped
      BY DEF MonitoringNext, Emit, Start, Stop, Worker, TakeSentinel, TakeRecord, WaitEnds, Tick, Configure, collector
    <2>2. worker # "running" /\ delivered' = delivered
      BY <2>1 DEF Stopped, history
    <2>3. before <= Len(delivered)
      BY <2>2 DEF LogInv, Behind
    <2> QED
      BY <2>2, <2>3 DEF LogInv, Types
  <1> QED
    BY <1>1, LogInvariance, PTL DEF MonitoringSpec, StopFlushesRemaining

-----------------------------------------------------------------------------
(* The alerts.                                                             *)

\* The recursive function of Evaluated(b), up to n.
IsEvaluated(f, b, n) ==
    f = [i \in 0..n |-> IF i = 0 THEN [ages |-> cooldowns, fired |-> <<>>]
                                ELSE EvaluateOne(f[i - 1], b[i])]

LEMMA EvaluationExists ==
    ASSUME NEW b
    PROVE  \A n \in Nat : \E f : IsEvaluated(f, b, n)
  <1> DEFINE start == [ages |-> cooldowns, fired |-> <<>>]
             N == {n \in Nat : \E f : IsEvaluated(f, b, n)}
  <1>1. 0 \in N
    <2>1. IsEvaluated([i \in 0..0 |-> start], b, 0)
      BY DEF IsEvaluated
    <2> QED BY <2>1
  <1>2. ASSUME NEW n \in Nat, n \in N PROVE n + 1 \in N
    <2>1. PICK f : IsEvaluated(f, b, n)
      BY <1>2
    <2> HIDE DEF start
    <2> DEFINE last == EvaluateOne(f[n], b[n + 1])
               g == [i \in 0..(n + 1) |-> IF i <= n THEN f[i] ELSE last]
    <2>2. \A i \in 0..n : g[i] = f[i]
      OBVIOUS
    <2>3. g[n + 1] = last
      OBVIOUS
    <2>4. ASSUME NEW i \in 0..(n + 1)
          PROVE  g[i] = IF i = 0 THEN start ELSE EvaluateOne(g[i - 1], b[i])
      <3>1. CASE i <= n
        <4>1. i \in 0..n /\ (i # 0 => i - 1 \in 0..n)
          BY <3>1
        <4>2. f[i] = IF i = 0 THEN start ELSE EvaluateOne(f[i - 1], b[i])
          BY <2>1, <4>1 DEF IsEvaluated, start
        <4> HIDE DEF g
        <4> QED BY <2>2, <4>1, <4>2
      <3>2. CASE i = n + 1
        <4>1. n \in 0..n /\ i # 0 /\ i - 1 = n
          BY <3>2
        <4> HIDE DEF g
        <4> QED BY <2>2, <2>3, <3>2, <4>1
      <3> QED BY <3>1, <3>2
    <2>5. IsEvaluated(g, b, n + 1)
      BY <2>4 DEF IsEvaluated, start
    <2> QED BY <2>5
  <1> HIDE DEF N
  <1>3. \A n \in Nat : n \in N
    BY <1>1, <1>2, NumberInduction
  <1> QED BY <1>3 DEF N

\* The ages and cooldowns an evaluation may find, and that an alert is as silent as
\* its cooldown says.
AlertInv ==
    /\ config \in Configs
    /\ cooldowns \in [Keys -> 0..OldAge]
    /\ silence = cooldowns

\* After the first k records of b: who is in its cooldown now, that nobody was before,
\* and that the others are silent for a reason.
FiredInv(acc, b, k) ==
    /\ acc.ages \in [Keys -> 0..OldAge]
    /\ acc.fired \in Seq(SUBSET Keys) /\ Len(acc.fired) = k
    /\ \A key \in Keys :
          acc.ages[key] = IF \E j \in 1..k : key \in acc.fired[j] THEN 0 ELSE cooldowns[key]
    /\ \A j \in 1..k : \A key \in acc.fired[j] :
          /\ cooldowns[key] >= config.cooldown
          /\ config.cooldown > 0 => \A i \in 1..k : key \in acc.fired[i] => i = j
    /\ \A j \in 1..k : \A alert \in Triggered(b[j], config) :
          \/ \E i \in 1..k : Key(alert, b[j]) \in acc.fired[i]
          \/ cooldowns[Key(alert, b[j])] < config.cooldown

\* One record more.
LEMMA EvaluateOneFires ==
    ASSUME AlertInv, NEW b, NEW k \in Nat, b[k + 1] \in Records, NEW acc, FiredInv(acc, b, k)
    PROVE  FiredInv(EvaluateOne(acc, b[k + 1]), b, k + 1)
  <1>1. PICK r \in Records : r = b[k + 1]
    OBVIOUS
  <1>2. PICK some : some = {key \in {Key(alert, r) : alert \in Triggered(r, config)} :
                             ~InCooldown(key, acc.ages)}
    OBVIOUS
  <1>3. PICK ages : ages = [key \in Keys |-> IF key \in some THEN 0 ELSE acc.ages[key]]
    OBVIOUS
  <1>4. PICK fired : fired = Append(acc.fired, some)
    OBVIOUS
  <1>5. PICK new : new = EvaluateOne(acc, r)
    OBVIOUS
  <1>6. new.ages = ages /\ new.fired = fired
    BY <1>2, <1>3, <1>4, <1>5 DEF EvaluateOne
  <1>7. \A alert \in Triggered(r, config) : Key(alert, r) \in Keys
    BY DEF Keys, Triggered
  <1>8. config.cooldown \in 0..OldAge /\ OldAge \in Nat /\ cooldowns \in [Keys -> 0..OldAge]
    BY AlertAssumption DEF AlertInv
  <1>9. /\ acc.ages \in [Keys -> 0..OldAge]
        /\ acc.fired \in Seq(SUBSET Keys) /\ Len(acc.fired) = k
        /\ \A key \in Keys :
              acc.ages[key] = IF \E j \in 1..k : key \in acc.fired[j] THEN 0 ELSE cooldowns[key]
    BY DEF FiredInv
  <1>10. some \subseteq Keys /\ \A key \in some : acc.ages[key] >= config.cooldown
    <2>1. ASSUME NEW key \in some PROVE key \in Keys /\ acc.ages[key] >= config.cooldown
      <3>1. key \in Keys /\ ~(acc.ages[key] < config.cooldown)
        BY <1>2, <1>7 DEF InCooldown
      <3>2. acc.ages[key] \in 0..OldAge
        BY <1>9, <3>1
      <3> QED BY <1>8, <3>1, <3>2
    <2> QED BY <2>1
  <1>11. /\ fired \in Seq(SUBSET Keys) /\ Len(fired) = k + 1 /\ fired[k + 1] = some
         /\ \A j \in 1..k : fired[j] = acc.fired[j]
    <2>1. PICK old \in Seq(SUBSET Keys) : old = acc.fired
      BY <1>9
    <2>2. some \in SUBSET Keys
      BY <1>10
    <2>3. fired = Append(old, some) /\ Len(old) = k
      BY <1>4, <1>9, <2>1
    <2> QED BY <2>1, <2>2, <2>3
  <1>12. ages \in [Keys -> 0..OldAge]
    BY <1>3, <1>8, <1>9
  <1>13. \A j \in 1..(k + 1) : j \in 1..k \/ j = k + 1
    OBVIOUS
  <1>14. \A j \in 1..k : j \in 1..(k + 1)
    OBVIOUS
  <1>15. ASSUME NEW key \in Keys
         PROVE  ages[key] = IF \E j \in 1..(k + 1) : key \in fired[j] THEN 0 ELSE cooldowns[key]
    <2>1. k + 1 \in 1..(k + 1)
      OBVIOUS
    <2>2. (\E j \in 1..(k + 1) : key \in fired[j])
            <=> (key \in some \/ \E j \in 1..k : key \in acc.fired[j])
      BY <1>11, <1>13, <1>14, <2>1
    <2> QED BY <1>3, <1>9, <2>2
  <1>16. ASSUME NEW j \in 1..(k + 1), NEW key \in fired[j]
         PROVE  /\ cooldowns[key] >= config.cooldown
                /\ config.cooldown > 0 => \A i \in 1..(k + 1) : key \in fired[i] => i = j
    <2>1. ASSUME NEW i \in 1..k, key \in acc.fired[i] 
          PROVE  /\ cooldowns[key] >= config.cooldown
                 /\ config.cooldown > 0 => \A m \in 1..k : key \in acc.fired[m] => m = i
                 /\ key \in some => ~(config.cooldown > 0)
      <3>1. /\ cooldowns[key] >= config.cooldown
            /\ config.cooldown > 0 => \A m \in 1..k : key \in acc.fired[m] => m = i
        BY <2>1 DEF FiredInv
      <3>2. ASSUME key \in some PROVE ~(config.cooldown > 0)
        <4>1. acc.ages[key] = 0 /\ acc.ages[key] >= config.cooldown
          BY <1>9, <1>10, <2>1, <3>2
        <4> QED BY <1>8, <4>1
      <3> QED BY <3>1, <3>2
    <2>2. ASSUME key \in some, \A i \in 1..k : key \notin acc.fired[i]
          PROVE  cooldowns[key] >= config.cooldown
      BY <1>9, <1>10, <2>2
    <2>3. CASE j \in 1..k
      BY <1>11, <1>13, <2>1, <2>3
    <2>4. CASE j = k + 1
      BY <1>11, <1>13, <2>1, <2>2, <2>4
    <2> QED BY <1>13, <2>3, <2>4
  <1>17. ASSUME NEW j \in 1..(k + 1), NEW alert \in Triggered(b[j], config)
         PROVE  \/ \E i \in 1..(k + 1) : Key(alert, b[j]) \in fired[i]
                \/ cooldowns[Key(alert, b[j])] < config.cooldown
    <2>1. CASE j \in 1..k
      <3>1. \/ \E i \in 1..k : Key(alert, b[j]) \in acc.fired[i]
            \/ cooldowns[Key(alert, b[j])] < config.cooldown
        BY <2>1 DEF FiredInv
      <3> QED BY <1>11, <1>14, <3>1
    <2>2. CASE j = k + 1
      <3>1. PICK key : key = Key(alert, b[j])
        OBVIOUS
      <3>2. key \in Keys /\ (key \in some \/ acc.ages[key] < config.cooldown)
        BY <1>1, <1>2, <1>7, <2>2, <3>1 DEF InCooldown
      <3>3. CASE key \in some
        BY <1>11, <2>2, <3>1, <3>3
      <3>4. CASE acc.ages[key] < config.cooldown /\ \E i \in 1..k : key \in acc.fired[i]
        BY <1>11, <1>14, <3>1, <3>4
      <3>5. CASE acc.ages[key] < config.cooldown /\ ~\E i \in 1..k : key \in acc.fired[i]
        BY <1>9, <3>1, <3>2, <3>5
      <3> QED BY <3>2, <3>3, <3>4, <3>5
    <2> QED BY <1>13, <2>1, <2>2
  <1> QED BY <1>1, <1>5, <1>6, <1>11, <1>12, <1>15, <1>16, <1>17 DEF FiredInv

\* What an evaluation of a batch leaves.
LEMMA EvaluatedFires ==
    ASSUME AlertInv, NEW b \in Seq(Records)
    PROVE  FiredInv(Evaluated(b), b, Len(b))
  <1>1. PICK f : IsEvaluated(f, b, Len(b)) /\ Evaluated(b) = f[Len(b)]
    <2>1. \E f : IsEvaluated(f, b, Len(b))
      <3>1. Len(b) \in Nat
        OBVIOUS
      <3> QED BY <3>1, EvaluationExists
    <2> QED BY <2>1 DEF Evaluated, IsEvaluated
  <1>2. \A i \in 0..Len(b) : f[i] = IF i = 0 THEN [ages |-> cooldowns, fired |-> <<>>]
                                             ELSE EvaluateOne(f[i - 1], b[i])
    BY <1>1, Zenon DEF IsEvaluated
  <1> DEFINE N == {k \in Nat : k <= Len(b) => FiredInv(f[k], b, k)}
  <1>3. 0 \in N
    <2>1. f[0] = [ages |-> cooldowns, fired |-> <<>>]
      BY <1>2
    <2>2. <<>> \in Seq(SUBSET Keys) /\ Len(<<>>) = 0
      OBVIOUS
    <2>3. f[0].ages = cooldowns /\ f[0].fired = <<>>
      BY <2>1
    <2>4. \A j \in 1..0 : FALSE
      OBVIOUS
    <2>5. FiredInv(f[0], b, 0)
      BY <2>2, <2>3, <2>4 DEF FiredInv, AlertInv
    <2> QED BY <2>5
  <1>4. ASSUME NEW k \in Nat, k \in N PROVE k + 1 \in N
    <2> SUFFICES ASSUME k + 1 <= Len(b) PROVE FiredInv(f[k + 1], b, k + 1)
      OBVIOUS
    <2>1. FiredInv(f[k], b, k) /\ k + 1 \in 0..Len(b) /\ (k + 1) - 1 = k /\ k + 1 # 0
      BY <1>4
    <2>2. b[k + 1] \in Records
      OBVIOUS
    <2>3. f[k + 1] = EvaluateOne(f[k], b[k + 1])
      BY <1>2, <2>1
    <2>4. FiredInv(EvaluateOne(f[k], b[k + 1]), b, k + 1)
      BY <2>1, <2>2, EvaluateOneFires
    <2> QED BY <2>3, <2>4
  <1> HIDE DEF N
  <1>5. \A k \in Nat : k \in N
    BY <1>3, <1>4, NumberInduction
  <1>6. FiredInv(f[Len(b)], b, Len(b))
    <2>1. Len(b) \in Nat /\ Len(b) <= Len(b)
      OBVIOUS
    <2> QED BY <1>5, <2>1 DEF N
  <1> QED BY <1>1, <1>6

LEMMA AlertInvariance == MonitoringSpec => []AlertInv
  <1>1. MonitoringInit => AlertInv
    <2>1. OldAge \in 0..OldAge
      BY AlertAssumption
    <2> QED BY <2>1 DEF MonitoringInit, AlertInit, AlertInv
  <1>2. LogInv /\ AlertInv /\ [MonitoringNext]_monitoringVars => AlertInv'
    <2> SUFFICES ASSUME LogInv, AlertInv, [MonitoringNext]_monitoringVars PROVE AlertInv'
      OBVIOUS
    <2>1. ASSUME NEW b \in Seq(Records), EvaluateBatch(b) PROVE AlertInv'
      <3>1. PICK after : after = Evaluated(b)
        OBVIOUS
      <3>2. FiredInv(after, b, Len(b))
        BY <2>1, <3>1, EvaluatedFires
      <3>3. /\ cooldowns' = after.ages /\ config' = config
            /\ silence' = [k \in Keys |-> IF k \in UNION ToSet(after.fired) THEN 0 ELSE silence[k]]
        BY <2>1, <3>1 DEF EvaluateBatch
      <3>4. /\ after.ages \in [Keys -> 0..OldAge]
            /\ after.fired \in Seq(SUBSET Keys) /\ Len(after.fired) = Len(b)
            /\ \A key \in Keys :
                  after.ages[key] = IF \E j \in 1..Len(b) : key \in after.fired[j] THEN 0 ELSE cooldowns[key]
        BY <3>2 DEF FiredInv
      <3>5. \A key : key \in UNION ToSet(after.fired) <=> \E j \in 1..Len(b) : key \in after.fired[j]
        BY <3>4 DEF ToSet
      <3>6. ASSUME NEW key \in Keys PROVE silence'[key] = after.ages[key]
        BY <3>3, <3>4, <3>5 DEF AlertInv
      <3>7. silence' = cooldowns'
        BY <3>3, <3>4, <3>6
      <3> QED BY <3>3, <3>4, <3>7 DEF AlertInv
    <2>2. CASE UNCHANGED <<config, cooldowns, silence>>
      BY <2>2 DEF AlertInv
    <2>3. CASE Worker
      <3>1. batch \in Seq(Records) /\ (queue # <<>> => Head(queue) \in Entries)
        BY DEF LogInv, Types
      <3>2. TakeRecord => Append(batch, Head(queue)) \in Seq(Records)
        BY <3>1 DEF TakeRecord, Entries
      <3>3. (\E b \in Seq(Records) : EvaluateBatch(b)) \/ UNCHANGED <<config, cooldowns, silence>>
        BY <2>3, <3>1, <3>2 DEF Worker, TakeSentinel, TakeRecord, WaitEnds, Flush, KeepAlerts, alertVars
      <3> QED BY <2>1, <2>2, <3>3
    <2>4. CASE Tick
      <3>1. cooldowns' = Older(cooldowns) /\ silence' = Older(silence) /\ config' = config
        BY <2>4 DEF Tick, AlertTick
      <3>2. Older(cooldowns) \in [Keys -> 0..OldAge]
        BY AlertAssumption DEF AlertInv, Older
      <3> QED BY <3>1, <3>2 DEF AlertInv
    <2>5. CASE Configure
      BY <2>5 DEF Configure, UpdateConfig, AlertInv
    <2>6. CASE Emit \/ Start \/ Stop \/ Stopped \/ UNCHANGED monitoringVars
      BY <2>2, <2>6 DEF Emit, Start, Stop, Stopped, monitoringVars, alertVars
    <2> QED BY <2>3, <2>4, <2>5, <2>6 DEF MonitoringNext
  <1> QED BY <1>1, <1>2, LogInvariance, PTL DEF MonitoringSpec

\* A step that delivers evaluates what it delivers.
LEMMA DeliveryEvaluates ==
    ASSUME LogInv, MonitoringNext, delivered' # delivered
    PROVE  \E b \in Seq(Records) : delivered' = delivered \o b /\ EvaluateBatch(b)
  <1>1. Worker
    BY DEF MonitoringNext, Emit, Start, Stop, Stopped, Tick, Configure, collector, history
  <1>2. batch \in Seq(Records) /\ (queue # <<>> => Head(queue) \in Entries)
    BY DEF LogInv, Types
  <1>3. TakeRecord => Append(batch, Head(queue)) \in Seq(Records)
    BY <1>2 DEF TakeRecord, Entries
  <1> QED BY <1>1, <1>2, <1>3 DEF Worker, TakeSentinel, TakeRecord, WaitEnds, Flush, KeepAlerts

\* No alert is fired twice within its cooldown, in one batch or over several, whatever
\* the thresholds, the records and the updates of the configuration.
THEOREM QuietHolds == MonitoringSpec => QuietInCooldown
  <1>1. ASSUME LogInv, AlertInv, MonitoringNext, NEW i \in DOMAIN alerts', NEW key \in alerts'[i],
               delivered' # delivered
        PROVE  /\ silence[key] >= config.cooldown
               /\ config.cooldown > 0 => \A j \in DOMAIN alerts' : key \in alerts'[j] => i = j
    <2>1. PICK b \in Seq(Records) : EvaluateBatch(b)
      BY <1>1, DeliveryEvaluates
    <2>2. PICK after : after = Evaluated(b)
      OBVIOUS
    <2>3. FiredInv(after, b, Len(b)) /\ alerts' = after.fired
      BY <1>1, <2>1, <2>2, EvaluatedFires DEF EvaluateBatch
    <2>4. DOMAIN alerts' = 1..Len(b)
      BY <2>3 DEF FiredInv
    <2>5. /\ cooldowns[key] >= config.cooldown
          /\ config.cooldown > 0 => \A j \in 1..Len(b) : key \in after.fired[j] => j = i
      BY <1>1, <2>3, <2>4 DEF FiredInv
    <2> QED BY <1>1, <2>3, <2>4, <2>5 DEF AlertInv
  <1>2. LogInv /\ AlertInv /\ [MonitoringNext]_monitoringVars =>
          [\A i \in DOMAIN alerts' : \A key \in alerts'[i] : delivered' # delivered =>
              /\ silence[key] >= config.cooldown
              /\ config.cooldown > 0 => \A j \in DOMAIN alerts' : key \in alerts'[j] => i = j]_monitoringVars
    BY <1>1
  <1> QED BY <1>2, LogInvariance, AlertInvariance, PTL DEF MonitoringSpec, QuietInCooldown

\* A breach in a flushed batch is never silent by the alert of another scope or
\* operation.
THEOREM BreachHolds == MonitoringSpec => EveryBreachIsAlerted
  <1>1. ASSUME LogInv, AlertInv, MonitoringNext, NEW i \in Len(delivered) + 1 .. Len(delivered'),
               NEW alert \in Triggered(delivered'[i], config), NEW key, key = Key(alert, delivered'[i])
        PROVE  silence'[key] < config.cooldown \/ key \in UNION ToSet(alerts')
    <2>1. delivered \in Seq(Records) /\ Len(delivered) \in Nat
      BY <1>1 DEF LogInv, Types
    <2>2. delivered' # delivered
      BY <1>1, <2>1
    <2>3. PICK b \in Seq(Records) : delivered' = delivered \o b /\ EvaluateBatch(b)
      BY <1>1, <2>2, DeliveryEvaluates
    <2>4. PICK after : after = Evaluated(b)
      OBVIOUS
    <2>5. /\ FiredInv(after, b, Len(b)) /\ alerts' = after.fired
          /\ silence' = [k \in Keys |-> IF k \in UNION ToSet(after.fired) THEN 0 ELSE silence[k]]
      BY <1>1, <2>3, <2>4, EvaluatedFires DEF EvaluateBatch
    <2>6. PICK j \in 1..Len(b) : delivered'[i] = b[j]
      <3>1. Len(delivered') = Len(delivered) + Len(b) /\ Len(b) \in Nat
        BY <2>1, <2>3
      <3>2. i - Len(delivered) \in 1..Len(b)
        BY <2>1, <3>1
      <3>3. delivered'[i] = b[i - Len(delivered)]
        BY <2>1, <2>3, <3>1
      <3> QED BY <3>2, <3>3
    <2>7. b[j] \in Records /\ key = Key(alert, b[j]) /\ key \in Keys
      BY <1>1, <2>6 DEF Keys, Triggered
    <2>8. (\E m \in 1..Len(b) : key \in after.fired[m]) \/ cooldowns[key] < config.cooldown
      BY <1>1, <2>5, <2>6, <2>7 DEF FiredInv
    <2>9. after.fired \in Seq(SUBSET Keys) /\ Len(after.fired) = Len(b)
      BY <2>5 DEF FiredInv
    <2>10. CASE key \in UNION ToSet(after.fired)
      BY <2>5, <2>10
    <2>11. CASE key \notin UNION ToSet(after.fired)
      <3>1. ~\E m \in 1..Len(b) : key \in after.fired[m]
        BY <2>9, <2>11 DEF ToSet
      <3>2. silence'[key] = cooldowns[key]
        BY <1>1, <2>5, <2>7, <2>11 DEF AlertInv
      <3> QED BY <2>8, <3>1, <3>2
    <2> QED BY <2>10, <2>11
  <1>2. LogInv /\ AlertInv /\ [MonitoringNext]_monitoringVars =>
          [\A i \in Len(delivered) + 1 .. Len(delivered') : \A alert \in Triggered(delivered'[i], config) :
              LET key == Key(alert, delivered'[i])
              IN silence'[key] < config.cooldown \/ key \in UNION ToSet(alerts')]_monitoringVars
    BY <1>1
  <1> QED BY <1>2, LogInvariance, AlertInvariance, PTL DEF MonitoringSpec, EveryBreachIsAlerted

-----------------------------------------------------------------------------
(* The life cycle.                                                         *)

Pgvector == deploy.vector = "pgvector"

\* What the bootstrap has opened for the deployment when it is through.
StoresOpen == deploy.library = "ok" => "vector" \in open /\ (Pgvector => "engine" \in open)

Listed(list) == {list[i] : i \in DOMAIN list}
Pending == Listed(cleanup)

\* The bootstrap, step by step.
BootstrapInv ==
    /\ phase \in {"down", "memory", "engine", "store", "register", "failed"} =>
         wired = {} /\ cleanup = <<>> /\ processor = FALSE /\ lost = {}
    /\ phase \in {"down", "memory", "engine"} => open = {}
    /\ phase = "store" => open \subseteq {"engine"} /\ (Pgvector => "engine" \in open)
    /\ phase = "register" => open \subseteq {"engine", "vector"} /\ StoresOpen
    /\ phase = "register" => "vector" \in open

\* The router has what it was given, and the exit knows of all that is open.
RouterInv ==
    /\ phase \in {"wiring", "starting", "serving"} /\ "ltm" \in wired => StoresOpen
    /\ phase \in {"wiring", "starting", "serving", "closing llm", "closing ltm"} =>
         open \subseteq lost \cup Pending \cup {"llm"}
    /\ phase \in {"wiring", "closing ltm"} => open \subseteq lost \cup Pending
    /\ processor => phase = "serving" /\ "ltm" \in wired

IInv ==
    /\ LifecycleTypeOK
    /\ BootstrapInv
    /\ RouterInv
    /\ ServingIsReady
    /\ UnavailableIsNotFatal
    /\ ExitClosesTheRest

USE DEF Pgvector, StoresOpen, Pending, Phases, Resources, Goto, KeepAll, Unavailable, LifecycleTypeOK,
        BootstrapInv, RouterInv, ServingIsReady, UnavailableIsNotFatal, ExitClosesTheRest

\* The lists the adapter closes, one element after the other.
LEMMA Lists ==
    /\ <<>> \in Cleanups /\ Listed(<<>>) = {}
    /\ <<"vector">> \in Cleanups /\ Listed(<<"vector">>) = {"vector"}
    /\ <<"engine", "vector">> \in Cleanups /\ Listed(<<"engine", "vector">>) = {"engine", "vector"}
    /\ \A list \in Cleanups : list # <<>> =>
         Tail(list) \in Cleanups /\ Listed(list) \subseteq {Head(list)} \cup Listed(Tail(list))
  <1>1. Listed(<<>>) = {}
    BY DEF Listed
  <1>2. Listed(<<"vector">>) = {"vector"}
    BY DEF Listed
  <1>3. Listed(<<"engine", "vector">>) = {"engine", "vector"}
    <2>1. DOMAIN <<"engine", "vector">> = {1, 2}
      OBVIOUS
    <2> QED
      BY <2>1 DEF Listed
  <1>4. Head(<<"vector">>) = "vector" /\ Tail(<<"vector">>) = <<>>
    OBVIOUS
  <1>5. Head(<<"engine", "vector">>) = "engine" /\ Tail(<<"engine", "vector">>) = <<"vector">>
    OBVIOUS
  <1> QED
    BY <1>1, <1>2, <1>3, <1>4, <1>5 DEF Cleanups

\* The service before its start: nothing is open and nothing is wired.
LEMMA InitInv == LifecycleInit => IInv
  BY Lists DEF LifecycleInit, IInv

\* Going on without the long-term memory: what is open is lost.
LEMMA UnavailableInv ==
    ASSUME IInv, phase \in {"memory", "engine", "store", "register"}, Unavailable
    PROVE  RouterInv'
  <1>1. wired' = {} /\ processor' = FALSE /\ phase' = "wiring" /\ open' \subseteq lost'
    BY DEF IInv
  <1> QED
    BY <1>1

\* The steps of the start keep the invariant.
LEMMA StartupInv == IInv /\ Startup => IInv'
  <1> SUFFICES ASSUME IInv, Startup PROVE IInv'
    OBVIOUS
  <1>1. CASE LoadConfig
    <2>1. /\ phase = "down" /\ phase' \in {"wiring", "failed", "memory"} /\ deploy' = deploy
          /\ phase' = "failed" => deploy.file = "unreadable"
      <3>1. deploy.file \in {"absent", "unreadable", "ok"}
        BY DeploymentAssumption DEF IInv, Deployment
      <3> QED
        BY <1>1, <3>1 DEF LoadConfig, IInv
    <2>2. open' = {} /\ wired' = {} /\ lost' = {} /\ cleanup' = <<>> /\ processor' = FALSE
      BY <1>1 DEF LoadConfig, IInv
    <2> QED
      BY <2>1, <2>2, Lists DEF IInv
  <1>2. CASE ImportLibrary
    <2>1. LifecycleTypeOK'
      BY <1>2, Lists DEF ImportLibrary, IInv
    <2>2. BootstrapInv'
      BY <1>2 DEF ImportLibrary, IInv
    <2>3. RouterInv'
      <3>1. CASE deploy.library = "bare" /\ ~Unavailable /\ phase' = "wiring"
        <4>1. wired' = {"ltm"} /\ open' = {} /\ processor' = FALSE /\ deploy' = deploy
          BY <1>2, <3>1 DEF ImportLibrary, IInv
        <4> QED
          BY <3>1, <4>1
      <3>2. CASE phase' \in {"engine", "failed"}
        <4>1. processor' = FALSE
          BY <1>2 DEF ImportLibrary, IInv
        <4> QED
          BY <3>2, <4>1
      <3> QED
        BY <1>2, <3>1, <3>2, UnavailableInv DEF ImportLibrary, IInv
    <2>4. ServingIsReady' /\ UnavailableIsNotFatal' /\ ExitClosesTheRest'
      BY <1>2 DEF ImportLibrary, IInv
    <2> QED
      BY <2>1, <2>2, <2>3, <2>4 DEF IInv
  <1>3. CASE OpenEngine
    <2>1. LifecycleTypeOK'
      BY <1>3, Lists DEF OpenEngine, IInv
    <2>2. BootstrapInv'
      BY <1>3 DEF OpenEngine, IInv
    <2>3. RouterInv'
      <3>1. CASE phase' \in {"failed", "store"}
        <4>1. processor' = FALSE
          BY <1>3, <3>1 DEF OpenEngine, IInv
        <4> QED
          BY <3>1, <4>1
      <3> QED
        BY <1>3, <3>1, UnavailableInv DEF OpenEngine, IInv
    <2>4. ServingIsReady' /\ UnavailableIsNotFatal' /\ ExitClosesTheRest'
      BY <1>3 DEF OpenEngine, IInv
    <2> QED
      BY <2>1, <2>2, <2>3, <2>4 DEF IInv
  <1>4. CASE OpenVectorStore
    <2>1. LifecycleTypeOK'
      BY <1>4, Lists DEF OpenVectorStore, IInv
    <2>2. BootstrapInv'
      BY <1>4 DEF OpenVectorStore, IInv
    <2>3. RouterInv'
      <3>1. CASE phase' = "register"
        <4>1. processor' = FALSE
          BY <1>4, <3>1 DEF OpenVectorStore, IInv
        <4> QED
          BY <3>1, <4>1
      <3> QED
        BY <1>4, <3>1, UnavailableInv DEF OpenVectorStore, IInv
    <2>4. ServingIsReady' /\ UnavailableIsNotFatal' /\ ExitClosesTheRest'
      BY <1>4 DEF OpenVectorStore, IInv
    <2> QED
      BY <2>1, <2>2, <2>3, <2>4 DEF IInv
  <1>5. CASE RegisterStores
    <2>1. LifecycleTypeOK'
      BY <1>5, Lists DEF RegisterStores, IInv
    <2>2. BootstrapInv'
      BY <1>5 DEF RegisterStores, IInv
    <2>3. RouterInv'
      <3>1. CASE ~Unavailable
        <4>1. /\ wired' = {"ltm"} /\ processor' = FALSE /\ phase' = "wiring"
              /\ open' = open /\ open \subseteq {"engine", "vector"} /\ StoresOpen /\ deploy' = deploy
          BY <1>5, <3>1 DEF RegisterStores, IInv
        <4>2. open \subseteq Listed(cleanup')
          BY <1>5, <3>1, <4>1, Lists DEF RegisterStores
        <4> QED
          BY <4>1, <4>2
      <3> QED
        BY <1>5, <3>1, UnavailableInv DEF RegisterStores, IInv
    <2>4. ServingIsReady' /\ UnavailableIsNotFatal' /\ ExitClosesTheRest'
      BY <1>5 DEF RegisterStores, IInv
    <2> QED
      BY <2>1, <2>2, <2>3, <2>4 DEF IInv
  <1>6. CASE WireRouter
    BY <1>6, Lists DEF WireRouter, IInv
  <1>7. CASE StartProcessor
    <2>1. LifecycleTypeOK'
      BY <1>7, Lists DEF StartProcessor, IInv
    <2>2. BootstrapInv'
      BY <1>7 DEF StartProcessor, IInv
    <2>3. RouterInv'
      BY <1>7, Lists DEF StartProcessor, IInv
    <2>4. ServingIsReady' /\ UnavailableIsNotFatal' /\ ExitClosesTheRest'
      BY <1>7 DEF StartProcessor, IInv
    <2> QED
      BY <2>1, <2>2, <2>3, <2>4 DEF IInv
  <1> QED
    BY <1>1, <1>2, <1>3, <1>4, <1>5, <1>6, <1>7 DEF Startup

\* The steps of the exit keep the invariant.
LEMMA ShutdownInv == IInv /\ Shutdown => IInv'
  <1> SUFFICES ASSUME IInv, Shutdown PROVE IInv'
    OBVIOUS
  <1>1. CASE StopProcessor
    BY <1>1, Lists DEF StopProcessor, IInv
  <1>2. CASE CloseLlm
    BY <1>2, Lists DEF CloseLlm, IInv
  <1>3. CASE CloseNext
    BY <1>3, Lists DEF CloseNext, IInv
  <1>4. CASE CloseRaises
    BY <1>4, Lists DEF CloseRaises, IInv
  <1>5. CASE ExitEnds
    BY <1>5, Lists DEF ExitEnds, IInv
  <1> QED
    BY <1>1, <1>2, <1>3, <1>4, <1>5 DEF Shutdown

\* The invariant holds throughout the life of the service.
LEMMA LifecycleInv == LifecycleSpec => []IInv
  <1>1. IInv /\ UNCHANGED lifecycleVars => IInv'
    <2> SUFFICES ASSUME IInv, UNCHANGED lifecycleVars PROVE IInv'
      OBVIOUS
    <2>1. LifecycleTypeOK' /\ BootstrapInv'
      BY DEF IInv, lifecycleVars
    <2>2. RouterInv'
      BY DEF IInv, lifecycleVars
    <2>3. ServingIsReady' /\ UnavailableIsNotFatal' /\ ExitClosesTheRest'
      BY DEF IInv, lifecycleVars
    <2> QED
      BY <2>1, <2>2, <2>3 DEF IInv
  <1>2. IInv /\ [LifecycleNext]_lifecycleVars => IInv'
    BY <1>1, StartupInv, ShutdownInv DEF LifecycleNext
  <1> QED
    BY InitInv, <1>2, PTL DEF LifecycleSpec

\* The states of the life cycle are of their types.
THEOREM LifecycleTyped == LifecycleSpec => []LifecycleTypeOK
  <1>1. IInv => LifecycleTypeOK
    BY DEF IInv
  <1> QED
    BY LifecycleInv, <1>1, PTL

\* While the processor runs, what its long-term memory was built on is open, however it was
\* installed and configured and whichever step of the start failed before.
THEOREM ProcessorStores == LifecycleSpec => []ProcessorHasItsStores
  <1>1. IInv => ProcessorHasItsStores
    BY DEF IInv, ProcessorHasItsStores
  <1> QED
    BY LifecycleInv, <1>1, PTL

\* A serving service runs its processor exactly when it has a long-term memory.
THEOREM ServiceReady == LifecycleSpec => []ServingIsReady
  <1>1. IInv => ServingIsReady
    BY DEF IInv
  <1> QED
    BY LifecycleInv, <1>1, PTL

\* Nothing but an unusable configuration, or a library too old, ends the start.
THEOREM StartFails == LifecycleSpec => []UnavailableIsNotFatal
  <1>1. IInv => UnavailableIsNotFatal
    BY DEF IInv
  <1> QED
    BY LifecycleInv, <1>1, PTL

\* After the exit all is closed, but what a failed step of the start or of the exit gave up.
THEOREM ExitCloses == LifecycleSpec => []ExitClosesTheRest
  <1>1. IInv => ExitClosesTheRest
    BY DEF IInv
  <1> QED
    BY LifecycleInv, <1>1, PTL

-----------------------------------------------------------------------------
(* The health checks.                                                      *)

Statuses == {"none", "asking", "ok", "degraded", "skipped"}
Served == {"serving", "closing llm", "closing ltm", "stopped"}

\* The checks of one GET /health begin together, while the service serves.
ReportInv ==
    /\ deploy \in Deployments
    /\ report \in [Components -> Statuses]
    /\ \/ \A c \in Components : report[c] = "none"
       \/ /\ \A c \in Components : report[c] # "none"
          /\ phase \in Served /\ up \subseteq wasUp
    /\ Asking => phase = "serving"
    /\ phase = "serving" /\ deploy.file = "ok" => known = "ok"

\* What each component may say.
ComponentInv ==
    /\ report["environment"] = "ok" => deploy.llm # "placeholder"
    /\ report["environment"] # "skipped"
    /\ report["llm"] = "ok" => "llm" \in wasUp
    /\ report["llm"] = "skipped" => deploy.llm = "placeholder" \/ "llm" \notin wired
    /\ report["embedding"] = "ok" => "embedding" \in wasUp
    /\ report["embedding"] = "skipped" => ~(deploy.file = "ok" /\ deploy.embedding = "set")
    /\ report["pgvector"] = "ok" => "store" \in wasUp /\ "ltm" \in wired
    /\ report["pgvector"] = "skipped" => ~(deploy.file = "ok" /\ deploy.vector = "pgvector")

HealthInv == ReportInv /\ ComponentInv

\* A component that reports changes nothing of the others.
LEMMA OneReport ==
    ASSUME HealthInv, NEW c \in Components, NEW status \in {"ok", "degraded", "skipped"},
           Reports(c, status) \/ (c \in Waiting /\ Late(c, status)),
           deploy.file = "ok" => known' = known
    PROVE  /\ ReportInv'
           /\ phase = "serving" /\ up \subseteq wasUp
           /\ report'[c] = status /\ \A d \in Components \ {c} : report'[d] = report[d]
           /\ UNCHANGED <<deploy, wired, wasUp>>
  <1>1. UNCHANGED <<deploy, phase, wired, up, wasUp>> /\ report[c] = "asking"
    BY DEF Reports, Late, Waiting, lifecycleVars
  <1>2. report' = [report EXCEPT ![c] = status]
    BY DEF Reports, Late
  <1>3. report[c] = "asking" /\ Asking
    BY <1>1 DEF Asking
  <1>4. /\ report' \in [Components -> Statuses]
        /\ report'[c] = status /\ \A d \in Components \ {c} : report'[d] = report[d]
    BY <1>2 DEF HealthInv, ReportInv, Statuses
  <1>5. phase = "serving" /\ up \subseteq wasUp /\ \A d \in Components : report[d] # "none"
    BY <1>3 DEF HealthInv, ReportInv
  <1> QED
    BY <1>1, <1>4, <1>5 DEF HealthInv, ReportInv, Served

\* While the service serves the config it started with is not read again.
LEMMA KnownStays == ReportInv /\ Asking /\ deploy.file = "ok" => Known = known
  BY DEF ReportInv, Known

\* Before the first check nobody reports.
LEMMA HealthInit == Init => HealthInv
  BY DEF Init, LifecycleInit, HealthInv, ReportInv, ComponentInv, Components, Statuses, Asking

\* Without a report there is little to keep.
LEMMA NothingReported ==
    ASSUME HealthInv, phase \notin Served, UNCHANGED <<deploy, report>>,
           phase' = "serving" /\ deploy.file = "ok" => known' = "ok"
    PROVE  HealthInv'
  <1>1. \A c \in Components : report[c] = "none" /\ report'[c] = "none"
    BY DEF HealthInv, ReportInv
  <1> QED
    BY <1>1 DEF HealthInv, ReportInv, ComponentInv, Asking, Components

\* The start and the exit, which wait for the checks, take no report away and add none.
LEMMA LiveInv == HealthInv /\ Live => HealthInv'
  <1> SUFFICES ASSUME HealthInv, Live PROVE HealthInv'
    OBVIOUS
  <1>1. CASE /\ LoadConfig \/ ImportLibrary \/ OpenEngine \/ OpenVectorStore \/ RegisterStores \/ WireRouter
             /\ UNCHANGED healthVars
    <2>1. deploy.file \in {"absent", "unreadable", "ok"}
      BY DeploymentAssumption DEF HealthInv, ReportInv, Deployment
    <2>2. phase \notin Served /\ phase' \notin Served /\ UNCHANGED <<deploy, report, known>>
      BY <1>1, <2>1 DEF Goto, KeepAll, Unavailable, LoadConfig, ImportLibrary, OpenEngine,
            OpenVectorStore, RegisterStores, WireRouter, healthVars, Served
    <2> QED
      BY <2>2, NothingReported DEF Served
  <1>2. CASE Serve
    <2>1. /\ phase \notin Served /\ phase' = "serving" /\ UNCHANGED <<deploy, report>>
          /\ deploy.file = "ok" => known' = "ok"
      BY <1>2 DEF Serve, StartProcessor, Goto, Served
    <2> QED
      BY <2>1, NothingReported
  <1>3. CASE ~Asking /\ Shutdown /\ UNCHANGED healthVars
    <2>1. phase' \in Served \ {"serving"} /\ UNCHANGED <<deploy, wired, healthVars>> /\ phase \in Served
      BY <1>3 DEF Shutdown, StopProcessor, CloseLlm, CloseNext, CloseRaises, ExitEnds, Goto, KeepAll, Served
    <2>2. UNCHANGED <<deploy, wired, report, known, up, wasUp>>
      BY <2>1 DEF healthVars
    <2>3. ReportInv'
      BY <1>3, <2>1, <2>2 DEF HealthInv, ReportInv, Asking, Served
    <2>4. ComponentInv'
      BY <2>2 DEF HealthInv, ComponentInv
    <2> QED
      BY <2>3, <2>4 DEF HealthInv
  <1> QED
    BY <1>1, <1>2, <1>3 DEF Live

\* What comes and goes around the service, and the begin of a check.
LEMMA AroundInv == HealthInv /\ (Flip \/ FileAppears \/ BeginCheck) => HealthInv'
  <1> SUFFICES ASSUME HealthInv, Flip \/ FileAppears \/ BeginCheck PROVE HealthInv'
    OBVIOUS
  <1>1. CASE Flip
    <2>1. UNCHANGED <<deploy, wired, report, known, phase>> /\ wasUp \subseteq wasUp'
          /\ (up \subseteq wasUp => up' \subseteq wasUp')
      BY <1>1 DEF Flip, lifecycleVars
    <2> QED
      BY <2>1 DEF HealthInv, ReportInv, ComponentInv, Asking
  <1>2. CASE FileAppears
    <2>1. UNCHANGED <<deploy, wired, report, known, phase, up, wasUp>>
      BY <1>2 DEF FileAppears, lifecycleVars
    <2> QED
      BY <2>1 DEF HealthInv, ReportInv, ComponentInv, Asking
  <1>3. CASE BeginCheck
    <2>1. /\ phase = "serving" /\ UNCHANGED <<deploy, phase, known, up>> /\ wasUp' = up
          /\ report' = [c \in Components |-> "asking"]
      BY <1>3 DEF BeginCheck, lifecycleVars
    <2> QED
      BY <2>1 DEF HealthInv, ReportInv, ComponentInv, Components, Statuses, Served
  <1> QED
    BY <1>1, <1>2, <1>3

\* The five checks and their timeouts.
LEMMA CheckInv == HealthInv /\ Check => HealthInv'
  <1> SUFFICES ASSUME HealthInv, Check PROVE HealthInv'
    OBVIOUS
  <1> USE DEF Components
  <1>1. CASE CheckContextagent
    BY <1>1, OneReport DEF CheckContextagent, HealthInv, ComponentInv
  <1>2. CASE CheckEnvironment
    <2>1. deploy.file = "ok" => known' = known
      BY <1>2, KnownStays DEF CheckEnvironment, HealthInv, Reports, Asking
    <2>2. PICK status \in {"ok", "degraded"} :
             Reports("environment", status) /\ (status = "ok" => deploy.llm # "placeholder")
      BY <1>2 DEF CheckEnvironment
    <2> QED
      BY <2>1, <2>2, OneReport DEF HealthInv, ComponentInv
  <1>3. CASE OpenProbe
    <2>1. deploy.file = "ok" => known' = known
      BY <1>3, KnownStays DEF OpenProbe, HealthInv, Asking
    <2>2. UNCHANGED <<deploy, wired, phase, report, up, wasUp>>
      BY <1>3 DEF OpenProbe, lifecycleVars
    <2> QED
      BY <2>1, <2>2 DEF HealthInv, ReportInv, ComponentInv, Asking
  <1>4. CASE CheckPgvector
    <2>1. deploy.file = "ok" => known' = known /\ known = "ok"
      BY <1>4, KnownStays DEF CheckPgvector, HealthInv, ReportInv, Reports, Asking
    <2>2. PICK status \in {"ok", "degraded", "skipped"} :
             /\ Reports("pgvector", status)
             /\ status = "ok" => "store" \in up /\ "ltm" \in wired
             /\ status = "skipped" => known' # "ok" \/ deploy.vector # "pgvector"
      BY <1>4 DEF CheckPgvector, Probed
    <2> QED
      BY <2>1, <2>2, OneReport DEF HealthInv, ComponentInv
  <1>5. CASE CheckLlm
    <2>1. deploy.file = "ok" => known' = known
      BY <1>5, KnownStays DEF CheckLlm, HealthInv, ReportInv, Reports, Asking
    <2>2. PICK status \in {"ok", "degraded", "skipped"} :
             /\ Reports("llm", status)
             /\ status = "ok" => "llm" \in up
             /\ status = "skipped" => deploy.llm = "placeholder" \/ "llm" \notin wired
      BY <1>5 DEF CheckLlm, Probed
    <2> QED
      BY <2>1, <2>2, OneReport DEF HealthInv, ComponentInv
  <1>6. CASE CheckEmbedding
    <2>1. deploy.file = "ok" => known' = known /\ known = "ok"
      BY <1>6, KnownStays DEF CheckEmbedding, HealthInv, ReportInv, Reports, Asking
    <2>2. PICK status \in {"ok", "degraded", "skipped"} :
             /\ Reports("embedding", status)
             /\ status = "ok" => "embedding" \in up
             /\ status = "skipped" => known' # "ok" \/ deploy.embedding # "set"
      BY <1>6 DEF CheckEmbedding, Probed
    <2> QED
      BY <2>1, <2>2, OneReport DEF HealthInv, ComponentInv
  <1>7. CASE TimeOut
    <2>1. PICK c \in Components : c \in Waiting /\ Late(c, "degraded")
      BY <1>7 DEF TimeOut, Waiting
    <2>2. known' = known
      BY <2>1 DEF Late
    <2> QED
      BY <2>1, <2>2, OneReport DEF HealthInv, ComponentInv
  <1> QED
    BY <1>1, <1>2, <1>3, <1>4, <1>5, <1>6, <1>7 DEF Check, LocalCheck, Answer

\* What the invariant is for: a component that is neither degraded nor skipped for a good reason
\* answered.
LEMMA HealthInvSuffices == HealthInv => OkMeansUp
  <1> SUFFICES ASSUME HealthInv, HasReport, OverallOk PROVE OkMeansUp
    BY DEF OkMeansUp
  <1>1. \A c \in Components : report[c] \in {"ok", "skipped"}
    BY DEF HealthInv, ReportInv, HasReport, OverallOk, Asking, Components, Statuses
  <1>2. report["environment"] = "ok" /\ \A c \in {"llm", "embedding", "pgvector"} : report[c] \in {"ok", "skipped"}
    BY <1>1 DEF HealthInv, ComponentInv, Components
  <1> QED
    BY <1>2 DEF HealthInv, ComponentInv, OkMeansUp

\* GET /health is right when it says "ok" for all: the dependencies the service uses answered
\* while the check ran, for whatever deployment and outages.
THEOREM OkIsRight == Spec => []OkMeansUp
  <1>1. HealthInv /\ [Next]_vars => HealthInv'
    <2>1. ASSUME HealthInv, UNCHANGED vars PROVE HealthInv'
      BY <2>1 DEF vars, lifecycleVars, healthVars, HealthInv, ReportInv, ComponentInv, Asking
    <2> QED
      BY <2>1, LiveInv, AroundInv, CheckInv DEF Next, Ended
  <1> QED
    BY HealthInit, <1>1, HealthInvSuffices, PTL DEF Spec

\* The service with its health checks is the service of ServiceLifecycle: a check opens and
\* closes nothing but its own client, and the proofs about the life cycle hold of it.
THEOREM HealthKeepsLifecycle == Spec => LifecycleSpec
  <1>1. Init => LifecycleInit
    BY DEF Init
  <1>2. [Next]_vars => [LifecycleNext]_lifecycleVars
    <2> SUFFICES ASSUME Next \/ UNCHANGED vars PROVE LifecycleNext \/ UNCHANGED lifecycleVars
      BY DEF lifecycleVars
    <2>1. CASE Live
      BY <2>1 DEF Live, Serve, LifecycleNext, Startup
    <2>2. CASE Flip \/ FileAppears \/ BeginCheck
      BY <2>2 DEF Flip, FileAppears, BeginCheck
    <2>3. CASE Check
      BY <2>3 DEF Check, LocalCheck, Answer, TimeOut, Late, Reports, CheckContextagent, CheckEnvironment,
            OpenProbe, CheckPgvector, CheckLlm, CheckEmbedding
    <2>4. CASE UNCHANGED vars
      BY <2>4 DEF vars
    <2> QED
      BY <2>1, <2>2, <2>3, <2>4 DEF Next, Ended
  <1> QED
    BY <1>1, <1>2, PTL DEF Spec, LifecycleSpec

\* So the checked service, too, has its stores while the processor runs, and closes them after.
THEOREM HealthStores == Spec => [](ProcessorHasItsStores /\ ExitClosesTheRest)
  BY HealthKeepsLifecycle, ProcessorStores, ExitCloses, PTL
=============================================================================
