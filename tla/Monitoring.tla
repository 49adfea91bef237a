----------------------------- MODULE Monitoring -----------------------------
(***************************************************************************)
(* core/monitoring/collector.py with the alert engine as a subscriber: the *)
(* records go through an asyncio queue to one worker, which flushes a      *)
(* batch when it is full, when it is old enough, or when stop() put None   *)
(* on the queue.  A flush has no suspension point.                         *)
(***************************************************************************)
EXTENDS AlertEngine

CONSTANTS
    BatchSize,       \* batch_size, 50 in the code
    FlushInterval,   \* flush_interval_s in ticks
    MaxStarts,       \* BOUND on the calls of start()
    Orderly          \* start() and stop() are called in turn, start() first

Sentinel == [id |-> 0]   \* the None of stop(), no record

ASSUME CollectorAssumption ==
    /\ BatchSize \in Nat \ {0} /\ FlushInterval \in Nat \ {0} /\ MaxStarts \in Nat
    /\ Orderly \in BOOLEAN
    /\ Sentinel \notin Records

VARIABLES
    queue,       \* _queue: records and sentinels
    batch,       \* the batch of the worker
    worker,      \* _worker_task: "none", "running" or "done"
    sinceFlush,  \* ticks since last_flush, no more than FlushInterval
    stopping,    \* stop() awaits the worker
    starts,      \* how often start() was called
    \* What happened, for the properties only:
    emitted,     \* the records given to emit(), in order
    delivered,   \* the records the flushes handed over, in order
    before       \* how many were emitted when stop() was called

collector == <<queue, batch, worker, sinceFlush, stopping, starts>>
history == <<emitted, delivered, before>>
monitoringVars == <<collector, history, alertVars>>

MonitoringInit ==
    /\ queue = <<>> /\ batch = <<>> /\ worker = "none" /\ sinceFlush = 0
    /\ stopping = FALSE /\ starts = 0
    /\ emitted = <<>> /\ delivered = <<>> /\ before = 0
    /\ AlertInit

\* emit() and emit_sync(): the queue has no bound, a record is never dropped.
Emit ==
    /\ \E r \in Records \ ToSet(emitted) :
          queue' = Append(queue, r) /\ emitted' = Append(emitted, r)
    /\ UNCHANGED <<batch, worker, sinceFlush, stopping, starts, delivered, before, alertVars>>

\* start() creates a worker with an empty batch.  It would create a second one next to a
\* running worker, since it looks at nothing; that call is left out.
Start ==
    /\ worker # "running" /\ ~stopping /\ starts < MaxStarts
    /\ worker' = "running" /\ batch' = <<>> /\ sinceFlush' = 0 /\ starts' = starts + 1
    /\ UNCHANGED <<queue, stopping, history, alertVars>>

\* stop() puts the sentinel; without a worker it returns at once.
Stop ==
    /\ ~stopping /\ starts < MaxStarts + 1
    /\ Orderly => worker = "running"
    /\ queue' = Append(queue, Sentinel)
    /\ stopping' = TRUE /\ before' = Len(emitted)
    /\ UNCHANGED <<batch, worker, sinceFlush, starts, emitted, delivered, alertVars>>

\* stop() returns when its worker is done.
Stopped ==
    /\ stopping /\ worker # "running"
    /\ stopping' = FALSE
    /\ UNCHANGED <<queue, batch, worker, sinceFlush, starts, history, alertVars>>

\* _flush(): the exporters and the subscribers see the records once.
Flush(records) == delivered' = delivered \o records /\ EvaluateBatch(records)

KeepAlerts == UNCHANGED <<delivered, alertVars>>

\* MUTANT: the sentinel ends the worker with a batch in hand.
TakeSentinel_Drops ==
    /\ worker = "running" /\ queue # <<>> /\ Head(queue) = Sentinel
    /\ queue' = Tail(queue) /\ worker' = "done" /\ batch' = <<>>
    /\ KeepAlerts
    /\ UNCHANGED <<sinceFlush, stopping, starts, emitted, before>>

\* The worker gets the sentinel: what it holds is flushed, and it returns.
TakeSentinel ==
    /\ worker = "running" /\ queue # <<>> /\ Head(queue) = Sentinel
    /\ queue' = Tail(queue) /\ worker' = "done" /\ batch' = <<>>
    /\ IF batch = <<>> THEN KeepAlerts ELSE Flush(batch)
    /\ UNCHANGED <<sinceFlush, stopping, starts, emitted, before>>

\* MUTANT: the batch is not emptied after a flush.
TakeRecord_KeepsBatch ==
    /\ worker = "running" /\ queue # <<>> /\ Head(queue) # Sentinel
    /\ queue' = Tail(queue)
    /\ LET grown == Append(batch, Head(queue))
       IN /\ batch' = grown
          /\ IF Len(grown) >= BatchSize \/ sinceFlush = FlushInterval
             THEN Flush(grown) /\ sinceFlush' = 0
             ELSE KeepAlerts /\ UNCHANGED sinceFlush
    /\ UNCHANGED <<worker, stopping, starts, emitted, before>>

\* The worker gets a record, and flushes when the batch is full or the interval is over.
TakeRecord ==
    /\ worker = "running" /\ queue # <<>> /\ Head(queue) # Sentinel
    /\ queue' = Tail(queue)
    /\ LET grown == Append(batch, Head(queue))
       IN IF Len(grown) >= BatchSize \/ sinceFlush = FlushInterval
          THEN Flush(grown) /\ batch' = <<>> /\ sinceFlush' = 0
          ELSE batch' = grown /\ KeepAlerts /\ UNCHANGED sinceFlush
    /\ UNCHANGED <<worker, stopping, starts, emitted, before>>

\* MUTANT: the batch is started anew without a flush.
WaitEnds_Drops ==
    /\ worker = "running" /\ queue = <<>> /\ sinceFlush = FlushInterval /\ batch # <<>>
    /\ batch' = <<>> /\ sinceFlush' = 0
    /\ KeepAlerts
    /\ UNCHANGED <<queue, worker, stopping, starts, emitted, before>>

\* wait_for() times out: the interval is over, and what there is is flushed.
WaitEnds ==
    /\ worker = "running" /\ queue = <<>> /\ sinceFlush = FlushInterval /\ batch # <<>>
    /\ Flush(batch) /\ batch' = <<>> /\ sinceFlush' = 0
    /\ UNCHANGED <<queue, worker, stopping, starts, emitted, before>>

Tick ==
    /\ sinceFlush' = IF sinceFlush < FlushInterval THEN sinceFlush + 1 ELSE FlushInterval
    /\ AlertTick
    /\ UNCHANGED <<queue, batch, worker, stopping, starts, history>>

Configure == UpdateConfig /\ UNCHANGED <<collector, history>>

Worker == TakeSentinel \/ TakeRecord \/ WaitEnds

MonitoringNext == Emit \/ Start \/ Stop \/ Stopped \/ Worker \/ Tick \/ Configure

\* What the steps of the worker do to the queue and to the batch.
Takes == worker = "running" /\ queue # <<>> /\ queue' = Tail(queue)
Waits == worker = "running" /\ queue = <<>> /\ sinceFlush = FlushInterval /\ batch' = <<>>

\* The event loop runs what is ready, and time passes.
Fairness == WF_queue(Takes) /\ WF_batch(Waits) /\ WF_stopping(Stopped) /\ WF_sinceFlush(Tick)

MonitoringSpec == MonitoringInit /\ [][MonitoringNext]_monitoringVars /\ Fairness
-----------------------------------------------------------------------------
\* The collector implements the log: no record is lost, repeated or overtaken by another, over
\* batches, intervals, stops and restarts.
Log == INSTANCE MetricLog
DeliversInOrder == Log!Spec

\* When stop() returns, what was emitted before it was called is delivered ("gracefully stop the
\* worker, flushing remaining records").
StopFlushesRemaining == [][stopping /\ ~stopping' => Len(delivered') >= before]_monitoringVars

\* No alert twice within its cooldown, in one batch or over several.
QuietInCooldown ==
    [][\A i \in DOMAIN alerts' : \A key \in alerts'[i] : delivered' # delivered =>
          /\ silence[key] >= config.cooldown
          /\ config.cooldown > 0 => \A j \in DOMAIN alerts' : key \in alerts'[j] => i = j]_monitoringVars

\* A breach in a flushed batch is never silent by the alert of another scope or operation: it was
\* alerted in this batch or within the cooldown before.
EveryBreachIsAlerted ==
    [][\A i \in Len(delivered) + 1 .. Len(delivered') : \A alert \in Triggered(delivered'[i], config) :
          LET key == Key(alert, delivered'[i])
          IN silence'[key] < config.cooldown \/ key \in UNION ToSet(alerts')]_monitoringVars

\* A record that is emitted is delivered while the worker runs, however few follow it.
RecordsAreDelivered ==
    \A r \in Records : r \in ToSet(emitted) ~> (r \in ToSet(delivered) \/ worker # "running")
=============================================================================
