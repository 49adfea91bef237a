---------------------------- MODULE Compression ----------------------------
(***************************************************************************)
(* orchestration/compression_router.py and strategy_scheduler.py choose a  *)
(* compression strategy for a snapshot, strategies/ apply it, and          *)
(* adapters/llm_adapter.py asks the LLM that some of them use.             *)
(*                                                                         *)
(* A message is a record: whether the system wrote it, and the length raw  *)
(* of its contents.  A job is a snapshot as a list of messages with its    *)
(* budget, its total_tokens, and the context of the selection: task, used  *)
(* (token_used) and turns.  The compressors of openJiuwen a strategy may   *)
(* be given are left out: the registry gives them none.                    *)
(***************************************************************************)
EXTENDS Integers, Sequences, FiniteSetsExt, SequencesExt, SequenceFilters

CONSTANTS
    Trigger,        \* compaction_trigger_ratio, in percent
    LastN,          \* keep_last_n of the realtime strategy
    SummaryWindow,  \* summary_window of the long_session strategy
    MaxRetries,     \* max_retries of the LLM adapter
    LlmLengths      \* lengths of what the LLM may write

Strategies == {"qa", "task", "long_session", "realtime", "compaction"}
NoJob == [messages |-> <<>>, budget |-> 1, total |-> 0, used |-> 0, turns |-> 0, task |-> ""]
NoOutput == [is |-> "none"]

ASSUME CompressionAssumption == MaxRetries \in Nat /\ LastN \in Nat

VARIABLES
    llm,       \* an LLM is configured
    failing,   \* the strategies that were replaced by one that raises
    job,
    schedule,  \* the strategies still to be tried
    llmCall,   \* what the running strategy asked the LLM for
    tries,     \* how often complete() has posted the request
    output     \* what route_and_compress() returns

compressionVars == <<llm, failing, job, schedule, llmCall, tries, output>>

CompressionInit ==
    /\ job = NoJob
    /\ schedule = <<>>
    /\ llmCall = "none"
    /\ tries = 0
    /\ output = NoOutput

-----------------------------------------------------------------------------
(* The schedule.                                                           *)

MoreThan(j, percent) == j.budget > 0 /\ 100 * j.used > percent * j.budget

\* Mutant: a task type that is known keeps the realtime strategy out.
Schedule_NoOverride(j) ==
    IF j.task \in Strategies THEN <<j.task>>
    ELSE IF j.turns > 20 THEN <<"long_session">>
    ELSE IF MoreThan(j, Trigger) THEN <<"compaction">>
    ELSE IF j.task = "" THEN <<"qa">> ELSE <<>>

\* An unknown task type at a low utilisation has no strategy at all.
Schedule(j) ==
    LET chosen == IF j.task \in Strategies THEN <<j.task>>
                  ELSE IF j.turns > 20 THEN <<"long_session">>
                  ELSE IF MoreThan(j, Trigger) THEN <<"compaction">>
                  ELSE IF j.task = "" THEN <<"qa">> ELSE <<>>
    IN  IF MoreThan(j, 95) /\ ~Contains(chosen, "realtime")
        THEN <<"realtime">> \o chosen
        ELSE chosen

BeginCompress(j) ==
    /\ job' = j
    /\ schedule' = Schedule(j)
    /\ UNCHANGED <<llm, failing, llmCall, tries, output>>

-----------------------------------------------------------------------------
(* The strategies.                                                         *)

Indices == DOMAIN job.messages
System == {n \in Indices : job.messages[n].system}
Length(indices) == Total([n \in Indices |-> IF n \in indices THEN job.messages[n].raw ELSE 0])

\* estimate_tokens(): a snapshot that counts no token at all is counted again.
Estimate == IF job.total > 0 THEN job.total ELSE Length(Indices) \div 4

\* The newest messages that fit into what the system messages leave of the budget;
\* the first one that does not fit ends the selection or is skipped.
Newest(messages, stops) ==
    LET Take(n, acc) == IF acc.open /\ acc.length + job.messages[n].raw <= 4 * job.budget
                        THEN [acc EXCEPT !.kept = @ \cup {n}, !.length = @ + job.messages[n].raw]
                        ELSE [acc EXCEPT !.open = ~stops]
        taken[k \in 0..Len(messages)] ==
            IF k = 0 THEN [kept |-> {}, length |-> Length(System), open |-> TRUE]
            ELSE Take(messages[Len(messages) + 1 - k], taken[k - 1])
    IN  taken[Len(messages)].kept

Others == Keep([n \in Indices |-> n], Indices \ System)

Truncate == System \cup Newest(Others, TRUE)
KeepRecent == System \cup Newest(Others, FALSE)
SimpleWindow == System \cup Newest(Others, FALSE)
StructuredTruncate == System \cup Newest(Others, FALSE)
FastTruncate ==
    System \cup Newest(SubSeq(Others, Max({1, Len(Others) - LastN + 1}), Len(Others)), TRUE)

Truncated(strategy) ==
    CASE strategy = "qa" -> Truncate
      [] strategy = "task" -> KeepRecent
      [] strategy = "long_session" -> SimpleWindow
      [] strategy = "realtime" -> FastTruncate
      [] strategy = "compaction" -> StructuredTruncate

Returns(kept, byLlm, degraded) ==
    /\ output' = [is |-> "output", by |-> IF schedule = <<>> THEN "raw" ELSE Head(schedule),
                  kept |-> kept, llm |-> byLlm, degraded |-> degraded]
    /\ llmCall' = "none"
    /\ UNCHANGED <<llm, failing, job, schedule, tries>>

\* Only the compaction strategy does not call its truncation degraded.
FallsBack == Returns(Truncated(Head(schedule)), FALSE, Head(schedule) # "compaction")

Tries(strategy) ==
    /\ output = NoOutput /\ llmCall = "none"
    /\ schedule # <<>> /\ Head(schedule) = strategy

FitsAlready == job.messages = <<>> \/ Estimate <= job.budget

AsksLlm(what) ==
    /\ llmCall' = what
    /\ tries' = 1
    /\ UNCHANGED <<llm, failing, job, schedule, output>>

\* compress() of a strategy, up to its call of the LLM.
Compress(strategy, asks) ==
    /\ Tries(strategy)
    /\ strategy \notin failing
    /\ \/ FitsAlready /\ Returns(Indices, FALSE, FALSE)
       \/ ~FitsAlready /\ llm /\ asks # "none" /\ AsksLlm(asks)
       \/ ~FitsAlready /\ (~llm \/ asks = "none") /\ FallsBack

QACompress == Compress("qa", "messages")
TaskCompress == Compress("task", "messages")
LongSessionCompress == Compress("long_session", "summary")
RealtimeCompress == Compress("realtime", "none")
CompactionCompress == Compress("compaction", "compaction")

StrategyRaises(strategy) ==
    /\ Tries(strategy)
    /\ strategy \in failing
    /\ schedule' = Tail(schedule)
    /\ UNCHANGED <<llm, failing, job, llmCall, tries, output>>

RawFallback ==
    /\ job # NoJob /\ output = NoOutput
    /\ schedule = <<>>
    /\ Returns(Indices, FALSE, TRUE)

-----------------------------------------------------------------------------
(* The calls of the LLM: a summary that leaves the rest too long is        *)
(* followed by a second call.                                              *)

Recent == {n \in Indices \ System :
             Cardinality({k \in Indices \ System : k <= n}) > SummaryWindow}

RollingSummary ==
    /\ llmCall = "summary"
    /\ \E length \in LlmLengths :
          IF (Length(System \cup Recent) + length) \div 4 <= job.budget
          THEN Returns(System \cup Recent, TRUE, FALSE)
          ELSE AsksLlm("messages")

LlmCompresses == llmCall = "messages" /\ Returns({}, TRUE, FALSE)

LlmCompacts == llmCall = "compaction" /\ Returns({}, TRUE, FALSE)

\* The LLM answers with 4xx or with something else than the strategy asked for.
LlmRefuses == llmCall # "none" /\ FallsBack

\* Mutant: the first attempt is not counted, so that there is always one more.
LlmUnavailable_Forever ==
    /\ llmCall # "none"
    /\ tries' = 3 - tries
    /\ UNCHANGED <<llm, failing, job, schedule, llmCall, output>>

\* A 5xx, a timeout or a refused connection is followed by another attempt.
LlmUnavailable ==
    /\ llmCall # "none"
    /\ IF tries <= MaxRetries
       THEN tries' = tries + 1 /\ UNCHANGED <<llm, failing, job, schedule, llmCall, output>>
       ELSE FallsBack

CompressionSteps ==
    \/ QACompress \/ TaskCompress \/ LongSessionCompress \/ RealtimeCompress \/ CompactionCompress
    \/ \E strategy \in Strategies : StrategyRaises(strategy)
    \/ RawFallback
    \/ RollingSummary \/ LlmCompresses \/ LlmCompacts \/ LlmRefuses \/ LlmUnavailable
=============================================================================
