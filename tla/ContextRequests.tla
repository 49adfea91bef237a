-------------------------- MODULE ContextRequests --------------------------
(***************************************************************************)
(* A request for context, from the API router (api/router.py) through the  *)
(* aggregator, the exposure policy and the health check to the output it   *)
(* asked for; a compaction of OpenClaw (api/openclaw_handler.py), and a    *)
(* direct call of the compression router, which use the compression only.  *)
(*                                                                         *)
(* request.kind is "context", "compact" or "compress".                     *)
(***************************************************************************)
EXTENDS ContextAggregator, Compression

CONSTANTS
    Requests,
    TieredResults,      \* the lists of items a tiered search may return
    LowScore,           \* items with a lower score have a low relevance
    DistractionPercent, \* context_health_distraction_threshold
    ConfusionPercent,   \* context_health_confusion_threshold
    Failing             \* the sets of strategies that raise

JobMessages == [system : BOOLEAN, raw : Nat]

\* The schemas of the API demand positive budgets; a compaction counts the tokens of its
\* messages once.  The realtime strategy is the one of the code, which calls nothing that
\* could fail.
ASSUME RequestsAssumption ==
    /\ \A r \in Requests :
         \/ /\ r.kind = "context"
            /\ r.sources \subseteq Sources /\ r.budget \in Nat \ {0}
            /\ r.out \in {"raw", "search", "snapshot", "compressed", "structured"}
         \/ /\ r.kind = "compact"
            /\ r.job.budget \in Nat \ {0} /\ r.job.total \in Nat
            /\ r.job.used = r.job.total /\ r.job.task = "compaction"
            /\ r.job.messages \in Seq(JobMessages)
         \/ r.kind = "compress" /\ r.job.messages \in Seq(JobMessages)
    /\ \A strategies \in Failing : "realtime" \notin strategies

NoAnswerYet == [is |-> "none"]

VARIABLES
    step,      \* where the request is
    tiered,    \* the router has a tiered memory router
    router,    \* the server has an API router
    visible,   \* the snapshot after the exposure policy: its items and degraded sources
    warnings,
    saved,     \* the snapshot the version manager was given
    answer     \* what the caller gets

requestVars == <<step, tiered, router, visible, warnings, saved, answer>>
vars == <<aggregatorVars, compressionVars, requestVars>>

Init ==
    /\ AggregatorInit(Requests)
    /\ CompressionInit
    /\ llm \in BOOLEAN /\ failing \in Failing
    /\ step = "start"
    /\ tiered \in BOOLEAN /\ router \in BOOLEAN
    /\ visible = NoSnapshot /\ saved = NoSnapshot
    /\ warnings = {}
    /\ answer = NoAnswerYet

-----------------------------------------------------------------------------
(* The exposure policy; an empty set of names allows all.                  *)

Passes(gate, value) == gate = {} \/ value \in gate

Allowed(item, policy) ==
    /\ Passes(policy.sources, item.source)
    /\ item.memory = "none" \/ Passes(policy.memories, item.memory)
    /\ item.source \notin policy.stateOnly
    /\ item.source = "scratchpad" => Passes(policy.fields, item.name)
    /\ item.source = "tool_result" => Passes(policy.tools, item.name)

HasPolicy == request.policy # <<>>
Policy == Head(request.policy)

\* The snapshot is built again: it does not name degraded sources any more.
Exposed ==
    IF ~HasPolicy THEN snapshot
    ELSE LET items == Keep(snapshot.items, {item \in ToSet(snapshot.items) : Allowed(item, Policy)})
         IN  [items |-> items, total |-> TotalTokens(items), degraded |-> {}]

(* The quick health check.                                                 *)

Distracting(items) ==
    /\ items # <<>>
    /\ 100 * Len(SelectSeq(items, LAMBDA item : item.score < LowScore))
         >= DistractionPercent * Len(items)

\* The three best scores are close to each other and none of them is high.
Confusing(items) ==
    /\ Len(items) >= 5
    /\ LET best == Ranked(items)
       IN  best[3].score < 80 /\ 100 - 2 * (best[1].score - best[3].score) >= ConfusionPercent

\* Mutant: the degraded sources are taken from the snapshot that the policy rebuilt.
Warnings_AfterPolicy(view) == IF view.degraded # {} THEN {"degraded"} ELSE {}

Warnings(view) ==
    (IF snapshot.degraded # {} THEN {"degraded"} ELSE {})
      \cup (IF Len(view.items) < Len(snapshot.items) THEN {"filtered"} ELSE {})
      \cup (IF Distracting(view.items) THEN {"distraction"} ELSE {})
      \cup (IF Confusing(view.items) THEN {"confusion"} ELSE {})

-----------------------------------------------------------------------------
(* handle()                                                                *)

Answered(type, items) ==
    /\ step' = "answered"
    /\ answer' = [is |-> type, items |-> items, llm |-> FALSE, degraded |-> FALSE]

Raised ==
    /\ step' = "raised"
    /\ UNCHANGED answer

BeginContext ==
    /\ step = "start" /\ request.kind = "context"
    /\ BeginAggregate
    /\ step' = "aggregating"
    /\ UNCHANGED <<compressionVars, tiered, router, visible, warnings, saved, answer>>

Gather ==
    /\ step = "aggregating"
    /\ SourceSteps
    /\ UNCHANGED <<compressionVars, requestVars>>

GatherEnds ==
    /\ step = "aggregating"
    /\ Merge
    /\ step' = "merged"
    /\ UNCHANGED <<compressionVars, tiered, router, visible, warnings, saved, answer>>

TopK(items) == First(request.topK, items)

Messages(items) ==
    [n \in DOMAIN items |-> [system |-> items[n].source = "system", raw |-> items[n].raw]]

\* The job for the compression; turns is never set.
JobFor(view) ==
    [messages |-> Messages(view.items), budget |-> request.budget, total |-> view.total,
     used |-> view.total, turns |-> 0,
     task |-> IF request.out = "structured" /\ request.task = "" THEN "compaction" ELSE request.task]

\* From the policy to the choice of the output nothing suspends.
RouteOutput ==
    /\ step = "merged"
    /\ \E view \in {Exposed} :
          /\ visible' = view
          /\ warnings' = Warnings(view)
          /\ \/ /\ request.out = "raw"
                /\ Answered("raw", view.items)
                /\ UNCHANGED <<compressionVars, saved>>
             \/ /\ request.out = "search" /\ ~tiered
                /\ Answered("search", Conditioned(TopK(view.items), request.task, request.role))
                /\ UNCHANGED <<compressionVars, saved>>
             \/ /\ request.out = "search" /\ tiered
                /\ step' = "searching"
                /\ UNCHANGED <<compressionVars, saved, answer>>
             \/ /\ request.out = "snapshot"
                /\ saved' = view
                /\ step' = "saving"
                /\ UNCHANGED <<compressionVars, answer>>
             \/ /\ request.out \in {"compressed", "structured"}
                /\ BeginCompress(JobFor(view))
                /\ step' = "compressing"
                /\ UNCHANGED <<saved, answer>>
    /\ UNCHANGED <<aggregatorVars, tiered, router>>

\* The results of the tiered search do not pass the exposure policy.
SearchEnds ==
    /\ step = "searching"
    /\ \/ \E items \in TieredResults :
             Answered("search", TopK(Conditioned(items, request.task, request.role)))
       \/ Raised
    /\ UNCHANGED <<aggregatorVars, compressionVars, tiered, router, visible, warnings, saved>>

SaveEnds ==
    /\ step = "saving"
    /\ Answered("version", <<>>) \/ Raised
    /\ UNCHANGED <<aggregatorVars, compressionVars, tiered, router, visible, warnings, saved>>

-----------------------------------------------------------------------------
(* A compaction, and a direct call of route_and_compress().                *)

BeginCompressOnly ==
    /\ step = "start" /\ request.kind \in {"compact", "compress"}
    /\ request.kind = "compact" => router
    /\ BeginCompress(request.job)
    /\ step' = "compressing"
    /\ UNCHANGED <<aggregatorVars, tiered, router, visible, warnings, saved, answer>>

RunCompression ==
    /\ step = "compressing"
    /\ CompressionSteps
    /\ UNCHANGED <<aggregatorVars, requestVars>>

\* What a job keeps is named by the places of its messages.
CompressionEnds ==
    /\ step = "compressing" /\ output # NoOutput
    /\ step' = "answered"
    /\ answer' = [is |-> "compressed", kept |-> output.kept, llm |-> output.llm,
                  degraded |-> output.degraded]
    /\ warnings' = IF request.kind = "context" /\ output.degraded
                   THEN warnings \cup {"output degraded"} ELSE warnings
    /\ UNCHANGED <<aggregatorVars, compressionVars, tiered, router, visible, saved>>

\* _truncate_to_budget(), with four tokens for every message.
TruncatedToBudget(j) ==
    LET Need(n) == j.messages[n].raw \div 4 + 4
        Whole(k) == MapThenSumSet(Need, k..Len(j.messages)) <= j.budget
    IN  {n \in DOMAIN j.messages : \A k \in n..Len(j.messages) : Whole(k)}

CompactWithoutRouter ==
    /\ step = "start" /\ request.kind = "compact" /\ ~router
    /\ step' = "answered"
    /\ answer' = [is |-> "compressed", kept |-> TruncatedToBudget(request.job), llm |-> FALSE,
                  degraded |-> TRUE]
    /\ job' = request.job
    /\ UNCHANGED <<aggregatorVars, llm, failing, schedule, llmCall, tries, output,
                   tiered, router, visible, warnings, saved>>

Finished == step \in {"answered", "raised"} /\ UNCHANGED vars

Next ==
    \/ BeginContext \/ Gather \/ GatherEnds \/ RouteOutput \/ SearchEnds \/ SaveEnds
    \/ BeginCompressOnly \/ RunCompression \/ CompressionEnds \/ CompactWithoutRouter
    \/ Finished

\* The event loop runs what is ready, a source ends or the timeout expires, and
\* httpx ends each attempt of the LLM adapter: no request stays where it is.  The
\* steps are named by what they do to step, so that TLC need not compute outputs to
\* know that they are enabled.
Leaves(here, there) == step = here /\ step' \in there
Fairness ==
    /\ WF_step(Leaves("start", {"aggregating", "compressing", "answered"}))
    /\ WF_aggregatorVars(step = "aggregating" /\ TimeoutExpires)
    /\ WF_step(waiting = {} /\ Leaves("aggregating", {"merged"}))
    /\ WF_step(Leaves("merged", {"answered", "searching", "saving", "compressing"}))
    /\ WF_step(Leaves("searching", {"answered", "raised"}))
    /\ WF_step(Leaves("saving", {"answered", "raised"}))
    /\ WF_compressionVars(step = "compressing" /\ CompressionSteps)
    /\ WF_step(output # NoOutput /\ Leaves("compressing", {"answered"}))

Spec == Init /\ [][Next]_vars /\ Fairness

-----------------------------------------------------------------------------
(* Properties.                                                             *)

\* The shape of the state: a snapshot has one item per id, and its tokens are
\* counted and within the budget.
TypeOK ==
    /\ step \in {"start", "aggregating", "merged", "searching", "saving", "compressing",
                 "answered", "raised"}
    /\ waiting \subseteq asked /\ asked \subseteq Sources
    /\ warnings \subseteq {"degraded", "filtered", "distraction", "confusion", "output degraded"}
    /\ answers \in [Sources -> {NoAnswer, [is |-> "error"], [is |-> "payload"]}
                      \cup {[is |-> "list", items |-> items] : items \in UNION {Holdings[s] : s \in Sources}}]
    /\ \A i, j \in DOMAIN snapshot.items : snapshot.items[i].id = snapshot.items[j].id => i = j
    /\ step \notin {"start", "aggregating"} /\ request.kind = "context" =>
         TotalTokens(snapshot.items) = snapshot.total /\ snapshot.total <= request.budget
    /\ output = NoOutput \/ output.kept \subseteq Indices
    /\ tries \in 0..MaxRetries + 1

HasSnapshot == request.kind = "context" /\ step \notin {"start", "aggregating"}

\* Whatever the sources do, the caller is warned exactly when one of those that
\* were asked is missing from the merge, also after the exposure policy rebuilt
\* the snapshot.
MissingSourcesAreNamed ==
    request.kind = "context" /\ step = "answered" =>
        ("degraded" \in warnings <=> \E s \in asked : ~Merged(s))

\* An eligible item that a merged source returned, and that is better than every
\* other with its id, is in the snapshot, with its score for the task and the role,
\* or no item of the snapshot has a lower score.
NothingBetterLeftOut ==
    HasSnapshot =>
        \A n \in DOMAIN Collected :
            LET item == Collected[n]
                score == IF request.task = "" /\ request.role = "" THEN item.score
                         ELSE ConditionedScore(item, request.task, request.role)
                best == \A k \in DOMAIN Collected :
                          Collected[k].id = item.id /\ Eligible(Collected[k]) =>
                            k = n \/ Collected[k].score < item.score
            IN  Eligible(item) /\ best =>
                    \/ [item EXCEPT !.score = score] \in ToSet(snapshot.items)
                    \/ \A k \in DOMAIN snapshot.items : snapshot.items[k].score >= score

\* A message that is missing though no LLM rewrote the context is missing from an
\* output that calls itself degraded.  A truncation by the compaction strategy does
\* not; unless a snapshot counts no token at all, the schedule keeps requests and
\* compactions away from it.
NothingLostSilently ==
    step = "answered" /\ answer.is = "compressed" /\ ~answer.llm /\ answer.kept # Indices =>
        \/ answer.degraded
        \/ output.by = "compaction" /\ (request.kind = "compress" \/ job.total = 0)

\* A context that was aggregated within its budget is never truncated: the
\* aggregator and the strategies agree on what fits.
AggregatedIsNotCut ==
    request.kind = "context" /\ step = "answered" /\ answer.is = "compressed" /\ visible.total > 0 =>
        answer.kept = DOMAIN visible.items /\ ~answer.llm

\* Every request gets its answer, however the sources and the LLM behave.
EveryRequestEnds == <>(step \in {"answered", "raised"})
=============================================================================
