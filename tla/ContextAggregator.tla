------------------------- MODULE ContextAggregator -------------------------
(***************************************************************************)
(* orchestration/context_aggregator.py: the sources of context are asked   *)
(* at the same time, under one timeout; what they return is merged, ranked *)
(* and cut to a budget of tokens.                                          *)
(*                                                                         *)
(* An item is a record: the fields TaskConditioning names, its id, its     *)
(* source_type, the length of its content (len) and the length of the      *)
(* message in it (raw: the content may begin with the role of its author). *)
(***************************************************************************)
EXTENDS TaskConditioning

CONSTANTS
    Holdings   \* Holdings[s]: the lists of items the source s may return

\* models/context.py: a ContextItem, its score in hundredths.
ContextItems == [id : STRING, source : STRING, score : Int, len : Nat, raw : Nat, name : STRING,
                 memory : STRING, category : STRING, level : STRING, tier : STRING,
                 marks : SUBSET (STRING \X STRING)]

Sources == {"ltm", "working_memory", "jit_refs"}
NoAnswer == [is |-> "nothing"]
NoSnapshot == [items |-> <<>>, total |-> 0, degraded |-> {"no snapshot"}]

ASSUME HoldingsAssumption == \A s \in Sources : \A items \in Holdings[s] : items \in Seq(ContextItems)

VARIABLES
    request,   \* the request; it does not change
    asked,     \* the sources that were asked
    waiting,   \* the sources whose task has not ended
    agentic,   \* the LTM is asked for an agentic search
    answers,   \* answers[s]: what the task of the source s ended with
    timedOut,  \* the common timeout expired
    snapshot   \* what aggregate() returns

aggregatorVars == <<request, asked, waiting, agentic, answers, timedOut, snapshot>>

Tokens(item) == item.len \div 4
TotalTokens(items) == Total([n \in DOMAIN items |-> Tokens(items[n])])

AggregatorInit(requests) ==
    /\ request \in requests
    /\ asked = {}
    /\ waiting = {}
    /\ agentic = FALSE
    /\ answers = [s \in Sources |-> NoAnswer]
    /\ timedOut = FALSE
    /\ snapshot = NoSnapshot

-----------------------------------------------------------------------------
(* The sources.                                                            *)

\* request.sources: those that are configured and enabled; the references are a
\* source when the request has some.
BeginAggregate ==
    /\ asked' = request.sources
    /\ waiting' = request.sources
    /\ agentic' = (request.mode = "quality" /\ "ltm" \in request.sources)
    /\ UNCHANGED <<request, answers, timedOut, snapshot>>

Ended(s, answer) ==
    /\ waiting' = waiting \ {s}
    /\ answers' = [answers EXCEPT ![s] = answer]

SourceReturns(s) ==
    /\ s \in waiting
    /\ \E items \in Holdings[s] : Ended(s, [is |-> "list", items |-> items])
    /\ agentic' = (agentic /\ s # "ltm")
    /\ UNCHANGED <<request, asked, timedOut, snapshot>>

\* A failed agentic search is followed by a search of the standard kind.
AgenticFails ==
    /\ "ltm" \in waiting
    /\ agentic
    /\ agentic' = FALSE
    /\ UNCHANGED <<request, asked, waiting, answers, timedOut, snapshot>>

SourceFails(s) ==
    /\ s \in waiting
    /\ ~(s = "ltm" /\ agentic)
    /\ \E what \in {"error", "payload"} : Ended(s, [is |-> what])
    /\ UNCHANGED <<request, asked, agentic, timedOut, snapshot>>

\* wait_for() cancels the tasks; aggregate() forgets the results of those that
\* had ended.
TimeoutExpires ==
    /\ waiting # {}
    /\ timedOut' = TRUE
    /\ waiting' = {}
    /\ agentic' = FALSE
    /\ answers' = [s \in Sources |-> IF s \in asked THEN [is |-> "error"] ELSE NoAnswer]
    /\ UNCHANGED <<request, asked, snapshot>>

-----------------------------------------------------------------------------
(* The merge.                                                              *)

\* An item without a category passes every filter.
Eligible(item) ==
    /\ request.categories = {} \/ item.category \in request.categories \cup {"none"}
    /\ LET Order(level) == CASE level = "abstract" -> 0 [] level = "overview" -> 1 [] OTHER -> 2
       IN  Order(item.level) <= Order(request.level)

\* Mutant: the last of the items with the same id is kept.
Taken_Last(kept, item) ==
    IF \E n \in DOMAIN kept : kept[n].id = item.id
    THEN [n \in DOMAIN kept |-> IF kept[n].id = item.id THEN item ELSE kept[n]]
    ELSE Append(kept, item)

\* A better item takes the place of the one with the same id.
Taken(kept, item) ==
    IF \E n \in DOMAIN kept : kept[n].id = item.id
    THEN [n \in DOMAIN kept |->
            IF kept[n].id = item.id /\ item.score > kept[n].score THEN item ELSE kept[n]]
    ELSE Append(kept, item)

Deduplicated(items) ==
    LET kept[n \in 0..Len(items)] == IF n = 0 THEN <<>> ELSE Taken(kept[n - 1], items[n])
    IN  kept[Len(items)]

\* Mutant: the item that exceeds the budget is taken too.
WithinBudget_OffByOne(items) ==
    LET n == Max({k \in 0..Len(items) :
                     k = 0 \/ TotalTokens(SubSeq(items, 1, k - 1)) <= request.budget})
    IN  SubSeq(items, 1, n)

\* The first item that does not fit ends the selection.
WithinBudget(items) ==
    LET n == Max({k \in 0..Len(items) : TotalTokens(SubSeq(items, 1, k)) <= request.budget})
    IN  SubSeq(items, 1, n)

Merged(s) == answers[s].is = "list"

Items(s) == IF Merged(s) THEN answers[s].items ELSE <<>>
Collected == Items("ltm") \o Items("working_memory") \o Items("jit_refs")

EligibleItems == Keep(Collected, {item \in ToSet(Collected) : Eligible(item)})

Ranking ==
    Conditioned(Ranked(Deduplicated(EligibleItems)), request.task, request.role)

Degraded == {s \in asked : ~Merged(s)}

Merge ==
    /\ waiting = {}
    /\ \E ranking \in {Ranking} : \E items \in {WithinBudget(ranking)} :
          snapshot' = [items |-> items, total |-> TotalTokens(items), degraded |-> Degraded]
    /\ UNCHANGED <<request, asked, waiting, agentic, answers, timedOut>>

SourceSteps ==
    \/ \E s \in Sources : SourceReturns(s) \/ SourceFails(s)
    \/ AgenticFails
    \/ TimeoutExpires
=============================================================================
