---------------------------- MODULE ToolSelection ----------------------------
(***************************************************************************)
(* core/retrieval/tool_governor.py: the tools that are shown to the model  *)
(* for a task, and the record of how their calls went.                     *)
(***************************************************************************)
EXTENDS Integers, Sequences, SequencesExt, SequenceFilters

CONSTANTS
    ToolIds,       \* BOUND: the tools there are
    TaskTypes,     \* the task types of the requests
    FitsTask,      \* FitsTask[t]: required_for_task_types, {} for a tool for all
    RagThreshold,  \* tool_rag_threshold
    ToolTopK,      \* tool_top_k
    MaxCalls       \* BOUND on the recorded calls of a tool

ASSUME ToolAssumption ==
    {RagThreshold, ToolTopK, MaxCalls} \subseteq Nat \ {0} /\ FitsTask \in [ToolIds -> SUBSET TaskTypes]

VARIABLES
    tools,     \* the registered tools, in the order of the dictionary
    stats,     \* stats[t]: the calls and successes recorded for the tool
    ranker,    \* the governor has a retriever
    named,     \* the tools its last answer named
    selected   \* the last selection: its task type, how many were asked for, its tools

toolVars == <<tools, stats, ranker, named, selected>>

NoCalls == [calls |-> 0, successes |-> 0]
NoSelection == [task |-> "", topK |-> ToolTopK, tools |-> <<>>, by |-> "nobody"]

ToolInit ==
    /\ tools = <<>> /\ stats = [t \in ToolIds |-> NoCalls]
    /\ ranker \in BOOLEAN /\ named = {} /\ selected = NoSelection

\* register_tool(): a tool that is known keeps its place, and starts without a record.
RegisterTool ==
    /\ \E t \in ToolIds :
          /\ tools' = IF t \in ToSet(tools) THEN tools ELSE Append(tools, t)
          /\ stats' = [stats EXCEPT ![t] = NoCalls]
    /\ selected' = NoSelection /\ named' = {}
    /\ UNCHANGED ranker

UnregisterTool ==
    /\ \E t \in ToolIds :
          /\ tools' = Keep(tools, ToolIds \ {t})
          /\ stats' = [stats EXCEPT ![t] = NoCalls]
    /\ selected' = NoSelection /\ named' = {}
    /\ UNCHANGED ranker

\* record_tool_result(); the result of a tool nobody registered is logged only.
RecordToolResult ==
    /\ \E t \in ToSet(tools), success \in BOOLEAN :
          /\ stats[t].calls < MaxCalls
          /\ stats' = [stats EXCEPT ![t] = [calls |-> @.calls + 1,
                                            successes |-> @.successes + IF success THEN 1 ELSE 0]]
    /\ selected' = NoSelection /\ named' = {}
    /\ UNCHANGED <<tools, ranker>>

\* _success_rate(), as a fraction: a tool without a call has the rate 1.
Rate(t) == IF stats[t].calls = 0 THEN [calls |-> 1, successes |-> 1] ELSE stats[t]

AtLeastAsReliable(t, u) == Rate(t).successes * Rate(u).calls >= Rate(u).successes * Rate(t).calls

\* MUTANT: the least reliable tool comes first.
BySuccessRate_Ascending(candidates) ==
    StableSort(candidates, {pair \in ToolIds \X ToolIds : AtLeastAsReliable(pair[2], pair[1])})

\* _sort_by_success_rate(): stable, the most reliable first.
BySuccessRate(candidates) ==
    StableSort(candidates, {pair \in ToolIds \X ToolIds : AtLeastAsReliable(pair[1], pair[2])})

\* _filter_by_task_type()
Candidates(task) == Keep(tools, {t \in ToolIds : task = "" \/ FitsTask[t] = {} \/ task \in FitsTask[t]})

\* _rag_select(): the candidates the retriever named first, then the others.
RagSelect(candidates, n) ==
    First(n, Keep(candidates, named') \o Keep(candidates, ToolIds \ named'))

\* select_tools(): a large set is for the retriever, whose answer may name no tool at all
\* (that of OpenJiuwenRetrieverAdapter never does), and which may raise.
SelectTools ==
    /\ selected = NoSelection   \* a second one in a row is like the first
    /\ \E task \in TaskTypes \cup {""}, topK \in 1..ToolTopK :
          LET candidates == Candidates(task)
              small == Len(candidates) <= RagThreshold
          IN \/ /\ small /\ named' = {}
                /\ selected' = [task |-> task, topK |-> topK, by |-> "rate",
                                tools |-> First(topK, BySuccessRate(candidates))]
             \/ /\ ~small /\ ranker /\ named' \in SUBSET ToolIds
                /\ selected' = [task |-> task, topK |-> topK, by |-> "retriever",
                                tools |-> RagSelect(candidates, topK)]
             \/ /\ ~small /\ ranker /\ named' = {} /\ selected' = NoSelection
             \/ /\ ~small /\ ~ranker /\ named' = {}
                /\ selected' = [task |-> task, topK |-> topK, by |-> "order",
                                tools |-> First(topK, candidates)]
    /\ UNCHANGED <<tools, stats, ranker>>

ToolNext == RegisterTool \/ UnregisterTool \/ RecordToolResult \/ SelectTools
=============================================================================
