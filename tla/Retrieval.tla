------------------------------ MODULE Retrieval ------------------------------
(***************************************************************************)
(* The three ways retrieved items get to a caller: the tiered search, the  *)
(* search of the coordinator and the choice of tools.  They share no       *)
(* state, and a behaviour is about one of them.                            *)
(***************************************************************************)
EXTENDS TieredSearch, SearchFusion, ToolSelection

VARIABLE entry   \* which of them the behaviour is about

vars == <<entry, tieredVars, fusionVars, toolVars>>

\* What the other two start with makes no difference.
Init ==
    /\ entry \in {"router", "coordinator", "governor"}
    /\ TieredInit /\ FusionInit /\ ToolInit
    /\ entry = "router" \/ (tiers = [redis |-> FALSE, external |-> FALSE]
                                /\ scope = [config |-> "own", seen |-> FALSE, default |-> FALSE])
    /\ entry = "coordinator" \/ plan = (CHOOSE p \in Plans : TRUE)
    /\ entry = "governor" \/ ~ranker

Search == entry = "router" /\ TieredNext /\ UNCHANGED <<fusionVars, toolVars>>
Coordinate == entry = "coordinator" /\ FusionNext /\ UNCHANGED <<tieredVars, toolVars>>
Govern == entry = "governor" /\ ToolNext /\ UNCHANGED <<tieredVars, fusionVars>>

Next == (Search \/ Coordinate \/ Govern) /\ UNCHANGED entry

Spec == Init /\ [][Next]_vars
-----------------------------------------------------------------------------
\* A search never takes longer than its budget (and than the timeout of Redis, which is asked
\* whatever the budget is), though each tier may use all of its own timeout.
AnswersWithinBudget == search.spent <= Max({HotTimeout, search.budget})

\* A tier that is slow, that has nothing or that fails with an AdapterError or a RetrievalError
\* takes no item of another tier away, and the items of a faster tier come first.  (Any other
\* exception of the external retriever is not caught: search() raises and answers nothing.)
NoTierHidesAnother ==
    search.stage = "answered" => search.results = First(search.topK, FlattenSeq(given))

\* What the local hot cache serves was written less than a time to live ago, however often
\* the items were marked as used since.  (Redis gets a new time to live with each mark.)
HotServesFreshItems ==
    [][search.stage = "hot" /\ given' # given /\ Last(given') # <<>> /\ ~tiers.redis
         => warmedAt < HotTtl]_vars

\* Without a reranker, a task and a role, the best item of each path that answered in time is in the
\* answer, however long the lists of the other paths are and whichever of them failed.
BestOfEachPathIsFound ==
    phase = "found" /\ ~late /\ ~plan.rerank /\ plan.task = "" /\ plan.role = "" /\ plan.prefix = ""
      /\ Cardinality(plan.paths) <= plan.topK =>
        \A p \in plan.paths : lists[p] # <<>> => \E item \in ToSet(fused) : item.id = lists[p][1].id

\* Up to the threshold every tool that fits is selected (tool_governor.py:4 and :45) as long as
\* top_k has room for it; and where it has not, for the default top_k is below the threshold, no
\* tool that was left out failed less often than one that was taken.
ReliableToolsAreSelected ==
    LET leftOut == ToSet(Candidates(selected.task)) \ ToSet(selected.tools) IN
    selected.by = "rate" =>
        /\ leftOut # {} => Len(selected.tools) = selected.topK
        /\ \A t \in ToSet(selected.tools), u \in leftOut : AtLeastAsReliable(t, u)
=============================================================================
