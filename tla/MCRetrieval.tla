----------------------------- MODULE MCRetrieval -----------------------------
(* Values of the constants of Retrieval for TLC.                           *)
EXTENDS Retrieval, TLC

Memory(id, memory) == [id |-> id, memory |-> memory]

WarmedLists == {<<Memory("h1", "variable"), Memory("h2", "semantic")>>, <<Memory("h3", "semantic")>>}
RememberedLists == {<<>>, <<Memory("w1", "semantic"), Memory("w2", "episodic")>>}
ExternalLists == {<<Memory("c1", "none")>>}

SearchCalls == {[topK |-> k, budget |-> b, types |-> t] :
    k \in {1, 3}, b \in {0, 2, 4}, t \in {{}, {"semantic"}}}

Hit(id, prefix, uses, age) ==
    [id |-> id, prefix |-> prefix, uses |-> uses, age |-> age, score |-> 50, memory |-> "none",
     category |-> "none", level |-> "detail", tier |-> "warm", marks |-> {}]

FoundLists ==
    "hybrid" :> {<<>>, <<Hit("a1", "doc", 0, 1), Hit("a2", "faq", 0, 0), Hit("a3", "doc", 6, 0)>>}
    @@ "graph" :> {<<Hit("b1", "faq", 8, 0), Hit("b2", "doc", 0, 2)>>}
    @@ "ltm" :> {<<Hit("d1", "doc", 0, 0)>>, <<>>}

PlanOf(paths, prefix, topK, rerank, task) ==
    [paths |-> paths, prefix |-> prefix, topK |-> topK, rerank |-> rerank, rerankTopK |-> 2,
     task |-> task, role |-> ""]

AllPlans == {PlanOf(paths, prefix, topK, rerank, task) :
    paths \in {{"hybrid", "graph", "ltm"}, {"hybrid", "ltm"}, {}}, prefix \in {"", "faq"}, topK \in {1, 3},
    rerank \in BOOLEAN, task \in {"", "qa"}}

Tasks == {"qa", "task"}
Fits == "t1" :> {} @@ "t2" :> {"qa"} @@ "t3" :> {"qa", "task"}
=============================================================================
