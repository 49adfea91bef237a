---------------------------- MODULE SearchFusion ----------------------------
(***************************************************************************)
(* core/retrieval/search_coordinator.py, with adapters/retriever_adapter.py*)
(* and core/memory/hotness.py: the paths of a plan are asked at the same   *)
(* time under one timeout, and their lists are fused by reciprocal rank.   *)
(*                                                                         *)
(* Every path makes its own ContextItems: no id is in two lists.  An item  *)
(* is a record as in TaskConditioning, with its id, its prefix (what its   *)
(* source begins with), its uses and its age in half-lives.                *)
(***************************************************************************)
EXTENDS TaskConditioning

CONSTANTS
    Found,       \* Found[p]: the lists the path p may return
    Plans,       \* the RetrievalPlans: [paths, prefix, topK, rerank, rerankTopK, task, role]
    RrfK,        \* rrf_k
    RrfUnit,     \* a number that every rank of a reciprocal score divides
    Alpha        \* retrieval_hotness_alpha, in hundredths

Paths == <<"hybrid", "graph", "ltm">>

ASSUME FusionAssumption ==
    /\ RrfK \in Nat \ {0} /\ RrfUnit \in Nat \ {0} /\ Alpha \in 0..100
    /\ \A p \in Plans : /\ p.topK \in Nat \ {0} /\ p.rerankTopK \in Nat \ {0}
                       /\ p.paths \subseteq ToSet(Paths)
    /\ \A p \in ToSet(Paths) : \A items \in Found[p] :
          /\ items \in Seq(ToSet(items))
          /\ \A n \in DOMAIN items : /\ {"id", "score"} \subseteq DOMAIN items[n]
                                    /\ RrfUnit % (RrfK + n) = 0

\* The lists of a search are of different items, each with an id of its own.
ASSUME IdsAreUnique ==
    \A p, q \in ToSet(Paths) : \A some \in Found[p], others \in Found[q] :
        p # q \/ some = others =>
            \A m \in DOMAIN some, n \in DOMAIN others : some[m].id = others[n].id => p = q /\ m = n

Unknown == <<[id |-> "no list"]>>

VARIABLES
    plan,       \* the plan of the search
    lists,      \* lists[p]: what the path p ended with, Unknown before it did
    late,       \* the common timeout expired
    fused,      \* the answer, once there is one
    phase       \* "asking", "fused" or "found"

fusionVars == <<plan, lists, late, fused, phase>>

FusionInit ==
    /\ plan \in Plans
    /\ lists = [p \in ToSet(Paths) |-> Unknown]
    /\ late = FALSE /\ fused = <<>> /\ phase = "asking"

\* compute_hotness(): sigmoid(log1p(n)) is (n + 1) / (n + 2), and recency halves with each half-life.
Hotness(item) == (100 * (item.uses + 1)) \div ((item.uses + 2) * 2^item.age)

\* 100 * tanh(x / 100), rounded down, for the x that occur.
Tanh(x) == (x * (150000 + x * x)) \div (150000 + 6 * x * x)

PathEnds(p) ==
    /\ phase = "asking" /\ ~late /\ p \in plan.paths /\ lists[p] = Unknown
    /\ \E items \in Found[p] : lists' = [lists EXCEPT ![p] = items]
    /\ UNCHANGED <<plan, late, fused, phase>>

\* MUTANT: an exception of one path ends the search of all.
PathFails_FailsAll(p) ==
    /\ phase = "asking" /\ ~late /\ p \in plan.paths /\ lists[p] = Unknown
    /\ phase' = "found"
    /\ UNCHANGED <<plan, lists, late, fused>>

\* gather() returns the exception of the path, which counts as an empty list.
PathFails(p) ==
    /\ phase = "asking" /\ ~late /\ p \in plan.paths /\ lists[p] = Unknown
    /\ lists' = [lists EXCEPT ![p] = <<>>]
    /\ UNCHANGED <<plan, late, fused, phase>>

\* The timeout is for all: the lists of the paths that did answer are dropped, too.
TimeoutDropsAll ==
    /\ phase = "asking" /\ ~late /\ \E p \in plan.paths : lists[p] = Unknown
    /\ late' = TRUE
    /\ UNCHANGED <<plan, lists, fused, phase>>

\* The lists that are fused, the one of _hierarchy_filter() last.
ResultLists ==
    LET asked == Keep(Paths, plan.paths)
        own == IF late THEN <<>> ELSE [n \in DOMAIN asked |-> lists[asked[n]]]
        matching == SelectSeq(FlattenSeq(own), LAMBDA item : item.prefix = plan.prefix)
    IN IF plan.prefix = "" THEN own ELSE Append(own, matching)

\* What the place of an item in a list adds to its score.
Reciprocals(items, item) ==
    Total([n \in DOMAIN items |-> IF items[n] = item THEN RrfUnit \div (RrfK + n) ELSE 0])

\* MUTANT: the rank is the rank in the concatenation of the lists.
Rrf_Concatenated(item) == Reciprocals(FlattenSeq(ResultLists), item)

\* The reciprocal ranks of an item, summed over the lists that hold it.
Rrf(item) == Total([n \in DOMAIN ResultLists |-> Reciprocals(ResultLists[n], item)])

Blended(item) ==
    Min({100, ((100 - Alpha) * Tanh((100 * RrfK * Rrf(item)) \div RrfUnit) + Alpha * Hotness(item)) \div 100})

\* MUTANT: each list is cut to what the answer holds, and the lists are joined.
RrfFuse_Joined ==
    [n \in DOMAIN First(2 * plan.topK, FlattenSeq(ResultLists)) |-> First(2 * plan.topK, FlattenSeq(ResultLists))[n]]

\* Each item where it occurs for the first time, as in the dictionary of the scores.
Distinct(items) ==
    LET firsts == Keep([n \in DOMAIN items |-> n], {n \in DOMAIN items : \A k \in 1..n - 1 : items[k] # items[n]})
    IN  [n \in DOMAIN firsts |-> items[firsts[n]]]

\* _rrf_fuse(): in the order of the reciprocal ranks; the blend with the hotness is the
\* score of the items, and does not move them.
RrfFuse ==
    LET all == Distinct(FlattenSeq(ResultLists))
        ranked == Ranked([n \in DOMAIN all |-> [all[n] EXCEPT !.score = Rrf(all[n])]])
        original(item) == CHOOSE other \in ToSet(all) : other.id = item.id
    IN [n \in DOMAIN First(2 * plan.topK, ranked) |->
           [original(ranked[n]) EXCEPT !.score = Blended(original(ranked[n]))]]

Fuse ==
    /\ phase = "asking" /\ (late \/ \A p \in plan.paths : lists[p] # Unknown)
    /\ fused' = RrfFuse
    /\ phase' = "fused"
    /\ UNCHANGED <<plan, lists, late>>

\* rerank(): any order of some of the items; without a reranker, or when it fails, the
\* items as they are, cut to rerank_top_k all the same.
Reranked ==
    IF ~plan.rerank THEN {fused}
    ELSE {First(plan.rerankTopK, fused), First(plan.rerankTopK, Reverse(fused))}

Answer ==
    /\ phase = "fused"
    /\ \E items \in Reranked :
          fused' = First(plan.topK, Conditioned(items, plan.task, plan.role))
    /\ phase' = "found"
    /\ UNCHANGED <<plan, lists, late>>

FusionNext == (\E p \in ToSet(Paths) : PathEnds(p) \/ PathFails(p)) \/ TimeoutDropsAll \/ Fuse \/ Answer
=============================================================================
