---------------------------- MODULE TieredSearch ----------------------------
(***************************************************************************)
(* core/memory/tiered_router.py: a search asks the hot cache, then the     *)
(* long-term memory, then an external memory, while the answer has room    *)
(* and the latency budget lasts; adapters/ltm_adapter.py behind the second.*)
(*                                                                         *)
(* Time is counted in ticks.  A wait_for() that has reached its timeout    *)
(* ends before the next tick.  An item is a record with its id and its     *)
(* memory type.                                                            *)
(***************************************************************************)
EXTENDS Integers, Sequences, FiniteSetsExt, SequencesExt, SequenceFilters

CONSTANTS
    Warmed,       \* the lists of items warm_cache() is called with
    Remembered,   \* the lists of items the long-term memory may return
    External,     \* the lists of items the external memory may return
    HotTimeout, WarmTimeout, ColdTimeout,   \* the settings, in ticks
    HotTtl,       \* hot_tier_ttl_s, in ticks
    Searches      \* the calls of search(): [topK, budget, types]

ASSUME TieredAssumption ==
    /\ {HotTimeout, WarmTimeout, ColdTimeout, HotTtl} \subseteq Nat \ {0}
    /\ \A s \in Searches : s.topK \in Nat \ {0} /\ s.budget \in Nat
    /\ \A items \in Warmed \cup Remembered \cup External : items \in Seq(ToSet(items))

VARIABLES
    tiers,     \* what the router was built with: a Redis client, an external memory
    hot,       \* the entry of the scope in the hot cache
    scope,     \* the scope in the long-term memory: its config, and whether the adapter saw one
    search,    \* the search, with the time that is left and the results so far
    \* What happened, for the properties only:
    warmedAt,  \* ticks since warm_cache() wrote the hot entry, at most HotTtl
    given      \* the lists the tiers gave the search in time

tieredVars == <<tiers, hot, scope, search, warmedAt, given>>

NoEntry == [items |-> <<>>, age |-> 0, valid |-> TRUE]
NoSearch == [stage |-> "idle", topK |-> 1, budget |-> 0, left |-> 0, waited |-> 0, spent |-> 0, results |-> <<>>]

HotTypes == {"variable"}
Cacheable(items) == Keep(items, {item \in ToSet(items) : item.memory \in HotTypes})

TieredInit ==
    /\ tiers \in [redis : BOOLEAN, external : BOOLEAN]
    /\ hot = NoEntry /\ warmedAt = 0
    /\ scope \in [config : {"none", "own"}, seen : {FALSE}, default : BOOLEAN]
    /\ search = NoSearch /\ given = <<>>

-----------------------------------------------------------------------------
(* The hot cache.                                                          *)

\* warm_cache(): nothing to cache leaves the entry alone; a failing setex is logged.
WarmHotTier ==
    /\ \E items \in Warmed :
          /\ Cacheable(items) # <<>>
          /\ hot' = [items |-> Cacheable(items), age |-> 0, valid |-> TRUE]
    /\ warmedAt' = 0
    /\ UNCHANGED <<tiers, scope, search, given>>

\* Another program writes an entry that is no list of VARIABLE ContextItems.
SpoilEntry ==
    /\ tiers.redis /\ hot.items # <<>> /\ hot.valid
    /\ hot' = [hot EXCEPT !.valid = FALSE]
    /\ UNCHANGED <<tiers, scope, search, warmedAt, given>>

\* MUTANT: the write of the local cache starts the time to live again.
RecordUsage_Renews ==
    /\ hot.items # <<>> /\ hot.valid
    /\ hot' = [hot EXCEPT !.age = 0]
    /\ UNCHANGED <<tiers, scope, search, warmedAt, given>>

\* record_usage() for items of the entry: Redis gets it with a new time to live,
\* the local cache keeps its time.
RecordUsage ==
    /\ hot.items # <<>> /\ hot.valid
    /\ hot' = [hot EXCEPT !.age = IF tiers.redis THEN 0 ELSE @]
    /\ UNCHANGED <<tiers, scope, search, warmedAt, given>>

\* MUTANT: an entry is served one tick too long.
HotItems_Late(n) ==
    IF hot.valid /\ hot.age <= HotTtl THEN First(n, hot.items) ELSE <<>>

\* What _hot_search() finds; it does not look at the query.
HotItems(n) ==
    IF hot.valid /\ hot.age < HotTtl THEN First(n, hot.items) ELSE <<>>

-----------------------------------------------------------------------------
(* search()                                                                *)

\* An empty list of types means all of them.
BeginSearch ==
    /\ search.stage = "idle"
    /\ \E s \in Searches :
          search' = [NoSearch EXCEPT !.topK = s.topK, !.budget = s.budget, !.left = s.budget,
              !.stage = IF s.types = {} \/ s.types \cap HotTypes # {} THEN "hot" ELSE
                        IF s.budget = 0 THEN "answered" ELSE "warm"]
    /\ UNCHANGED <<tiers, hot, scope, warmedAt, given>>

\* The timeout of the tier the search waits for.
Patience ==
    CASE search.stage = "hot" -> IF tiers.redis THEN HotTimeout ELSE 0
      [] search.stage \in {"scope", "warm"} -> Min({search.left, WarmTimeout})
      [] search.stage = "cold" -> Min({search.left, ColdTimeout})
      [] OTHER -> 0

\* The tier that follows.
After(stage) ==
    CASE stage = "hot" -> "warm"
      [] stage \in {"scope", "warm"} -> IF tiers.external THEN "cold" ELSE "answered"
      [] stage = "cold" -> "answered"

\* MUTANT: the time a tier took is not taken from the budget.
TierEnds_Unbudgeted(items) ==
    LET results == search.results \o items
    IN search' = [search EXCEPT !.results = First(search.topK, results), !.waited = 0,
                                !.stage = IF Len(results) >= search.topK THEN "answered" ELSE After(@)]

\* MUTANT: what the tiers before gave is dropped when one gives nothing.
TierEnds_Drops(items) ==
    LET results == IF items = <<>> THEN <<>> ELSE search.results \o items
        left == search.left - search.waited
        full == Len(results) >= search.topK
    IN search' = [search EXCEPT !.results = First(search.topK, results), !.left = left, !.waited = 0,
                                !.stage = IF full \/ left <= 0 THEN "answered" ELSE After(@)]

\* A tier has ended with these items: the answer is full, or the budget is used up, or the next one.
TierEnds(items) ==
    LET results == search.results \o items
        left == search.left - search.waited
        full == Len(results) >= search.topK
    IN search' = [search EXCEPT !.results = First(search.topK, results), !.left = left, !.waited = 0,
                                !.stage = IF full \/ left <= 0 THEN "answered" ELSE After(@)]

\* The hot cache answers; a spoilt entry of the local cache is removed, one in Redis stays.
HotAnswers ==
    /\ search.stage = "hot"
    /\ TierEnds(HotItems(search.topK))
    /\ given' = Append(given, HotItems(search.topK))
    /\ hot' = IF ~tiers.redis /\ ~hot.valid THEN NoEntry ELSE hot
    /\ UNCHANGED <<tiers, scope, warmedAt>>

\* _ensure_scope_config(): the default is set for a scope that has no config; a
\* failure is logged, and the search goes on.
EnsureScope ==
    /\ search.stage = "warm" /\ scope.default /\ ~scope.seen
    /\ search' = [search EXCEPT !.stage = "scope"]
    /\ \/ scope' = [scope EXCEPT !.seen = TRUE, !.config = IF @ = "none" THEN "default" ELSE @]
       \/ UNCHANGED scope
    /\ UNCHANGED <<tiers, hot, warmedAt, given>>

\* LongTermMemory.search_user_mem() answers.
WarmAnswers ==
    /\ search.stage = "scope" \/ (search.stage = "warm" /\ (scope.seen \/ ~scope.default))
    /\ \E items \in Remembered :
          LET some == First(search.topK - Len(search.results), items)
          IN TierEnds(some) /\ given' = Append(given, some)
    /\ UNCHANGED <<tiers, hot, scope, warmedAt>>

ColdAnswers ==
    /\ search.stage = "cold"
    /\ \E items \in External :
          LET some == First(search.topK - Len(search.results), items)
          IN TierEnds(some) /\ given' = Append(given, some)
    /\ UNCHANGED <<tiers, hot, scope, warmedAt>>

\* MUTANT: only the timeout is caught.
TierFails_Raises ==
    /\ search.stage \in {"warm", "scope", "cold"} \/ (search.stage = "hot" /\ tiers.redis)
    /\ search' = [search EXCEPT !.stage = "answered", !.results = <<>>]
    /\ UNCHANGED <<tiers, hot, scope, warmedAt, given>>

\* A tier raises one of the errors its search expects, or its timeout expires (it is
\* enabled at any time, so that an expiry is no case of its own): no items.
TierFails ==
    /\ search.stage \in {"warm", "scope", "cold"} \/ (search.stage = "hot" /\ tiers.redis)
    /\ TierEnds(<<>>)
    /\ UNCHANGED <<tiers, hot, scope, warmedAt, given>>

\* An external memory may raise what _cold_search() does not catch.
ColdRaises ==
    /\ search.stage = "cold"
    /\ search' = [search EXCEPT !.stage = "raised"]
    /\ UNCHANGED <<tiers, hot, scope, warmedAt, given>>

\* Redis drops an entry at the end of its time to live; a search waits no longer than its timeout.
TieredTick ==
    LET waiting == search.stage \notin {"idle", "answered", "raised"}
        age == IF hot.items = <<>> THEN 0 ELSE Min({hot.age + 1, HotTtl})
    IN /\ waiting => search.waited < Patience
       /\ search' = IF waiting THEN [search EXCEPT !.waited = @ + 1, !.spent = @ + 1] ELSE search
       /\ hot' = IF tiers.redis /\ age = HotTtl THEN NoEntry ELSE [hot EXCEPT !.age = age]
       /\ warmedAt' = Min({warmedAt + 1, HotTtl})
       /\ UNCHANGED <<tiers, scope, given>>

SearchSteps == HotAnswers \/ EnsureScope \/ WarmAnswers \/ ColdAnswers \/ TierFails \/ ColdRaises

TieredNext == WarmHotTier \/ SpoilEntry \/ RecordUsage \/ BeginSearch \/ SearchSteps \/ TieredTick
=============================================================================
