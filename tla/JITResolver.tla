----------------------------- MODULE JITResolver -----------------------------
(***************************************************************************)
(* core/context/jit_resolver.py: references are resolved against sources   *)
(* that change, against notes of the working memory and against stored     *)
(* tool results, and what was found is cached per reference.               *)
(*                                                                         *)
(* The resolutions and the tool results are in Redis or, without Redis, in *)
(* one dict of the process with a bounded number of entries.  With Redis   *)
(* every access to the cache suspends and may raise.  A source is read at  *)
(* some point of the call to it, and the answer may arrive much later.     *)
(*                                                                         *)
(* The cache is a sequence in the order of created_at.  A contents is the  *)
(* number of a version of the thing a reference locates.                   *)
(***************************************************************************)
EXTENDS Integers, Sequences, FiniteSets, SequencesExt, SequenceFilters

CONSTANTS
    Resolvers,    \* coroutines that call resolve() or store_tool_result()
    Refs,         \* the ref_ids
    Locators,     \* what the references point to
    Loc,          \* Loc[r]: the locator of the reference r
    Tools,        \* the locators that name tool results
    Expires,      \* Expires[r]: the expires_at of the reference
    MaxEntries,   \* jit_cache_local_max_entries
    JitTtl,       \* jit_cache_ttl_s
    ToolTtls,     \* the ttl_s of tool results
    MaxTime,      \* BOUND on the clock
    MaxVersions,  \* BOUND on the versions of a source or a tool result
    NoResult

Nothing == 0      \* the empty list of items
Versions == 1..MaxVersions
Contents == 0..MaxVersions
Forever == MaxTime + 1
Keys == Refs \cup Locators

ASSUME ResolverAssumption ==
    /\ Refs \cap Locators = {}
    /\ Loc \in [Refs -> Locators]
    /\ Tools \subseteq Locators
    /\ Expires \in [Refs -> Nat]
    /\ MaxEntries \in Nat \ {0} /\ JitTtl \in Nat \ {0} /\ ToolTtls \subseteq Nat \ {0}
    /\ MaxTime \in Nat /\ MaxVersions \in Nat \ {0}

VARIABLES
    now,
    useRedis,  \* a redis_client was given; chosen at the start
    notes,     \* the locators that name notes, the rest is searched; chosen at the start
    cache,     \* the entries that are not expired, oldest first
    current,   \* current[l]: the version the source l has now
    pc,        \* pc[c]: the call that c waits for
    ref,       \* ref[c]: the reference c resolves or the locator it stores
    got,       \* got[c]: the contents c will write to the cache
    life,      \* life[c]: the ttl_s c will write
    began,     \* began[c]: when the call of resolve() began
    \* What happened, for the properties only:
    until,     \* until[l][v]: when the version v ceased to be current or to live
    result     \* what resolve() returned in the last step

callVars == <<pc, ref, got, life, began>>
vars == <<now, useRedis, notes, cache, current, callVars, until, result>>

Init ==
    /\ now = 0
    /\ useRedis \in BOOLEAN
    /\ notes \in SUBSET (Locators \ Tools)
    /\ cache = <<>>
    /\ current = [l \in Locators |-> IF l \in Tools THEN Nothing ELSE 1]
    /\ pc = [c \in Resolvers |-> "idle"]
    /\ ref = [c \in Resolvers |-> NoResult]
    /\ got = [c \in Resolvers |-> Nothing]
    /\ life = [c \in Resolvers |-> JitTtl]
    /\ began = [c \in Resolvers |-> 0]
    /\ until = [l \in Locators |-> [v \in Versions |-> Forever]]
    /\ result = NoResult

-----------------------------------------------------------------------------
(* The cache.                                                              *)

\* Mutant: an entry lives a moment too long.
Fresh_OffByOne(e, t) == t - e.at <= e.ttl

Fresh(e, t) == t - e.at < e.ttl

Has(k) == \E i \in 1..Len(cache) : cache[i].key = k
Hit(k) == CHOOSE e \in ToSet(cache) : e.key = k
Cached(k) == IF Has(k) THEN Hit(k).items ELSE Nothing

Others(k) == Keep(cache, {e \in ToSet(cache) : e.key # k})

\* The field took is not in the code: how long the call took that found the items.
Entry(k, items, ttl, took) ==
    [key |-> k, items |-> items, at |-> now, ttl |-> ttl, took |-> took]

\* Mutant: the dict of the process is pruned before an insertion only.
With_PrunedBefore(k, items, ttl, took) ==
    Append(IF useRedis \/ Len(Others(k)) <= MaxEntries THEN Others(k) ELSE Tail(Others(k)),
           Entry(k, items, ttl, took))

\* The new entry is the newest one; without Redis the oldest one has to go when
\* there are too many.
With(k, items, ttl, took) ==
    LET new == Append(Others(k), Entry(k, items, ttl, took))
    IN  IF useRedis \/ Len(new) <= MaxEntries THEN new ELSE Tail(new)

\* resolve() returned items to a call that began at this time, or no call returned.
ReturnsItems(r, items, start, took) ==
    result' = [of |-> r, items |-> items, began |-> start, took |-> took]
ReturnsNothing == result' = NoResult

\* An expired entry is invisible to every read and pruned before every write, so
\* it is dropped as soon as it expires.
Tick ==
    /\ now < MaxTime
    /\ now' = now + 1
    /\ cache' = Keep(cache, {e \in ToSet(cache) : Fresh(e, now + 1)})
    /\ ReturnsNothing
    /\ UNCHANGED <<useRedis, notes, current, callVars, until>>

Waits(c, where) == pc' = [pc EXCEPT ![c] = where]

Ends(c) ==
    /\ Waits(c, "idle")
    /\ ref' = [ref EXCEPT ![c] = NoResult]
    /\ got' = [got EXCEPT ![c] = Nothing]
    /\ life' = [life EXCEPT ![c] = JitTtl]
    /\ began' = [began EXCEPT ![c] = 0]

-----------------------------------------------------------------------------
(* resolve(); an expired reference resolves to nothing and changes nothing. *)

MayResolve(c, r) == pc[c] = "idle" /\ now <= Expires[r]

Begins(c, r, where) ==
    /\ ref' = [ref EXCEPT ![c] = r]
    /\ began' = [began EXCEPT ![c] = now]
    /\ Waits(c, where)
    /\ ReturnsNothing
    /\ UNCHANGED <<cache, got, life>>

BeginResolve(c, r) ==
    /\ useRedis
    /\ MayResolve(c, r)
    /\ Begins(c, r, "get")
    /\ UNCHANGED <<now, useRedis, notes, current, until>>

\* _dispatch(): a tool result is read from the cache.
Dispatch(c, r) == Waits(c, IF Loc[r] \in Tools THEN "tool" ELSE "search")

\* The answer of Redis goes straight to the caller: what happens before it arrives
\* makes no difference to what it says about the time at which the call began.
GetHits(c) ==
    /\ pc[c] = "get"
    /\ Has(ref[c])
    /\ ReturnsItems(ref[c], Cached(ref[c]), began[c], Hit(ref[c]).took)
    /\ Ends(c)
    /\ UNCHANGED <<now, useRedis, notes, cache, current, until>>

\* There is no entry, or the read raised: _get_cache() logs it.
GetMisses(c) ==
    /\ pc[c] = "get"
    /\ Dispatch(c, ref[c])
    /\ ReturnsNothing
    /\ UNCHANGED <<now, useRedis, notes, cache, current, ref, got, life, began, until>>

\* Without Redis neither the cache nor a tool result suspends.
ResolveLocally(c, r) ==
    /\ ~useRedis
    /\ MayResolve(c, r)
    /\ \/ /\ Has(r)
          /\ ReturnsItems(r, Cached(r), now, Hit(r).took)
          /\ UNCHANGED <<cache, callVars>>
       \/ /\ ~Has(r)
          /\ Loc[r] \in Tools
          /\ ReturnsItems(r, Cached(Loc[r]), now, 0)
          /\ cache' = With(r, Cached(Loc[r]), JitTtl, 0)
          /\ UNCHANGED callVars
       \/ /\ ~Has(r)
          /\ Loc[r] \notin Tools
          /\ Begins(c, r, "search")
    /\ UNCHANGED <<now, useRedis, notes, current, until>>

\* What was found is cached, also when it is nothing.
Found(c, items) ==
    IF useRedis
    THEN /\ got' = [got EXCEPT ![c] = items]
         /\ Waits(c, "set")
         /\ ReturnsNothing
         /\ UNCHANGED <<cache, ref, life, began>>
    ELSE /\ cache' = With(ref[c], items, JitTtl, now - began[c])
         /\ ReturnsItems(ref[c], items, began[c], 0)
         /\ Ends(c)

\* The contents are read; the answer is on its way.
Reads(c, items) ==
    /\ got' = [got EXCEPT ![c] = items]
    /\ Waits(c, "answer")
    /\ ReturnsNothing
    /\ UNCHANGED <<now, useRedis, notes, cache, current, ref, life, began, until>>

\* The retriever, or get_note(), reads the source.
SearchReads(c) ==
    /\ pc[c] = "search"
    /\ Reads(c, current[Loc[ref[c]]])

\* A failing retriever makes resolve() raise; a failing get_note() finds nothing.
SearchRaises(c) ==
    /\ pc[c] = "search"
    /\ IF Loc[ref[c]] \in notes
       THEN Found(c, Nothing)
       ELSE Ends(c) /\ ReturnsNothing /\ UNCHANGED cache
    /\ UNCHANGED <<now, useRedis, notes, current, until>>

\* Redis reads the tool result; a read that raises finds nothing.
ToolReads(c) ==
    /\ pc[c] = "tool"
    /\ Reads(c, Cached(Loc[ref[c]])) \/ Reads(c, Nothing)

AnswerReturns(c) ==
    /\ pc[c] = "answer"
    /\ Found(c, got[c])
    /\ UNCHANGED <<now, useRedis, notes, current, until>>

\* _set_cache() logs what setex raises.
SetEnds(c) ==
    /\ pc[c] = "set"
    /\ cache' \in {cache, With(ref[c], got[c], JitTtl, now - began[c])}
    /\ ReturnsItems(ref[c], got[c], began[c], 0)
    /\ Ends(c)
    /\ UNCHANGED <<now, useRedis, notes, current, until>>

-----------------------------------------------------------------------------
(* store_tool_result()                                                     *)

\* The version v of the tool result l replaces the one in the cache.
Replaces(l, v, ttl) ==
    /\ cache' = With(l, v, ttl, 0)
    /\ until' = [until EXCEPT ![l] = [w \in Versions |->
                    IF w = v THEN now + ttl
                    ELSE IF w = Cached(l) THEN now ELSE until[l][w]]]

\* Versions are numbered as the calls of store_tool_result() begin.
NewVersion(c, l) ==
    /\ pc[c] = "idle"
    /\ l \in Tools
    /\ current[l] < MaxVersions
    /\ current' = [current EXCEPT ![l] = @ + 1]

StoreLocally(c, l, ttl) ==
    /\ ~useRedis
    /\ NewVersion(c, l)
    /\ Replaces(l, current[l] + 1, ttl)
    /\ ReturnsNothing
    /\ UNCHANGED <<now, useRedis, notes, callVars>>

BeginStore(c, l, ttl) ==
    /\ useRedis
    /\ NewVersion(c, l)
    /\ ref' = [ref EXCEPT ![c] = l]
    /\ got' = [got EXCEPT ![c] = current[l] + 1]
    /\ life' = [life EXCEPT ![c] = ttl]
    /\ Waits(c, "store")
    /\ ReturnsNothing
    /\ UNCHANGED <<now, useRedis, notes, cache, began, until>>

\* setex returns, or raises with or without an effect: that is logged only.
StoreEnds(c) ==
    /\ pc[c] = "store"
    /\ Replaces(ref[c], got[c], life[c]) \/ UNCHANGED <<cache, until>>
    /\ Ends(c)
    /\ ReturnsNothing
    /\ UNCHANGED <<now, useRedis, notes, current>>

\* A source changes: what it returned before is out of date.
Change(l) ==
    /\ l \notin Tools
    /\ current[l] < MaxVersions
    /\ current' = [current EXCEPT ![l] = @ + 1]
    /\ until' = [until EXCEPT ![l][current[l]] = now]
    /\ ReturnsNothing
    /\ UNCHANGED <<now, useRedis, notes, cache, callVars>>

-----------------------------------------------------------------------------
Next ==
    \/ Tick
    \/ \E l \in Locators : Change(l)
    \/ \E c \in Resolvers :
          \/ \E r \in Refs : BeginResolve(c, r) \/ ResolveLocally(c, r)
          \/ GetHits(c) \/ GetMisses(c)
          \/ SearchReads(c) \/ SearchRaises(c) \/ ToolReads(c) \/ AnswerReturns(c) \/ SetEnds(c)
          \/ \E l \in Locators, ttl \in ToolTtls : StoreLocally(c, l, ttl) \/ BeginStore(c, l, ttl)
          \/ StoreEnds(c)

Spec == Init /\ [][Next]_vars

-----------------------------------------------------------------------------
(* Properties.                                                             *)

Calls == {"idle", "get", "search", "tool", "answer", "set", "store"}
Entries == [key : Keys, items : Contents, at : 0..MaxTime, ttl : ToolTtls \cup {JitTtl},
            took : 0..MaxTime]
Results == [of : Refs, items : Contents, began : 0..MaxTime, took : 0..MaxTime]

\* The shape of the state: a key has one entry, and the dict of the process never
\* holds more entries than it may.
TypeOK ==
    /\ now \in 0..MaxTime
    /\ useRedis \in BOOLEAN
    /\ notes \subseteq Locators \ Tools
    /\ ToSet(cache) \subseteq Entries
    /\ \A i, j \in 1..Len(cache) : cache[i].key = cache[j].key => i = j
    /\ ~useRedis => Len(cache) <= MaxEntries
    /\ current \in [Locators -> Contents]
    /\ pc \in [Resolvers -> Calls]
    /\ ref \in [Resolvers -> Keys \cup {NoResult}]
    /\ got \in [Resolvers -> Contents]
    /\ life \in [Resolvers -> ToolTtls \cup {JitTtl}]
    /\ began \in [Resolvers -> 0..MaxTime]
    /\ \A l \in Locators, v \in Versions : until[l][v] \in Nat
    /\ result \in Results \cup {NoResult}

\* What resolve() returns was still current when the call began or, when it comes
\* from the cache, less than the time to live of the cache before that; the only
\* thing that makes it older is the time the call took that found it, because a
\* source may be read long before its answer is cached.  Neither a source that
\* changed nor a tool result that was replaced or whose own time to live is over is
\* served longer, however calls overlap and whatever Redis delays or refuses.
ServedIsRecent ==
    result # NoResult /\ result.items # Nothing =>
        until[Loc[result.of]][result.items] > result.began - JitTtl - result.took
=============================================================================
