------------------------- MODULE JITResolver_proofs -------------------------
(***************************************************************************)
(* Proofs about JITResolver, for every number of coroutines, references,   *)
(* sources and tool results, every bound of the dict and all times to      *)
(* live, with Redis or without.                                            *)
(***************************************************************************)
EXTENDS JITResolver, SequenceFilters_proofs, TLAPS

USE ResolverAssumption

\* What is known of the time at which a version ceased to live: what a reference
\* resolved to was current when the call began that found it, and a tool result
\* lives as long as its entry.
EntryRecent(e) ==
    e.items # Nothing =>
        IF e.key \in Refs THEN until[Loc[e.key]][e.items] >= e.at - e.took
                          ELSE until[e.key][e.items] >= e.at + e.ttl

\* The entries the cache may hold.
GoodEntries ==
    {e \in Entries :
        /\ e.at <= now /\ Fresh(e, now)
        /\ e.key \in Refs => e.ttl = JitTtl
        /\ e.key \in Locators => e.key \in Tools
        /\ EntryRecent(e)}

CacheInv ==
    /\ cache \in Seq(GoodEntries)
    /\ \A i, j \in 1..Len(cache) : cache[i].key = cache[j].key => i = j
    /\ ~useRedis => Len(cache) <= MaxEntries

\* What a suspended call holds.  The contents it will write were current when it
\* began or later, because it read them since.
CallInv(c) ==
    /\ began[c] <= now
    /\ pc[c] \in {"get", "search", "tool", "answer", "set"} => ref[c] \in Refs
    /\ pc[c] = "search" => Loc[ref[c]] \notin Tools
    /\ pc[c] = "tool" => Loc[ref[c]] \in Tools
    /\ pc[c] = "store" => ref[c] \in Tools /\ got[c] \in Versions /\ life[c] \in ToolTtls
    /\ pc[c] \in {"answer", "set"} /\ got[c] # Nothing => until[Loc[ref[c]]][got[c]] >= began[c]

\* The calls, each with what it holds.
CallsInv ==
    /\ pc \in [Resolvers -> Calls]
    /\ ref \in [Resolvers -> Keys \cup {NoResult}]
    /\ got \in [Resolvers -> Contents]
    /\ life \in [Resolvers -> ToolTtls \cup {JitTtl}]
    /\ began \in [Resolvers -> 0..MaxTime]
    /\ \A c \in Resolvers : CallInv(c)

\* The versions of a source that are current or to come live for ever.
SourceInv(l) ==
    /\ current[l] \in Versions
    /\ \A v \in Versions : v >= current[l] => until[l][v] = Forever

ResultInv ==
    result # NoResult =>
        /\ result \in Results
        /\ result.items # Nothing =>
              until[Loc[result.of]][result.items] > result.began - JitTtl - result.took

Inv ==
    /\ now \in 0..MaxTime /\ useRedis \in BOOLEAN
    /\ notes \subseteq Locators \ Tools
    /\ current \in [Locators -> Contents]
    /\ until \in [Locators -> [Versions -> Nat]]
    /\ CallsInv
    /\ CacheInv
    /\ \A l \in Locators \ Tools : SourceInv(l)
    /\ ResultInv

-----------------------------------------------------------------------------
(* The cache.                                                              *)

LEMMA TimesToLive == \A ttl \in ToolTtls \cup {JitTtl} : ttl \in Nat /\ ttl > 0
  OBVIOUS

\* A filter of a sequence whose keys are different: what is left is in the set,
\* and its keys are different.
LEMMA KeepEntries ==
    ASSUME NEW s \in Seq(Entries), NEW Good, NEW New \in SUBSET Entries,
           \A i \in 1..Len(s) : s[i] \in Good => s[i] \in New,
           \A i, j \in 1..Len(s) : s[i].key = s[j].key => i = j
    PROVE  /\ Keep(s, Good) \in Seq(New)
           /\ Len(Keep(s, Good)) \in Nat /\ Len(Keep(s, Good)) <= Len(s)
           /\ \A i, j \in 1..Len(Keep(s, Good)) :
                 Keep(s, Good)[i].key = Keep(s, Good)[j].key => i = j
           /\ \A i \in 1..Len(Keep(s, Good)) : Keep(s, Good)[i] \in Good
  <1>1. PICK r : r = Keep(s, Good)
    OBVIOUS
  <1>2. r \in Seq(Entries) /\ Len(r) \in Nat
    BY <1>1, KeepSequence
  <1>3. Len(r) <= Len(s) /\ Len(s) \in Nat
    <2>1. Len(Keep(s, Good)) <= Len(s)
      BY KeepType, Zenon
    <2> QED BY <1>1, <2>1
  <1>4. PICK place : Picks(place, s, Good)
    BY KeepPicks
  <1>5. /\ place \in [1..Len(r) -> 1..Len(s)]
        /\ \A k \in 1..Len(r) : r[k] = s[place[k]] /\ r[k] \in Good
        /\ \A k, l \in 1..Len(r) : k < l => place[k] < place[l]
    BY <1>1, <1>4 DEF Picks
  <1>6. ASSUME NEW k \in 1..Len(r) PROVE r[k] \in New
    BY <1>5
  <1>7. r \in Seq(New)
    <2>1. r = [k \in 1..Len(r) |-> r[k]]
      BY <1>2
    <2> QED BY <1>2, <1>6, <2>1
  <1>8. ASSUME NEW i \in 1..Len(r), NEW j \in 1..Len(r), r[i].key = r[j].key PROVE i = j
    <2>1. place[i] = place[j]
      <3>1. place[i] \in 1..Len(s) /\ place[j] \in 1..Len(s)
            /\ r[i] = s[place[i]] /\ r[j] = s[place[j]]
        BY <1>5
      <3> QED BY <1>8, <3>1
    <2>2. place[i] \in Int /\ place[j] \in Int
      BY <1>3, <1>5
    <2>3. ~(i < j) /\ ~(j < i)
      BY <1>5, <2>1, <2>2
    <2> QED BY <1>2, <2>3
  <1> QED BY <1>1, <1>2, <1>3, <1>5, <1>7, <1>8

\* What the cache holds after a write of one key: the new entry and others.
LEMMA WithEntries ==
    ASSUME CacheInv, NEW k \in Keys, NEW items, NEW ttl, NEW took, NEW New \in SUBSET Entries,
           \A e \in GoodEntries : e.key # k => e \in New,
           Entry(k, items, ttl, took) \in New
    PROVE  /\ With(k, items, ttl, took) \in Seq(New)
           /\ \A i, j \in 1..Len(With(k, items, ttl, took)) :
                 With(k, items, ttl, took)[i].key = With(k, items, ttl, took)[j].key => i = j
           /\ ~useRedis => Len(With(k, items, ttl, took)) <= MaxEntries
  <1>1. PICK o : o = Others(k)
    OBVIOUS
  <1>2. PICK e : e = Entry(k, items, ttl, took)
    OBVIOUS
  <1>3. PICK Good : Good = {x \in ToSet(cache) : x.key # k}
    OBVIOUS
  <1>4. cache \in Seq(GoodEntries) /\ \A i \in 1..Len(cache) : cache[i] \in GoodEntries
    BY DEF CacheInv
  <1>5. cache \in Seq(Entries)
    <2>1. GoodEntries \subseteq Entries
      BY DEF GoodEntries
    <2> QED BY <1>4, <2>1
  <1>6. /\ o \in Seq(New) /\ Len(o) \in Nat /\ Len(o) <= Len(cache)
        /\ \A i, j \in 1..Len(o) : o[i].key = o[j].key => i = j
        /\ \A i \in 1..Len(o) : o[i] \in Good
    <2>1. \A i \in 1..Len(cache) : cache[i] \in Good => cache[i] \in New
      BY <1>3, <1>4
    <2>2. \A i, j \in 1..Len(cache) : cache[i].key = cache[j].key => i = j
      BY DEF CacheInv
    <2>3. o = Keep(cache, Good)
      BY <1>1, <1>3 DEF Others
    <2> QED BY <1>5, <2>1, <2>2, <2>3, KeepEntries
  <1>7. \A i \in 1..Len(o) : o[i].key # k
    BY <1>3, <1>6
  <1>8. e \in New /\ e.key = k
    BY <1>2 DEF Entry
  <1>9. PICK n : n = Append(o, e)
    OBVIOUS
  <1>10. /\ n \in Seq(New) /\ Len(n) = Len(o) + 1 /\ n[Len(o) + 1] = e
         /\ \A i \in 1..Len(o) : n[i] = o[i]
    BY <1>6, <1>8, <1>9
  <1>11. \A i, j \in 1..Len(n) : n[i].key = n[j].key => i = j
    <2> SUFFICES ASSUME NEW i \in 1..Len(n), NEW j \in 1..Len(n), n[i].key = n[j].key PROVE i = j
      OBVIOUS
    <2>1. (i \in 1..Len(o) \/ i = Len(o) + 1) /\ (j \in 1..Len(o) \/ j = Len(o) + 1)
      BY <1>6, <1>10
    <2>2. CASE i \in 1..Len(o) /\ j \in 1..Len(o)
      BY <1>6, <1>10, <2>2
    <2>3. CASE i = Len(o) + 1 /\ j \in 1..Len(o)
      BY <1>7, <1>8, <1>10, <2>3
    <2>4. CASE j = Len(o) + 1 /\ i \in 1..Len(o)
      BY <1>7, <1>8, <1>10, <2>4
    <2>5. CASE i = Len(o) + 1 /\ j = Len(o) + 1
      BY <2>5
    <2> QED BY <2>1, <2>2, <2>3, <2>4, <2>5
  <1>12. With(k, items, ttl, took) = IF useRedis \/ Len(n) <= MaxEntries THEN n ELSE Tail(n)
    BY <1>1, <1>2, <1>9 DEF With
  <1>13. CASE useRedis \/ Len(n) <= MaxEntries
    BY <1>10, <1>11, <1>12, <1>13
  <1>14. CASE ~(useRedis \/ Len(n) <= MaxEntries)
    <2>1. PICK t : t = Tail(n)
      OBVIOUS
    <2>2. t \in Seq(New) /\ Len(t) = Len(o) /\ \A i \in 1..Len(o) : t[i] = n[i + 1]
      BY <1>6, <1>10, <2>1
    <2>3. \A i, j \in 1..Len(t) : t[i].key = t[j].key => i = j
      <3> SUFFICES ASSUME NEW i \in 1..Len(t), NEW j \in 1..Len(t), t[i].key = t[j].key PROVE i = j
        OBVIOUS
      <3>1. i + 1 \in 1..Len(n) /\ j + 1 \in 1..Len(n)
        BY <1>6, <1>10, <2>2
      <3>2. i + 1 = j + 1
        BY <1>11, <2>2, <3>1
      <3> QED BY <2>2, <1>6, <3>2
    <2>4. Len(t) <= MaxEntries
      BY <1>6, <1>14, <2>2 DEF CacheInv
    <2> QED BY <1>12, <1>14, <2>1, <2>2, <2>3, <2>4
  <1> QED BY <1>13, <1>14

\* What a read of the cache returns.
LEMMA CachedEntry ==
    ASSUME CacheInv, NEW k, Has(k)
    PROVE  \E e \in GoodEntries : e.key = k /\ e = Hit(k) /\ Cached(k) = e.items
  <1>1. PICK i \in 1..Len(cache) : cache[i].key = k
    BY DEF Has
  <1>2. cache \in Seq(GoodEntries)
    BY DEF CacheInv
  <1>3. \A e \in ToSet(cache) : e \in GoodEntries
    BY <1>2 DEF ToSet
  <1>4. cache[i] \in ToSet(cache)
    BY <1>2 DEF ToSet
  <1>5. PICK e : e = Hit(k)
    OBVIOUS
  <1>6. e \in ToSet(cache) /\ e.key = k
    BY <1>1, <1>4, <1>5 DEF Hit
  <1> QED BY <1>3, <1>5, <1>6 DEF Cached

\* A cached resolution was current less than the time to live of the cache and the
\* time its search took ago.
LEMMA CachedResolution ==
    ASSUME Inv, NEW r \in Refs, Has(r)
    PROVE  /\ Cached(r) \in Contents /\ Hit(r).took \in 0..MaxTime
           /\ Cached(r) # Nothing =>
                 until[Loc[r]][Cached(r)] > now - JitTtl - Hit(r).took
  <1>1. PICK e \in GoodEntries : e.key = r /\ e = Hit(r) /\ Cached(r) = e.items
    BY CachedEntry DEF Inv
  <1>2. e \in Entries /\ Fresh(e, now) /\ e.ttl = JitTtl /\ EntryRecent(e)
    BY <1>1 DEF GoodEntries
  <1>3. Cached(r) \in Contents /\ e.at \in Int /\ e.took \in 0..MaxTime
    BY <1>1, <1>2 DEF Entries
  <1>4. ASSUME Cached(r) # Nothing
        PROVE  until[Loc[r]][Cached(r)] > now - JitTtl - e.took
    <2>1. until[Loc[r]][Cached(r)] >= e.at - e.took
      BY <1>1, <1>2, <1>4 DEF EntryRecent
    <2>2. until[Loc[r]][Cached(r)] \in Nat
      BY <1>3, <1>4 DEF Inv, Contents, Versions, Nothing
    <2>3. e.at > now - JitTtl
      BY <1>2, <1>3 DEF Fresh, Inv
    <2> QED BY <1>3, <2>1, <2>2, <2>3 DEF Inv
  <1> QED BY <1>1, <1>3, <1>4

\* A cached tool result lives now.
LEMMA CachedToolResult ==
    ASSUME Inv, NEW l \in Tools
    PROVE  /\ Cached(l) \in Contents
           /\ Cached(l) # Nothing => until[l][Cached(l)] >= now
  <1>1. CASE ~Has(l)
    BY <1>1 DEF Cached, Contents, Nothing
  <1>2. CASE Has(l)
    <2>1. PICK e \in GoodEntries : e.key = l /\ Cached(l) = e.items
      BY <1>2, CachedEntry DEF Inv
    <2>2. e \in Entries /\ Fresh(e, now) /\ EntryRecent(e) /\ l \notin Refs
      BY <2>1 DEF GoodEntries
    <2>3. Cached(l) \in Contents /\ e.at \in Int /\ e.ttl \in Int
      <3>1. e.items \in Contents /\ e.at \in 0..MaxTime /\ e.ttl \in ToolTtls \cup {JitTtl}
        BY <2>2 DEF Entries
      <3>2. PICK ttl \in ToolTtls \cup {JitTtl} : ttl = e.ttl
        BY <3>1
      <3>3. ttl \in Nat
        BY TimesToLive, Zenon
      <3>4. e.ttl \in Int
        BY <3>2, <3>3
      <3> QED BY <2>1, <3>1, <3>4
    <2>4. ASSUME Cached(l) # Nothing PROVE until[l][Cached(l)] >= now
      <3>1. until[l][Cached(l)] >= e.at + e.ttl
        BY <2>1, <2>2, <2>4 DEF EntryRecent
      <3>2. until[l][Cached(l)] \in Nat
        BY <2>3, <2>4 DEF Inv, Contents, Versions, Nothing
      <3> QED BY <2>2, <2>3, <3>1, <3>2 DEF Fresh, Inv
    <2> QED BY <2>3, <2>4
  <1> QED BY <1>1, <1>2

-----------------------------------------------------------------------------
(* The steps.                                                              *)

\* A write of the cache by an action that does not change the clock.
LEMMA WriteOK ==
    ASSUME Inv, NEW k \in Keys, NEW items \in Contents, NEW ttl \in ToolTtls \cup {JitTtl},
           NEW took \in 0..MaxTime,
           k \in Refs => ttl = JitTtl,
           k \in Locators => k \in Tools,
           items # Nothing => IF k \in Refs THEN until'[Loc[k]][items] >= now - took
                              ELSE until'[k][items] >= now + ttl,
           \A e \in GoodEntries : e.key # k => EntryRecent(e)',
           cache' = With(k, items, ttl, took), UNCHANGED <<now, useRedis>>
    PROVE  CacheInv'
  <1>1. PICK New : New = GoodEntries'
    OBVIOUS
  <1>2. \A e \in New : e \in Entries
    BY <1>1 DEF GoodEntries
  <1>3. ASSUME NEW e \in GoodEntries, e.key # k PROVE e \in New
    BY <1>1, <1>3 DEF GoodEntries, Fresh
  <1>4. Entry(k, items, ttl, took) \in New
    <2>1. PICK e : e = Entry(k, items, ttl, took)
      OBVIOUS
    <2>2. e.key = k /\ e.items = items /\ e.at = now /\ e.ttl = ttl /\ e.took = took
      BY <2>1 DEF Entry
    <2>3. now \in 0..MaxTime
      BY DEF Inv
    <2>4. e \in Entries
      BY <2>1, <2>3 DEF Entry, Entries
    <2>5. Fresh(e, now)
      BY <2>2, <2>3 DEF Fresh
    <2>6. EntryRecent(e)'
      BY <2>2 DEF EntryRecent
    <2> QED BY <1>1, <2>1, <2>2, <2>3, <2>4, <2>5, <2>6 DEF GoodEntries, Fresh
  <1>5. CacheInv
    BY DEF Inv
  <1>6. PICK w : w = With(k, items, ttl, took)
    OBVIOUS
  <1>7. /\ w \in Seq(New)
        /\ \A i, j \in 1..Len(w) : w[i].key = w[j].key => i = j
        /\ ~useRedis => Len(w) <= MaxEntries
    BY <1>2, <1>3, <1>4, <1>5, <1>6, WithEntries
  <1> QED BY <1>1, <1>6, <1>7 DEF CacheInv

\* The end of a call leaves nothing of it.
LEMMA EndOK ==
    ASSUME Inv, NEW c \in Resolvers, Ends(c), UNCHANGED now,
           \A d \in Resolvers : d # c /\ CallInv(d) => CallInv(d)'
    PROVE  CallsInv'
  <1>1. pc' = [pc EXCEPT ![c] = "idle"] /\ ref' = [ref EXCEPT ![c] = NoResult]
        /\ got' = [got EXCEPT ![c] = Nothing] /\ life' = [life EXCEPT ![c] = JitTtl]
        /\ began' = [began EXCEPT ![c] = 0]
    BY DEF Ends, Waits
  <1>2. /\ \A d \in Resolvers : CallInv(d)
        /\ pc \in [Resolvers -> Calls] /\ ref \in [Resolvers -> Keys \cup {NoResult}]
        /\ got \in [Resolvers -> Contents] /\ life \in [Resolvers -> ToolTtls \cup {JitTtl}]
        /\ began \in [Resolvers -> 0..MaxTime] /\ now \in 0..MaxTime
    BY DEF Inv, CallsInv
  <1>3. ASSUME NEW d \in Resolvers PROVE CallInv(d)'
    <2>1. CASE d = c
      BY <1>1, <1>2, <2>1 DEF CallInv
    <2>2. CASE d # c
      BY <1>2, <2>2
    <2> QED BY <2>1, <2>2
  <1>4. Nothing \in Contents /\ 0 \in 0..MaxTime /\ "idle" \in Calls
    BY DEF Nothing, Contents, Calls
  <1> QED BY <1>1, <1>2, <1>3, <1>4 DEF CallsInv

\* The end of a call that changes no version.
LEMMA QuietEndOK ==
    ASSUME Inv, NEW c \in Resolvers, Ends(c), UNCHANGED <<now, until>>
    PROVE  CallsInv'
  <1>1. pc' = [pc EXCEPT ![c] = "idle"] /\ ref' = [ref EXCEPT ![c] = NoResult]
        /\ got' = [got EXCEPT ![c] = Nothing] /\ life' = [life EXCEPT ![c] = JitTtl]
        /\ began' = [began EXCEPT ![c] = 0]
    BY DEF Ends, Waits
  <1>2. ASSUME NEW d \in Resolvers, d # c, CallInv(d) PROVE CallInv(d)'
    BY <1>1, <1>2 DEF Inv, CallsInv, CallInv
  <1> QED BY <1>2, EndOK

\* What an action that returns these items establishes.
LEMMA ReturnOK ==
    ASSUME Inv, NEW r \in Refs, NEW items \in Contents, NEW start \in 0..MaxTime,
           NEW took \in 0..MaxTime, ReturnsItems(r, items, start, took),
           items # Nothing => until'[Loc[r]][items] > start - JitTtl - took
    PROVE  ResultInv'
  <1>1. result' = [of |-> r, items |-> items, began |-> start, took |-> took]
    BY DEF ReturnsItems
  <1>2. result' \in Results
    BY <1>1 DEF Results
  <1> QED BY <1>1, <1>2 DEF ResultInv

LEMMA NoReturnOK ==
    ASSUME ReturnsNothing
    PROVE  ResultInv'
  BY DEF ReturnsNothing, ResultInv

\* A version ceases to live now or later: what was recent stays so.
LEMMA UntilOK ==
    ASSUME Inv, UNCHANGED now,
           until' \in [Locators -> [Versions -> Nat]],
           \A l \in Locators, v \in Versions : until'[l][v] = until[l][v] \/ until'[l][v] >= now
    PROVE  /\ \A e \in GoodEntries : e.key \in Refs => EntryRecent(e)'
           /\ \A c \in Resolvers :
                 pc'[c] = pc[c] /\ ref'[c] = ref[c] /\ got'[c] = got[c] /\ life'[c] = life[c]
                 /\ began'[c] = began[c]
                    => CallInv(c)'
  <1>1. \A v \in Contents : v # Nothing => v \in Versions
    BY DEF Contents, Versions, Nothing
  <1>2. now \in 0..MaxTime /\ until \in [Locators -> [Versions -> Nat]]
    BY DEF Inv
  <1>3. ASSUME NEW e \in GoodEntries, e.key \in Refs PROVE EntryRecent(e)'
    <2>1. /\ e.at \in Int /\ e.at <= now /\ e.items \in Contents /\ EntryRecent(e)
          /\ e.took \in Nat
      <3>1. e \in Entries /\ e.at <= now /\ EntryRecent(e)
        BY <1>3 DEF GoodEntries
      <3>2. e.at \in 0..MaxTime /\ e.items \in Contents /\ e.took \in 0..MaxTime
        BY <3>1 DEF Entries
      <3> QED BY <3>1, <3>2
    <2>2. ASSUME e.items # Nothing PROVE until'[Loc[e.key]][e.items] >= e.at - e.took
      <3>1. until[Loc[e.key]][e.items] >= e.at - e.took
        BY <1>3, <2>1, <2>2 DEF EntryRecent
      <3>2. PICK l \in Locators : l = Loc[e.key]
        BY <1>3
      <3>3. PICK v \in Versions : v = e.items
        BY <1>1, <2>1, <2>2
      <3>4. until'[l][v] = until[l][v] \/ until'[l][v] >= now
        OBVIOUS
      <3>5. until'[l][v] \in Nat
        OBVIOUS
      <3> QED BY <1>2, <2>1, <3>1, <3>2, <3>3, <3>4, <3>5
    <2> QED BY <1>3, <2>2 DEF EntryRecent
  <1>4. ASSUME NEW c \in Resolvers,
               pc'[c] = pc[c], ref'[c] = ref[c], got'[c] = got[c], life'[c] = life[c],
               began'[c] = began[c]
        PROVE  CallInv(c)'
    <2>1. CallInv(c) /\ got[c] \in Contents /\ began[c] \in 0..MaxTime
      BY DEF Inv, CallsInv
    <2>2. ASSUME pc[c] \in {"answer", "set"}, got[c] # Nothing
          PROVE  until'[Loc[ref[c]]][got[c]] >= began[c]
      <3>1. ref[c] \in Refs /\ until[Loc[ref[c]]][got[c]] >= began[c] /\ began[c] <= now
        BY <2>1, <2>2 DEF CallInv
      <3>2. PICK l \in Locators : l = Loc[ref[c]]
        BY <3>1
      <3>3. PICK v \in Versions : v = got[c]
        BY <1>1, <2>1, <2>2
      <3>4. until'[l][v] \in Nat /\ (until'[l][v] = until[l][v] \/ until'[l][v] >= now)
        OBVIOUS
      <3> QED BY <1>2, <2>1, <3>1, <3>2, <3>3, <3>4
    <2>3. now' = now /\ began'[c] <= now'
      BY <1>4, <2>1 DEF CallInv
    <2>4. pc'[c] \in {"answer", "set"} /\ got'[c] # Nothing
             => until'[Loc[ref'[c]]][got'[c]] >= began'[c]
      BY <1>4, <2>2
    <2> QED BY <1>4, <2>1, <2>3, <2>4 DEF CallInv
  <1> QED BY <1>3, <1>4

\* Nothing of the cache changes.
LEMMA SameCache ==
    ASSUME Inv, UNCHANGED <<cache, now, useRedis>>,
           \A e \in GoodEntries : EntryRecent(e)'
    PROVE  CacheInv'
  <1>1. GoodEntries \subseteq GoodEntries'
    BY DEF GoodEntries, Fresh
  <1> QED BY <1>1 DEF Inv, CacheInv

\* A call that the cache and the sources do not see, and that returns nothing.
LEMMA CallOK ==
    ASSUME Inv, UNCHANGED <<now, useRedis, notes, cache, current, until>>,
           ResultInv', CallsInv'
    PROVE  Inv'
  <1>1. \A e \in GoodEntries : EntryRecent(e)'
    BY DEF GoodEntries, EntryRecent
  <1>2. CacheInv'
    BY <1>1, SameCache
  <1>3. \A l \in Locators \ Tools : SourceInv(l)'
    BY DEF Inv, SourceInv
  <1> QED BY <1>2, <1>3 DEF Inv

LEMMA TickOK ==
    ASSUME Inv, Tick
    PROVE  Inv'
  <1>1. /\ now \in 0..MaxTime /\ now < MaxTime /\ now' = now + 1
        /\ cache' = Keep(cache, {e \in ToSet(cache) : Fresh(e, now + 1)})
        /\ UNCHANGED <<useRedis, notes, current, pc, ref, got, life, began, until>>
        /\ ReturnsNothing
    BY DEF Tick, callVars, Inv
  <1>2. CacheInv'
    <2>1. PICK Good : Good = {e \in ToSet(cache) : Fresh(e, now + 1)}
      OBVIOUS
    <2>2. PICK New : New = GoodEntries'
      OBVIOUS
    <2>3. New \subseteq Entries
      BY <2>2 DEF GoodEntries
    <2>4. cache \in Seq(GoodEntries) /\ \A i \in 1..Len(cache) : cache[i] \in GoodEntries
      BY DEF Inv, CacheInv
    <2>5. cache \in Seq(Entries)
      <3>1. GoodEntries \subseteq Entries
        BY DEF GoodEntries
      <3> QED BY <2>4, <3>1
    <2>6. ASSUME NEW e \in GoodEntries, Fresh(e, now + 1) PROVE e \in New
      <3>1. e \in Entries /\ e.at <= now
        BY DEF GoodEntries
      <3>2. e.at \in 0..MaxTime
        BY <3>1 DEF Entries
      <3>3. EntryRecent(e)'
        BY <1>1 DEF GoodEntries, EntryRecent
      <3> QED BY <1>1, <2>2, <2>6, <3>1, <3>2, <3>3 DEF GoodEntries
    <2>7. \A i \in 1..Len(cache) : cache[i] \in Good => cache[i] \in New
      BY <2>1, <2>4, <2>6
    <2>8. \A i, j \in 1..Len(cache) : cache[i].key = cache[j].key => i = j
      BY DEF Inv, CacheInv
    <2>9. PICK w : w = Keep(cache, Good)
      OBVIOUS
    <2>10. /\ w \in Seq(New) /\ Len(w) \in Nat /\ Len(w) <= Len(cache)
           /\ \A i, j \in 1..Len(w) : w[i].key = w[j].key => i = j
      BY <2>3, <2>5, <2>7, <2>8, <2>9, KeepEntries
    <2>11. ~useRedis => Len(w) <= MaxEntries
      BY <2>4, <2>10 DEF Inv, CacheInv
    <2> QED BY <1>1, <2>1, <2>2, <2>9, <2>10, <2>11 DEF CacheInv
  <1>3. CallsInv'
    <2>1. ASSUME NEW c \in Resolvers PROVE CallInv(c)'
      <3>1. CallInv(c) /\ began[c] \in 0..MaxTime
        BY DEF Inv, CallsInv
      <3>2. began[c] <= now'
        BY <1>1, <3>1 DEF CallInv
      <3> QED BY <1>1, <3>1, <3>2 DEF CallInv
    <2> QED BY <1>1, <2>1 DEF Inv, CallsInv
  <1>4. ResultInv'
    BY <1>1, NoReturnOK
  <1>5. ASSUME NEW l \in Locators \ Tools PROVE SourceInv(l)'
    BY <1>1 DEF Inv, SourceInv
  <1>6. now' \in 0..MaxTime
    BY <1>1
  <1> QED BY <1>1, <1>2, <1>3, <1>4, <1>5, <1>6 DEF Inv

LEMMA ChangeOK ==
    ASSUME Inv, NEW l \in Locators, Change(l)
    PROVE  Inv'
  <1>1. /\ l \notin Tools /\ current[l] < MaxVersions
        /\ current' = [current EXCEPT ![l] = @ + 1]
        /\ until' = [until EXCEPT ![l][current[l]] = now]
        /\ UNCHANGED <<now, useRedis, notes, cache, pc, ref, got, life, began>>
        /\ ReturnsNothing
    BY DEF Change, callVars
  <1>2. /\ now \in 0..MaxTime /\ until \in [Locators -> [Versions -> Nat]]
        /\ current \in [Locators -> Contents]
    BY DEF Inv
  <1>3. SourceInv(l) /\ current[l] \in Versions
    BY <1>1 DEF Inv, SourceInv
  <1>4. until' \in [Locators -> [Versions -> Nat]]
    BY <1>1, <1>2, <1>3
  <1>5. \A k \in Locators, v \in Versions :
           until'[k][v] = IF k = l /\ v = current[l] THEN now ELSE until[k][v]
    BY <1>1, <1>2, <1>3
  <1>6. \A k \in Locators, v \in Versions : until'[k][v] = until[k][v] \/ until'[k][v] >= now
    BY <1>2, <1>5
  <1>7. /\ \A e \in GoodEntries : e.key \in Refs => EntryRecent(e)'
        /\ \A c \in Resolvers : CallInv(c)'
    BY <1>1, <1>4, <1>6, UntilOK
  <1>8. ASSUME NEW e \in GoodEntries PROVE EntryRecent(e)'
    <2>1. CASE e.key \in Refs
      BY <1>7, <2>1
    <2>2. CASE e.key \notin Refs
      <3>1. e.key \in Tools /\ EntryRecent(e) /\ e.items \in Contents
        BY <2>2 DEF GoodEntries, Entries, Keys
      <3>2. until'[e.key] = until[e.key]
        BY <1>1, <1>2, <3>1
      <3> QED BY <2>2, <3>1, <3>2 DEF EntryRecent
    <2> QED BY <2>1, <2>2
  <1>9. CacheInv'
    BY <1>1, <1>8, SameCache
  <1>10. ASSUME NEW k \in Locators \ Tools PROVE SourceInv(k)'
    <2>1. SourceInv(k)
      BY DEF Inv
    <2>2. CASE k # l
      BY <1>1, <1>2, <2>1, <2>2 DEF SourceInv
    <2>3. CASE k = l
      <3>1. current'[l] = current[l] + 1 /\ current'[l] \in Versions
        BY <1>1, <1>2, <1>3 DEF Versions
      <3>2. \A v \in Versions : v >= current'[l] => until'[l][v] = Forever
        BY <1>3, <1>5, <3>1 DEF SourceInv, Versions
      <3> QED BY <2>3, <3>1, <3>2 DEF SourceInv
    <2> QED BY <2>2, <2>3
  <1>11. current' \in [Locators -> Contents]
    BY <1>1, <1>2, <1>3 DEF Contents, Versions
  <1>12. CallsInv'
    BY <1>1, <1>7 DEF Inv, CallsInv
  <1>13. ResultInv'
    BY <1>1, NoReturnOK
  <1> QED BY <1>1, <1>4, <1>9, <1>10, <1>11, <1>12, <1>13 DEF Inv

\* A call of resolve() begins.
LEMMA BeginsOK ==
    ASSUME Inv, NEW c \in Resolvers, NEW r \in Refs, NEW where \in {"get", "search"},
           where = "search" => Loc[r] \notin Tools,
           Begins(c, r, where), UNCHANGED <<now, useRedis, notes, current, until>>
    PROVE  Inv'
  <1>1. /\ pc' = [pc EXCEPT ![c] = where] /\ ref' = [ref EXCEPT ![c] = r]
        /\ began' = [began EXCEPT ![c] = now] /\ ReturnsNothing
        /\ UNCHANGED <<cache, got, life>>
    BY DEF Begins, Waits
  <1>2. now \in 0..MaxTime /\ CallsInv
    BY DEF Inv
  <1>3. ASSUME NEW d \in Resolvers PROVE CallInv(d)'
    <2>1. CallInv(d)
      BY <1>2 DEF CallsInv
    <2>2. CASE d = c
      BY <1>1, <1>2, <2>2 DEF CallsInv, CallInv
    <2>3. CASE d # c
      BY <1>1, <1>2, <2>1, <2>3 DEF CallsInv, CallInv
    <2> QED BY <2>2, <2>3
  <1>4. CallsInv'
    BY <1>1, <1>2, <1>3 DEF CallsInv, Calls, Keys
  <1> QED BY <1>1, <1>4, NoReturnOK, CallOK

LEMMA BeginResolveOK ==
    ASSUME Inv, NEW c \in Resolvers, NEW r \in Refs, BeginResolve(c, r)
    PROVE  Inv'
  BY BeginsOK DEF BeginResolve

\* A read of the cache that found nothing goes on to the source of the reference.
LEMMA GetMissesOK ==
    ASSUME Inv, NEW c \in Resolvers, GetMisses(c)
    PROVE  Inv'
  <1>1. /\ pc[c] = "get"
        /\ pc' = [pc EXCEPT ![c] = IF Loc[ref[c]] \in Tools THEN "tool" ELSE "search"]
        /\ ReturnsNothing
        /\ UNCHANGED <<now, useRedis, notes, cache, current, ref, got, life, began, until>>
    BY DEF GetMisses, Dispatch, Waits
  <1>2. ASSUME NEW d \in Resolvers PROVE CallInv(d)'
    <2>1. CallInv(d)
      BY DEF Inv, CallsInv
    <2>2. CASE d = c
      BY <1>1, <2>1, <2>2 DEF Inv, CallsInv, CallInv
    <2>3. CASE d # c
      BY <1>1, <2>1, <2>3 DEF Inv, CallsInv, CallInv
    <2> QED BY <2>2, <2>3
  <1>3. CallsInv'
    BY <1>1, <1>2 DEF Inv, CallsInv, Calls
  <1> QED BY <1>1, <1>3, NoReturnOK, CallOK

LEMMA GetHitsOK ==
    ASSUME Inv, NEW c \in Resolvers, GetHits(c)
    PROVE  Inv'
  <1>1. /\ pc[c] = "get" /\ Has(ref[c]) /\ Ends(c)
        /\ ReturnsItems(ref[c], Cached(ref[c]), began[c], Hit(ref[c]).took)
        /\ UNCHANGED <<now, useRedis, notes, cache, current, until>>
    BY DEF GetHits
  <1>2. PICK r \in Refs : r = ref[c]
    BY <1>1 DEF Inv, CallsInv, CallInv
  <1>3. PICK items, took : items = Cached(r) /\ took = Hit(r).took
    OBVIOUS
  <1>4. /\ items \in Contents /\ took \in 0..MaxTime
        /\ items # Nothing => until[Loc[r]][items] > now - JitTtl - took
    BY <1>1, <1>2, <1>3, CachedResolution
  <1>5. PICK start \in 0..MaxTime : start = began[c] /\ start <= now
    BY DEF Inv, CallsInv, CallInv
  <1>6. ASSUME items # Nothing PROVE until[Loc[r]][items] > start - JitTtl - took
    <2>1. until[Loc[r]][items] \in Nat
      BY <1>4, <1>6 DEF Inv, Contents, Versions, Nothing
    <2> QED BY <1>4, <1>5, <1>6, <2>1 DEF Inv
  <1>7. ReturnsItems(r, items, start, took)
    BY <1>1, <1>2, <1>3, <1>5
  <1>8. ResultInv'
    BY <1>1, <1>4, <1>6, <1>7, ReturnOK
  <1>9. CallsInv'
    BY <1>1, QuietEndOK
  <1> QED BY <1>1, <1>8, <1>9, CallOK

\* resolve() writes what it found since it began and returns it; the rest is kept.
LEMMA ResolvedOK ==
    ASSUME Inv, NEW r \in Refs, NEW items \in Contents, NEW start \in 0..MaxTime, start <= now,
           items # Nothing => until[Loc[r]][items] >= start,
           cache' = With(r, items, JitTtl, now - start) \/ cache' = cache,
           ReturnsItems(r, items, start, 0),
           UNCHANGED <<now, useRedis, current, until>>
    PROVE  CacheInv' /\ ResultInv' /\ \A l \in Locators \ Tools : SourceInv(l)'
  <1>1. r \in Keys /\ r \notin Locators
    BY DEF Keys
  <1>2. \A e \in GoodEntries : EntryRecent(e)'
    BY DEF GoodEntries, EntryRecent
  <1>3. PICK took \in 0..MaxTime : took = now - start /\ start = now - took
    BY DEF Inv
  <1>4. CacheInv'
    <2>1. CASE cache' = With(r, items, JitTtl, now - start)
      <3>1. items # Nothing => until'[Loc[r]][items] >= now - took
        BY <1>3
      <3>2. cache' = With(r, items, JitTtl, took)
        BY <1>3, <2>1
      <3> QED BY <1>1, <1>2, <3>1, <3>2, WriteOK
    <2>2. CASE cache' = cache
      BY <1>2, <2>2, SameCache
    <2> QED BY <2>1, <2>2
  <1>5. ASSUME items # Nothing PROVE until'[Loc[r]][items] > start - JitTtl - 0
    <2>1. PICK u : u = until[Loc[r]][items]
      OBVIOUS
    <2>2. u \in Nat /\ u >= start
      BY <1>5, <2>1 DEF Inv, Contents, Versions, Nothing
    <2> QED BY <2>1, <2>2 DEF Inv
  <1>6. ResultInv'
    <2>1. 0 \in 0..MaxTime
      BY DEF Inv
    <2> QED BY <1>5, <2>1, ReturnOK
  <1>7. \A l \in Locators \ Tools : SourceInv(l)'
    BY DEF Inv, SourceInv
  <1> QED BY <1>4, <1>6, <1>7

\* What was found is returned or, with Redis, written first.
LEMMA FoundOK ==
    ASSUME Inv, NEW c \in Resolvers, pc[c] \in {"search", "answer"}, NEW items \in Contents,
           items # Nothing => until[Loc[ref[c]]][items] >= began[c],
           Found(c, items), UNCHANGED <<now, useRedis, notes, current, until>>
    PROVE  Inv'
  <1>1. PICK r \in Refs : r = ref[c]
    BY DEF Inv, CallsInv, CallInv
  <1>2. CASE useRedis
    <2>1. /\ got' = [got EXCEPT ![c] = items] /\ pc' = [pc EXCEPT ![c] = "set"]
          /\ UNCHANGED <<cache, ref, life, began>> /\ ReturnsNothing
      BY <1>2 DEF Found, Waits
    <2>2. ASSUME NEW d \in Resolvers PROVE CallInv(d)'
      <3>1. CallInv(d)
        BY DEF Inv, CallsInv
      <3>2. CASE d = c
        BY <1>1, <2>1, <3>1, <3>2 DEF Inv, CallsInv, CallInv
      <3>3. CASE d # c
        BY <2>1, <3>1, <3>3 DEF Inv, CallsInv, CallInv
      <3> QED BY <3>2, <3>3
    <2>3. CallsInv'
      BY <2>1, <2>2 DEF Inv, CallsInv, Calls
    <2> QED BY <2>1, <2>3, NoReturnOK, CallOK
  <1>3. CASE ~useRedis
    <2>1. PICK start \in 0..MaxTime : start = began[c] /\ start <= now
      BY DEF Inv, CallsInv, CallInv
    <2>2. /\ cache' = With(r, items, JitTtl, now - start) /\ ReturnsItems(r, items, start, 0)
          /\ Ends(c)
      BY <1>1, <1>3, <2>1 DEF Found
    <2>3. items # Nothing => until[Loc[r]][items] >= start
      BY <1>1, <2>1
    <2>4. CacheInv' /\ ResultInv' /\ \A l \in Locators \ Tools : SourceInv(l)'
      BY <2>1, <2>2, <2>3, ResolvedOK
    <2>5. CallsInv'
      BY <2>2, QuietEndOK
    <2> QED BY <2>4, <2>5 DEF Inv
  <1> QED BY <1>2, <1>3

\* A read finds what is current now, hence since the call began.
LEMMA ReadsOK ==
    ASSUME Inv, NEW c \in Resolvers, pc[c] \in {"search", "tool"}, NEW items \in Contents,
           items # Nothing => until[Loc[ref[c]]][items] >= now,
           Reads(c, items)
    PROVE  Inv'
  <1>1. /\ got' = [got EXCEPT ![c] = items] /\ pc' = [pc EXCEPT ![c] = "answer"]
        /\ ReturnsNothing
        /\ UNCHANGED <<now, useRedis, notes, cache, current, ref, life, began, until>>
    BY DEF Reads, Waits
  <1>2. PICK r \in Refs : r = ref[c]
    BY DEF Inv, CallsInv, CallInv
  <1>3. ASSUME items # Nothing PROVE until[Loc[r]][items] >= began[c]
    <2>1. until[Loc[r]][items] \in Nat
      BY <1>3 DEF Inv, Contents, Versions, Nothing
    <2>2. began[c] \in 0..MaxTime /\ began[c] <= now /\ now \in 0..MaxTime
      BY DEF Inv, CallsInv, CallInv
    <2> QED BY <1>2, <1>3, <2>1, <2>2
  <1>4. ASSUME NEW d \in Resolvers PROVE CallInv(d)'
    <2>1. CallInv(d)
      BY DEF Inv, CallsInv
    <2>2. CASE d = c
      BY <1>1, <1>2, <1>3, <2>1, <2>2 DEF Inv, CallsInv, CallInv
    <2>3. CASE d # c
      BY <1>1, <2>1, <2>3 DEF Inv, CallsInv, CallInv
    <2> QED BY <2>2, <2>3
  <1>5. CallsInv'
    BY <1>1, <1>4 DEF Inv, CallsInv, Calls
  <1> QED BY <1>1, <1>5, NoReturnOK, CallOK

\* A search reads what is current, which lives for ever.
LEMMA SearchReadsOK ==
    ASSUME Inv, NEW c \in Resolvers, SearchReads(c)
    PROVE  Inv'
  <1>1. pc[c] = "search" /\ Reads(c, current[Loc[ref[c]]])
    BY DEF SearchReads
  <1>2. PICK l \in Locators \ Tools : l = Loc[ref[c]]
    BY <1>1 DEF Inv, CallsInv, CallInv
  <1>3. PICK items : items = current[l]
    OBVIOUS
  <1>4. items \in Versions /\ until[l][items] = Forever
    BY <1>3 DEF Inv, SourceInv, Versions
  <1>5. items \in Contents /\ until[l][items] >= now
    BY <1>4 DEF Inv, Forever, Contents, Versions
  <1> QED BY <1>1, <1>2, <1>3, <1>5, ReadsOK

LEMMA SearchRaisesOK ==
    ASSUME Inv, NEW c \in Resolvers, SearchRaises(c)
    PROVE  Inv'
  <1>1. pc[c] = "search" /\ UNCHANGED <<now, useRedis, notes, current, until>>
    BY DEF SearchRaises
  <1>2. CASE Found(c, Nothing)
    <2>1. Nothing \in Contents
      BY DEF Nothing, Contents
    <2> QED BY <1>1, <1>2, <2>1, FoundOK
  <1>3. CASE Ends(c) /\ ReturnsNothing /\ UNCHANGED cache
    BY <1>1, <1>3, QuietEndOK, NoReturnOK, CallOK
  <1> QED BY <1>2, <1>3 DEF SearchRaises

\* A tool result that Redis finds lives now.
LEMMA ToolOK ==
    ASSUME Inv, NEW c \in Resolvers, ToolReads(c)
    PROVE  Inv'
  <1>1. pc[c] = "tool"
    BY DEF ToolReads
  <1>2. PICK l \in Tools : l = Loc[ref[c]]
    BY <1>1 DEF Inv, CallsInv, CallInv
  <1>3. CASE Reads(c, Cached(Loc[ref[c]]))
    <2>1. PICK items : items = Cached(l)
      OBVIOUS
    <2>2. items \in Contents /\ (items # Nothing => until[l][items] >= now)
      BY <2>1, CachedToolResult
    <2> QED BY <1>1, <1>2, <1>3, <2>1, <2>2, ReadsOK
  <1>4. CASE Reads(c, Nothing)
    <2>1. Nothing \in Contents
      BY DEF Nothing, Contents
    <2> QED BY <1>1, <1>4, <2>1, ReadsOK
  <1> QED BY <1>3, <1>4 DEF ToolReads

LEMMA AnswerOK ==
    ASSUME Inv, NEW c \in Resolvers, AnswerReturns(c)
    PROVE  Inv'
  <1>1. /\ pc[c] = "answer" /\ Found(c, got[c])
        /\ UNCHANGED <<now, useRedis, notes, current, until>>
    BY DEF AnswerReturns
  <1>2. PICK items \in Contents : items = got[c]
    BY DEF Inv, CallsInv
  <1>3. items # Nothing => until[Loc[ref[c]]][items] >= began[c]
    BY <1>1, <1>2 DEF Inv, CallsInv, CallInv
  <1> QED BY <1>1, <1>2, <1>3, FoundOK

LEMMA SetOK ==
    ASSUME Inv, NEW c \in Resolvers, SetEnds(c)
    PROVE  Inv'
  <1>1. /\ pc[c] = "set" /\ cache' \in {cache, With(ref[c], got[c], JitTtl, now - began[c])}
        /\ ReturnsItems(ref[c], got[c], began[c], 0) /\ Ends(c)
        /\ UNCHANGED <<now, useRedis, notes, current, until>>
    BY DEF SetEnds
  <1>2. PICK r \in Refs : r = ref[c]
    BY <1>1 DEF Inv, CallsInv, CallInv
  <1>3. PICK items \in Contents : items = got[c]
    BY DEF Inv, CallsInv
  <1>4. PICK start \in 0..MaxTime : start = began[c] /\ start <= now
    BY DEF Inv, CallsInv, CallInv
  <1>5. items # Nothing => until[Loc[r]][items] >= start
    BY <1>1, <1>2, <1>3, <1>4 DEF Inv, CallsInv, CallInv
  <1>6. cache' = With(r, items, JitTtl, now - start) \/ cache' = cache
    BY <1>1, <1>2, <1>3, <1>4
  <1>7. ReturnsItems(r, items, start, 0)
    BY <1>1, <1>2, <1>3, <1>4
  <1>8. CacheInv' /\ ResultInv' /\ \A l \in Locators \ Tools : SourceInv(l)'
    BY <1>1, <1>4, <1>5, <1>6, <1>7, ResolvedOK
  <1>9. CallsInv'
    BY <1>1, QuietEndOK
  <1> QED BY <1>1, <1>8, <1>9 DEF Inv

\* Without Redis a resolution of the cache or of a tool result is one step.
LEMMA ResolveLocallyOK ==
    ASSUME Inv, NEW c \in Resolvers, NEW r \in Refs, ResolveLocally(c, r)
    PROVE  Inv'
  <1>1. UNCHANGED <<now, useRedis, notes, current, until>> /\ now \in 0..MaxTime
    BY DEF ResolveLocally, Inv
  <1>2. ASSUME UNCHANGED callVars PROVE CallsInv'
    BY <1>1, <1>2 DEF callVars, Inv, CallsInv, CallInv
  <1>3. CASE Has(r) /\ ReturnsItems(r, Cached(r), now, Hit(r).took) /\ UNCHANGED <<cache, callVars>>
    <2>1. PICK items, took : items = Cached(r) /\ took = Hit(r).took
      OBVIOUS
    <2>2. /\ items \in Contents /\ took \in 0..MaxTime
          /\ items # Nothing => until[Loc[r]][items] > now - JitTtl - took
      BY <1>3, <2>1, CachedResolution
    <2>3. ReturnsItems(r, items, now, took)
      BY <1>3, <2>1
    <2>4. ResultInv'
      BY <1>1, <2>2, <2>3, ReturnOK
    <2>5. CallsInv'
      BY <1>2, <1>3
    <2> QED BY <1>1, <1>3, <2>4, <2>5, CallOK
  <1>4. CASE /\ Loc[r] \in Tools
             /\ ReturnsItems(r, Cached(Loc[r]), now, 0)
             /\ cache' = With(r, Cached(Loc[r]), JitTtl, 0)
             /\ UNCHANGED callVars
    <2>1. PICK items : items = Cached(Loc[r])
      OBVIOUS
    <2>2. items \in Contents /\ (items # Nothing => until[Loc[r]][items] >= now)
      BY <1>4, <2>1, CachedToolResult
    <2>3. now - now = 0 /\ now <= now
      BY <1>1
    <2>4. cache' = With(r, items, JitTtl, now - now) /\ ReturnsItems(r, items, now, 0)
      BY <1>4, <2>1, <2>3
    <2>5. CacheInv' /\ ResultInv' /\ \A l \in Locators \ Tools : SourceInv(l)'
      BY <1>1, <2>2, <2>3, <2>4, ResolvedOK
    <2>6. CallsInv'
      BY <1>2, <1>4
    <2> QED BY <1>1, <2>5, <2>6 DEF Inv
  <1>5. CASE Loc[r] \notin Tools /\ Begins(c, r, "search")
    BY <1>1, <1>5, BeginsOK
  <1> QED BY <1>3, <1>4, <1>5 DEF ResolveLocally

-----------------------------------------------------------------------------
(* store_tool_result()                                                     *)

\* A tool result that replaces another one lives from now on, the other one no
\* longer.
LEMMA ReplacesOK ==
    ASSUME Inv, NEW l \in Tools, NEW v \in Versions, NEW ttl \in ToolTtls,
           Replaces(l, v, ttl), UNCHANGED <<now, useRedis>>
    PROVE  /\ CacheInv'
           /\ until' \in [Locators -> [Versions -> Nat]]
           /\ \A k \in Locators, w \in Versions : until'[k][w] = until[k][w] \/ until'[k][w] >= now
           /\ \A k \in Locators : k # l => until'[k] = until[k]
  <1>1. /\ cache' = With(l, v, ttl, 0)
        /\ until' = [until EXCEPT ![l] = [w \in Versions |->
                        IF w = v THEN now + ttl
                        ELSE IF w = Cached(l) THEN now ELSE until[l][w]]]
    BY DEF Replaces
  <1>2. /\ now \in Nat /\ until \in [Locators -> [Versions -> Nat]]
        /\ ttl \in Nat /\ l \in Locators /\ l \notin Refs /\ v \in Contents /\ v # Nothing
    BY DEF Inv, Versions, Contents, Nothing
  <1>3. /\ \A k \in Locators : k # l => until'[k] = until[k]
        /\ \A w \in Versions : until'[l][w] = IF w = v THEN now + ttl
                                              ELSE IF w = Cached(l) THEN now ELSE until[l][w]
        /\ DOMAIN until' = Locators /\ until'[l] = [w \in Versions |-> until'[l][w]]
    BY <1>1, <1>2
  <1>4. \A w \in Versions : until'[l][w] \in Nat /\ (until'[l][w] = until[l][w] \/ until'[l][w] >= now)
    BY <1>2, <1>3
  <1>5. until' \in [Locators -> [Versions -> Nat]]
    <2>1. \A w \in Versions : (IF w = v THEN now + ttl
                               ELSE IF w = Cached(l) THEN now ELSE until[l][w]) \in Nat
      BY <1>2
    <2> QED BY <1>1, <1>2, <2>1
  <1>6. \A k \in Locators, w \in Versions : until'[k][w] = until[k][w] \/ until'[k][w] >= now
    BY <1>3, <1>4
  <1>7. ASSUME NEW e \in GoodEntries, e.key # l PROVE EntryRecent(e)'
    <2>1. CASE e.key \in Refs
      BY <1>5, <1>6, <1>7, <2>1, UntilOK
    <2>2. CASE e.key \notin Refs
      <3>1. e.key \in Locators /\ EntryRecent(e)
        BY <1>7, <2>2 DEF GoodEntries, Entries, Keys
      <3> QED BY <1>3, <1>7, <2>2, <3>1 DEF EntryRecent
    <2> QED BY <2>1, <2>2
  <1>8. l \in Keys /\ ttl \in ToolTtls \cup {JitTtl} /\ 0 \in 0..MaxTime
    BY <1>2 DEF Keys
  <1>9. until'[l][v] >= now + ttl
    BY <1>2, <1>3
  <1>10. CacheInv'
    BY <1>1, <1>2, <1>7, <1>8, <1>9, WriteOK
  <1> QED BY <1>3, <1>5, <1>6, <1>10

LEMMA StoreLocallyOK ==
    ASSUME Inv, NEW c \in Resolvers, NEW l \in Locators, NEW ttl \in ToolTtls, StoreLocally(c, l, ttl)
    PROVE  Inv'
  <1>1. /\ l \in Tools /\ current[l] < MaxVersions /\ current' = [current EXCEPT ![l] = @ + 1]
        /\ Replaces(l, current[l] + 1, ttl)
        /\ UNCHANGED <<now, useRedis, notes, pc, ref, got, life, began>>
        /\ ReturnsNothing
    BY DEF StoreLocally, NewVersion, callVars
  <1>2. PICK v \in Versions : v = current[l] + 1
    BY <1>1 DEF Inv, Contents, Versions
  <1>3. Replaces(l, v, ttl)
    BY <1>1, <1>2
  <1>4. /\ CacheInv'
        /\ until' \in [Locators -> [Versions -> Nat]]
        /\ \A k \in Locators, w \in Versions : until'[k][w] = until[k][w] \/ until'[k][w] >= now
        /\ \A k \in Locators : k # l => until'[k] = until[k]
    BY <1>1, <1>3, ReplacesOK
  <1>5. CallsInv' /\ ResultInv'
    <2>1. \A d \in Resolvers : CallInv(d)'
      BY <1>1, <1>4, UntilOK
    <2> QED BY <1>1, <2>1, NoReturnOK DEF Inv, CallsInv
  <1>6. ASSUME NEW k \in Locators \ Tools PROVE SourceInv(k)'
    BY <1>1, <1>4 DEF Inv, SourceInv
  <1>7. current' \in [Locators -> Contents]
    BY <1>1, <1>2 DEF Inv, Contents, Versions
  <1> QED BY <1>1, <1>4, <1>5, <1>6, <1>7 DEF Inv

LEMMA BeginStoreOK ==
    ASSUME Inv, NEW c \in Resolvers, NEW l \in Locators, NEW ttl \in ToolTtls, BeginStore(c, l, ttl)
    PROVE  Inv'
  <1>1. /\ l \in Tools /\ current[l] < MaxVersions /\ current' = [current EXCEPT ![l] = @ + 1]
        /\ ref' = [ref EXCEPT ![c] = l] /\ got' = [got EXCEPT ![c] = current[l] + 1]
        /\ life' = [life EXCEPT ![c] = ttl] /\ pc' = [pc EXCEPT ![c] = "store"]
        /\ UNCHANGED <<now, useRedis, notes, cache, began, until>>
        /\ ReturnsNothing
    BY DEF BeginStore, NewVersion, Waits
  <1>2. PICK v \in Versions : v = current[l] + 1
    BY <1>1 DEF Inv, Contents, Versions
  <1>3. v \in Contents
    BY DEF Contents, Versions
  <1>4. ASSUME NEW d \in Resolvers PROVE CallInv(d)'
    <2>1. CallInv(d)
      BY DEF Inv, CallsInv
    <2>2. CASE d = c
      BY <1>1, <1>2, <2>1, <2>2 DEF Inv, CallsInv, CallInv
    <2>3. CASE d # c
      BY <1>1, <2>1, <2>3 DEF Inv, CallsInv, CallInv
    <2> QED BY <2>2, <2>3
  <1>5. CallsInv'
    BY <1>1, <1>2, <1>3, <1>4 DEF Inv, CallsInv, Calls, Keys
  <1>6. current' \in [Locators -> Contents]
    BY <1>1, <1>2, <1>3 DEF Inv
  <1>7. ASSUME NEW k \in Locators \ Tools PROVE SourceInv(k)'
    BY <1>1 DEF Inv, SourceInv
  <1>8. CacheInv'
    BY <1>1, SameCache DEF GoodEntries, EntryRecent
  <1>9. ResultInv'
    BY <1>1, NoReturnOK
  <1> QED BY <1>1, <1>5, <1>6, <1>7, <1>8, <1>9 DEF Inv

LEMMA StoreEndsOK ==
    ASSUME Inv, NEW c \in Resolvers, StoreEnds(c)
    PROVE  Inv'
  <1>1. /\ pc[c] = "store" /\ Ends(c)
        /\ UNCHANGED <<now, useRedis, notes, current>>
        /\ ReturnsNothing
    BY DEF StoreEnds
  <1>2. /\ CacheInv'
        /\ until' \in [Locators -> [Versions -> Nat]]
        /\ \A k \in Locators, w \in Versions : until'[k][w] = until[k][w] \/ until'[k][w] >= now
        /\ \A k \in Locators \ Tools : until'[k] = until[k]
    <2>1. CASE Replaces(ref[c], got[c], life[c])
      <3>1. PICK l \in Tools : l = ref[c]
        BY <1>1 DEF Inv, CallsInv, CallInv
      <3>2. PICK v \in Versions : v = got[c]
        BY <1>1 DEF Inv, CallsInv, CallInv
      <3>3. PICK ttl \in ToolTtls : ttl = life[c]
        BY <1>1 DEF Inv, CallsInv, CallInv
      <3>4. Replaces(l, v, ttl)
        BY <2>1, <3>1, <3>2, <3>3
      <3> QED BY <1>1, <3>4, ReplacesOK
    <2>2. CASE UNCHANGED <<cache, until>>
      <3>1. CacheInv'
        BY <1>1, <2>2, SameCache DEF GoodEntries, EntryRecent
      <3> QED BY <2>2, <3>1 DEF Inv
    <2> QED BY <2>1, <2>2 DEF StoreEnds
  <1>3. pc' = [pc EXCEPT ![c] = "idle"] /\ ref' = [ref EXCEPT ![c] = NoResult]
        /\ got' = [got EXCEPT ![c] = Nothing] /\ life' = [life EXCEPT ![c] = JitTtl]
        /\ began' = [began EXCEPT ![c] = 0]
    BY <1>1 DEF Ends, Waits
  <1>4. ASSUME NEW d \in Resolvers, d # c PROVE CallInv(d)'
    <2>1. /\ pc'[d] = pc[d] /\ ref'[d] = ref[d] /\ got'[d] = got[d] /\ life'[d] = life[d]
          /\ began'[d] = began[d]
      BY <1>3, <1>4 DEF Inv, CallsInv
    <2> QED BY <1>1, <1>2, <2>1, UntilOK
  <1>5. CallsInv'
    BY <1>1, <1>4, EndOK
  <1>6. ResultInv'
    BY <1>1, NoReturnOK
  <1>7. ASSUME NEW l \in Locators \ Tools PROVE SourceInv(l)'
    BY <1>1, <1>2 DEF Inv, SourceInv
  <1> QED BY <1>1, <1>2, <1>5, <1>6, <1>7 DEF Inv

-----------------------------------------------------------------------------
(* The theorems.                                                           *)

\* Every reachable state satisfies Inv.
THEOREM ResolverHolds == Spec => []Inv
  <1>1. Init => Inv
    <2> SUFFICES ASSUME Init PROVE Inv
      OBVIOUS
    <2>1. CacheInv
      <3>1. cache = <<>> /\ Len(cache) = 0
        BY DEF Init
      <3>2. cache \in Seq(GoodEntries)
        BY <3>1
      <3> QED BY <3>1, <3>2 DEF CacheInv
    <2>2. current \in [Locators -> Contents] /\ \A l \in Locators \ Tools : current[l] = 1
      BY DEF Init, Contents, Nothing
    <2>3. until \in [Locators -> [Versions -> Nat]] /\ \A l \in Locators, v \in Versions : until[l][v] = Forever
      BY DEF Init, Forever
    <2>4. \A l \in Locators \ Tools : SourceInv(l)
      BY <2>2, <2>3 DEF SourceInv, Versions
    <2>5. CallsInv
      BY DEF Init, CallsInv, CallInv, Calls, Contents, Nothing
    <2>6. now \in 0..MaxTime /\ Nothing \in Contents
      BY DEF Init, Nothing, Contents
    <2> QED BY <2>1, <2>2, <2>3, <2>4, <2>5, <2>6 DEF Init, Inv, ResultInv
  <1>2. ASSUME Inv, [Next]_vars PROVE Inv'
    <2>1. CASE Tick
      BY <1>2, <2>1, TickOK
    <2>2. CASE \E l \in Locators : Change(l)
      BY <1>2, <2>2, ChangeOK
    <2>3. ASSUME NEW c \in Resolvers, NEW r \in Refs, BeginResolve(c, r) \/ ResolveLocally(c, r)
          PROVE  Inv'
      BY <1>2, <2>3, BeginResolveOK, ResolveLocallyOK
    <2>4. ASSUME NEW c \in Resolvers, NEW l \in Locators, NEW ttl \in ToolTtls,
                 StoreLocally(c, l, ttl) \/ BeginStore(c, l, ttl)
          PROVE  Inv'
      BY <1>2, <2>4, StoreLocallyOK, BeginStoreOK
    <2>5. ASSUME NEW c \in Resolvers,
                 \/ GetHits(c) \/ GetMisses(c)
                 \/ SearchReads(c) \/ SearchRaises(c) \/ ToolReads(c) \/ AnswerReturns(c)
                 \/ SetEnds(c)
                 \/ StoreEnds(c)
          PROVE  Inv'
      BY <1>2, <2>5, GetHitsOK, GetMissesOK, SearchReadsOK, SearchRaisesOK, ToolOK,
         AnswerOK, SetOK, StoreEndsOK
    <2>6. CASE UNCHANGED vars
      <3>1. UNCHANGED <<now, useRedis, notes, cache, current, until, result,
                        pc, ref, got, life, began>>
        BY <2>6 DEF vars, callVars
      <3>2. CallsInv' /\ ResultInv'
        BY <1>2, <3>1 DEF Inv, CallsInv, CallInv, ResultInv
      <3> QED BY <1>2, <3>1, <3>2, CallOK
    <2> QED BY <1>2, <2>1, <2>2, <2>3, <2>4, <2>5, <2>6 DEF Next
  <1> QED BY <1>1, <1>2, PTL DEF Spec

\* The shape of the state: a key has one entry, and without Redis the dict of the
\* process never holds more entries than jit_cache_local_max_entries.
THEOREM TypeOKHolds == Spec => []TypeOK
  <1>1. ASSUME Inv PROVE TypeOK
    <2>1. cache \in Seq(GoodEntries)
      BY <1>1 DEF Inv, CacheInv
    <2>2. ToSet(cache) \subseteq Entries
      BY <2>1 DEF ToSet, GoodEntries
    <2>3. result \in Results \cup {NoResult}
      BY <1>1 DEF Inv, ResultInv
    <2>4. \A l \in Locators, v \in Versions : until[l][v] \in Nat
      BY <1>1 DEF Inv
    <2> QED BY <1>1, <2>2, <2>3, <2>4 DEF Inv, CallsInv, CacheInv, TypeOK
  <1> QED BY <1>1, ResolverHolds, PTL

\* What resolve() returns was still current when the call began or, from the cache,
\* less than its time to live and the time its search took before that, however the
\* reads, answers and writes of other calls and the changes of the sources overlap.
THEOREM ServedIsRecentHolds == Spec => []ServedIsRecent
  <1>1. Inv => ServedIsRecent
    BY DEF Inv, ResultInv, ServedIsRecent
  <1> QED BY <1>1, ResolverHolds, PTL
=============================================================================
