-------------------------- MODULE Retrieval_proofs --------------------------
(***************************************************************************)
(* What the tiered search, the fusion and the choice of tools promise, for *)
(* every timeout, budget and content.                                      *)
(*                                                                         *)
(* AnswersWithinBudget is not inductive: what a tier may still take        *)
(* depends on what the tiers before it took.  BudgetInv is the account of  *)
(* the budget, one line for each part of the search.                       *)
(***************************************************************************)
EXTENDS Retrieval, SequenceFilters_proofs, TLAPS

Stages == {"idle", "hot", "warm", "scope", "cold", "answered", "raised"}

\* The fields of the search and of the hot entry that the account is about.
Shapes ==
    /\ tiers \in [redis : BOOLEAN, external : BOOLEAN]
    /\ DOMAIN search = DOMAIN NoSearch
    /\ search.stage \in Stages /\ search.topK \in Nat /\ search.budget \in Nat
    /\ search.left \in Int /\ search.waited \in Nat /\ search.spent \in Nat

\* The hot tier is asked with the whole budget; a later one with what is left of it;
\* when the search is over, nothing can be spent any more.
BudgetInv ==
    /\ search.stage = "idle" => search.spent = 0
    /\ search.stage = "hot" =>
         search.left = search.budget /\ search.spent = search.waited /\ search.waited <= HotTimeout
    /\ search.stage \in {"warm", "scope", "cold"} =>
         search.spent = search.budget - search.left + search.waited /\ search.waited <= search.left
    /\ search.stage \in {"answered", "raised"} =>
         search.spent <= HotTimeout \/ search.spent <= search.budget

AccountInv == Shapes /\ BudgetInv

\* A tier that ends is charged for the time it took.
LEMMA TierEndsInv ==
    ASSUME AccountInv, NEW items, TierEnds(items), UNCHANGED tiers,
           search.stage \in {"hot", "warm", "scope", "cold"}
    PROVE  AccountInv'
  <1> DEFINE left == search.left - search.waited
             full == Len(search.results \o items) >= search.topK
             next == IF full \/ left <= 0 THEN "answered" ELSE After(search.stage)
  <1>1. /\ DOMAIN search' = DOMAIN search
        /\ search'.topK = search.topK /\ search'.budget = search.budget
        /\ search'.spent = search.spent /\ search'.left = left /\ search'.waited = 0
        /\ search'.stage = next
    BY DEF AccountInv, Shapes, NoSearch, TierEnds
  <1>2. After(search.stage) \in {"warm", "cold", "answered"}
    BY DEF After
  <1>3. left \in Int /\ (search'.stage \in {"warm", "cold"} => left > 0)
    BY <1>1 DEF AccountInv, Shapes
  <1>4. search.stage = "hot" => left = search.budget - search.spent
    BY DEF AccountInv, Shapes, BudgetInv
  <1>5. search.stage \in {"warm", "scope", "cold"} => left = search.budget - search.spent /\ left >= 0
    BY DEF AccountInv, Shapes, BudgetInv
  <1>6. search'.stage \in {"warm", "cold", "answered"}
    BY <1>1, <1>2
  <1>7. Shapes'
    BY <1>1, <1>3, <1>6 DEF AccountInv, Shapes, NoSearch, Stages
  <1>8. search.spent <= HotTimeout \/ search.spent <= search.budget
    BY <1>5, TieredAssumption DEF AccountInv, Shapes, BudgetInv
  <1>9. BudgetInv'
    BY <1>1, <1>3, <1>4, <1>5, <1>6, <1>8 DEF AccountInv, Shapes, BudgetInv
  <1> QED
    BY <1>7, <1>9 DEF AccountInv

\* No wait is longer than what is left.
LEMMA PatienceBound ==
    ASSUME AccountInv
    PROVE  /\ search.stage = "hot" => Patience \in Int /\ Patience <= HotTimeout
           /\ search.stage \in {"warm", "scope", "cold"} => Patience \in Int /\ Patience <= search.left
  <1> USE TieredAssumption
  <1>1. CASE search.stage = "hot"
    BY <1>1 DEF Patience, AccountInv, Shapes
  <1>2. CASE search.stage \in {"warm", "scope"}
    <2>1. Patience = Min({search.left, WarmTimeout})
      BY <1>2 DEF Patience
    <2> QED
      BY <1>2, <2>1, MinOfTwo DEF AccountInv, Shapes
  <1>3. CASE search.stage = "cold"
    <2>1. Patience = Min({search.left, ColdTimeout})
      BY <1>3 DEF Patience
    <2> QED
      BY <1>3, <2>1, MinOfTwo DEF AccountInv, Shapes
  <1> QED
    BY <1>1, <1>2, <1>3

\* A search begins with its budget.
LEMMA BeginInv == AccountInv /\ BeginSearch => AccountInv'
  <1> SUFFICES ASSUME AccountInv, BeginSearch PROVE AccountInv'
    OBVIOUS
  <1>1. PICK s \in Searches :
          search' = [NoSearch EXCEPT !.topK = s.topK, !.budget = s.budget, !.left = s.budget,
              !.stage = IF s.types = {} \/ s.types \cap HotTypes # {} THEN "hot" ELSE
                        IF s.budget = 0 THEN "answered" ELSE "warm"]
    BY DEF BeginSearch
  <1>2. s.topK \in Nat /\ s.budget \in Nat
    BY TieredAssumption
  <1>3. /\ DOMAIN search' = DOMAIN NoSearch
        /\ search'.topK = s.topK /\ search'.budget = s.budget /\ search'.left = s.budget
        /\ search'.waited = 0 /\ search'.spent = 0
        /\ search'.stage \in {"hot", "warm", "answered"}
    BY <1>1 DEF NoSearch
  <1>4. tiers' = tiers
    BY DEF BeginSearch
  <1>5. Shapes'
    BY <1>2, <1>3, <1>4 DEF AccountInv, Shapes, Stages
  <1> QED
    BY <1>2, <1>3, <1>5, TieredAssumption DEF AccountInv, BudgetInv

\* The clock charges the tier the search waits for.
LEMMA TickInv == AccountInv /\ TieredTick => AccountInv'
  <1> SUFFICES ASSUME AccountInv, TieredTick PROVE AccountInv'
    OBVIOUS
  <1> DEFINE waiting == search.stage \notin {"idle", "answered", "raised"}
  <1>1. tiers' = tiers /\ (waiting => search.waited < Patience)
        /\ search' = (IF waiting THEN [search EXCEPT !.waited = @ + 1, !.spent = @ + 1] ELSE search)
    BY DEF TieredTick
  <1>2. CASE ~waiting
    BY <1>1, <1>2 DEF AccountInv, Shapes, BudgetInv
  <1>3. CASE waiting
    <2>1. /\ DOMAIN search' = DOMAIN search /\ search'.stage = search.stage
          /\ search'.topK = search.topK /\ search'.budget = search.budget /\ search'.left = search.left
          /\ search'.waited = search.waited + 1 /\ search'.spent = search.spent + 1
      BY <1>1, <1>3 DEF AccountInv, Shapes, NoSearch
    <2>2. Shapes'
      BY <1>1, <2>1 DEF AccountInv, Shapes
    <2>3. search.stage \in {"hot", "warm", "scope", "cold"}
      BY <1>3 DEF AccountInv, Shapes, Stages
    <2>4. CASE search.stage = "hot"
      BY <1>1, <1>3, <2>1, <2>2, <2>4, PatienceBound, TieredAssumption
         DEF AccountInv, Shapes, BudgetInv
    <2>5. CASE search.stage \in {"warm", "scope", "cold"}
      BY <1>1, <1>3, <2>1, <2>2, <2>5, PatienceBound DEF AccountInv, Shapes, BudgetInv
    <2> QED
      BY <2>3, <2>4, <2>5
  <1> QED
    BY <1>2, <1>3

\* Every step of the router keeps the account.
LEMMA TieredInv == AccountInv /\ TieredNext => AccountInv'
  <1> SUFFICES ASSUME AccountInv, TieredNext PROVE AccountInv'
    OBVIOUS
  <1>1. CASE WarmHotTier \/ SpoilEntry \/ RecordUsage
    <2>1. UNCHANGED <<tiers, search>>
      BY <1>1 DEF WarmHotTier, SpoilEntry, RecordUsage
    <2> QED
      BY <2>1 DEF AccountInv, Shapes, BudgetInv
  <1>2. CASE BeginSearch
    BY <1>2, BeginInv
  <1>3. CASE HotAnswers
    BY <1>3, TierEndsInv DEF HotAnswers
  <1>4. CASE EnsureScope
    <2>1. /\ tiers' = tiers /\ search.stage = "warm" /\ search' = [search EXCEPT !.stage = "scope"]
      BY <1>4 DEF EnsureScope
    <2>2. /\ DOMAIN search' = DOMAIN search /\ search'.stage = "scope"
          /\ search'.topK = search.topK /\ search'.budget = search.budget /\ search'.left = search.left
          /\ search'.waited = search.waited /\ search'.spent = search.spent
      BY <2>1 DEF AccountInv, Shapes, NoSearch
    <2> QED
      BY <2>1, <2>2 DEF AccountInv, Shapes, BudgetInv, Stages
  <1>5. CASE WarmAnswers
    <2>1. PICK items : TierEnds(items)
      BY <1>5 DEF WarmAnswers
    <2> QED
      BY <1>5, <2>1, TierEndsInv DEF WarmAnswers
  <1>6. CASE ColdAnswers
    <2>1. PICK items : TierEnds(items)
      BY <1>6 DEF ColdAnswers
    <2> QED
      BY <1>6, <2>1, TierEndsInv DEF ColdAnswers
  <1>7. CASE TierFails
    BY <1>7, TierEndsInv DEF TierFails
  <1>8. CASE ColdRaises
    <2>1. /\ tiers' = tiers /\ search.stage = "cold" /\ search' = [search EXCEPT !.stage = "raised"]
      BY <1>8 DEF ColdRaises
    <2>2. /\ DOMAIN search' = DOMAIN search /\ search'.stage = "raised"
          /\ search'.topK = search.topK /\ search'.budget = search.budget /\ search'.left = search.left
          /\ search'.waited = search.waited /\ search'.spent = search.spent
      BY <2>1 DEF AccountInv, Shapes, NoSearch
    <2> QED
      BY <2>1, <2>2 DEF AccountInv, Shapes, BudgetInv, Stages
  <1>9. CASE TieredTick
    BY <1>9, TickInv
  <1> QED
    BY <1>1, <1>2, <1>3, <1>4, <1>5, <1>6, <1>7, <1>8, <1>9 DEF TieredNext, SearchSteps

\* Before the first search nothing is spent, and the other two searches spend nothing.
LEMMA AccountInvariance == Spec => []AccountInv
  <1>1. Init => AccountInv
    BY TieredAssumption DEF Init, TieredInit, NoSearch, AccountInv, Shapes, BudgetInv, Stages
  <1>2. AccountInv /\ [Next]_vars => AccountInv'
    <2> SUFFICES ASSUME AccountInv, [Next]_vars PROVE AccountInv'
      OBVIOUS
    <2>1. CASE TieredNext
      BY <2>1, TieredInv
    <2>2. CASE UNCHANGED tieredVars
      BY <2>2 DEF tieredVars, AccountInv, Shapes, BudgetInv
    <2> QED
      BY <2>1, <2>2 DEF Next, Search, Coordinate, Govern, vars
  <1> QED
    BY <1>1, <1>2, PTL DEF Spec

\* However slow the tiers are, a search takes no longer than its latency budget, or than
\* the timeout of Redis when the budget is less.
THEOREM WithinBudget == Spec => []AnswersWithinBudget
  <1>1. AccountInv => AnswersWithinBudget
    <2> SUFFICES ASSUME AccountInv PROVE AnswersWithinBudget
      OBVIOUS
    <2>1. search.spent <= HotTimeout \/ search.spent <= search.budget
      BY TieredAssumption DEF AccountInv, Shapes, BudgetInv, Stages
    <2>2. search.spent \in Nat /\ search.budget \in Nat /\ HotTimeout \in Nat
      BY TieredAssumption DEF AccountInv, Shapes
    <2>3. /\ Max({HotTimeout, search.budget}) \in Int
          /\ HotTimeout <= Max({HotTimeout, search.budget})
          /\ search.budget <= Max({HotTimeout, search.budget})
      BY <2>2, MaxOfTwo
    <2> QED
      BY <2>1, <2>2, <2>3 DEF AnswersWithinBudget
  <1> QED
    BY <1>1, AccountInvariance, PTL

-----------------------------------------------------------------------------
(* The hot cache of the process: an entry is at least as old as the last   *)
(* refresh, whatever record_usage() writes back in between.                *)

Entries ==
    /\ DOMAIN hot = DOMAIN NoEntry /\ hot.age \in Nat /\ warmedAt \in Nat
    /\ \E S : given \in Seq(S)

AgeInv == ~tiers.redis /\ hot.items # <<>> => warmedAt <= hot.age

FreshInv == Entries /\ AgeInv

\* The last element of a sequence after an append.
LEMMA LastOfAppend ==
    ASSUME NEW S, NEW s \in Seq(S), NEW e
    PROVE  Append(s, e) \in Seq(S \cup {e}) /\ Last(Append(s, e)) = e
  <1>1. s \in Seq(S \cup {e})
    OBVIOUS
  <1>2. Len(Append(s, e)) = Len(s) + 1 /\ Append(s, e)[Len(s) + 1] = e
    BY <1>1
  <1> QED
    BY <1>1, <1>2 DEF Last

\* What a tier gives is one more list.
LEMMA GivenGrows ==
    ASSUME Entries, NEW items, given' = Append(given, items)
    PROVE  (\E S : given' \in Seq(S)) /\ Last(given') = items
  <1>1. PICK S : given \in Seq(S)
    BY DEF Entries
  <1> QED
    BY <1>1, LastOfAppend

\* Every step of the router keeps the age of the entry.
LEMMA EntryInv == Shapes /\ FreshInv /\ TieredNext => FreshInv'
  <1> SUFFICES ASSUME Shapes, FreshInv, TieredNext PROVE FreshInv'
    OBVIOUS
  <1> USE DEF FreshInv
  <1>1. CASE WarmHotTier
    <2>1. /\ DOMAIN hot' = DOMAIN NoEntry /\ hot'.age = 0 /\ warmedAt' = 0
          /\ UNCHANGED <<tiers, given>>
      BY <1>1 DEF WarmHotTier, NoEntry
    <2> QED
      BY <2>1 DEF Entries, AgeInv
  <1>2. CASE SpoilEntry
    <2>1. /\ tiers.redis /\ DOMAIN hot' = DOMAIN hot /\ hot'.age = hot.age
          /\ UNCHANGED <<tiers, given, warmedAt>>
      BY <1>2 DEF SpoilEntry, Entries, NoEntry
    <2> QED
      BY <2>1 DEF Entries, AgeInv
  <1>3. CASE RecordUsage
    <2>1. /\ DOMAIN hot' = DOMAIN hot /\ hot'.age = (IF tiers.redis THEN 0 ELSE hot.age)
          /\ hot'.items = hot.items
          /\ UNCHANGED <<tiers, given, warmedAt>>
      BY <1>3 DEF RecordUsage, Entries, NoEntry
    <2> QED
      BY <2>1 DEF Entries, AgeInv
  <1>4. CASE HotAnswers
    <2>1. /\ UNCHANGED <<tiers, warmedAt>> /\ hot' \in {hot, NoEntry}
          /\ given' = Append(given, HotItems(search.topK))
      BY <1>4 DEF HotAnswers
    <2>2. \E S : given' \in Seq(S)
      BY <2>1, GivenGrows
    <2> QED
      BY <2>1, <2>2 DEF Entries, AgeInv, NoEntry
  <1>5. CASE WarmAnswers \/ ColdAnswers
    <2>1. UNCHANGED <<tiers, hot, warmedAt>> /\ \E items : given' = Append(given, items)
      BY <1>5 DEF WarmAnswers, ColdAnswers
    <2>2. \E S : given' \in Seq(S)
      BY <2>1, GivenGrows
    <2> QED
      BY <2>1, <2>2 DEF Entries, AgeInv
  <1>6. CASE BeginSearch \/ EnsureScope \/ TierFails \/ ColdRaises
    <2>1. UNCHANGED <<tiers, hot, warmedAt, given>>
      BY <1>6 DEF BeginSearch, EnsureScope, TierFails, ColdRaises
    <2> QED
      BY <2>1 DEF Entries, AgeInv
  <1>7. CASE TieredTick
    <2> DEFINE age == IF hot.items = <<>> THEN 0 ELSE Min({hot.age + 1, HotTtl})
    <2>1. /\ hot' = (IF tiers.redis /\ age = HotTtl THEN NoEntry ELSE [hot EXCEPT !.age = age])
          /\ warmedAt' = Min({warmedAt + 1, HotTtl}) /\ UNCHANGED <<tiers, given>>
      BY <1>7 DEF TieredTick
    <2>2. HotTtl \in Nat /\ hot.age + 1 \in Nat /\ warmedAt + 1 \in Nat
      BY TieredAssumption DEF Entries
    <2>3. /\ Min({hot.age + 1, HotTtl}) \in Nat /\ warmedAt' \in Nat
          /\ warmedAt <= hot.age => warmedAt' <= Min({hot.age + 1, HotTtl})
      BY <2>1, <2>2, MinOfTwo DEF Entries
    <2>4. age \in Nat
      BY <2>3
    <2>5. DOMAIN hot' = DOMAIN NoEntry /\ hot'.age \in Nat
          /\ (~tiers.redis => hot'.items = hot.items /\ hot'.age = age)
      BY <2>1, <2>4 DEF Entries, NoEntry
    <2> QED
      BY <2>1, <2>3, <2>5 DEF Entries, AgeInv
  <1> QED
    BY <1>1, <1>2, <1>3, <1>4, <1>5, <1>6, <1>7 DEF TieredNext, SearchSteps

\* An entry that has nothing gives nothing.
LEMMA NothingCached ==
    ASSUME NEW n \in Nat, hot.items = <<>>
    PROVE  HotItems(n) = <<>>
  BY FirstOfNothing DEF HotItems

\* Without Redis, what the hot tier gives was refreshed less than a time to live ago: marking
\* items as used does not keep an old entry alive.
THEOREM HotIsFresh == Spec => HotServesFreshItems
  <1>1. Init => FreshInv
    <2>1. Init => given \in Seq({})
      BY DEF Init, TieredInit
    <2> QED
      BY <2>1 DEF Init, TieredInit, NoEntry, FreshInv, Entries, AgeInv
  <1>2. AccountInv /\ FreshInv /\ [Next]_vars => FreshInv'
    <2> SUFFICES ASSUME AccountInv, FreshInv, [Next]_vars PROVE FreshInv'
      OBVIOUS
    <2>1. CASE TieredNext
      BY <2>1, EntryInv DEF AccountInv
    <2>2. CASE UNCHANGED tieredVars
      BY <2>2 DEF tieredVars, FreshInv, Entries, AgeInv
    <2> QED
      BY <2>1, <2>2 DEF Next, Search, Coordinate, Govern, vars
  <1>3. AccountInv /\ FreshInv /\ [Next]_vars =>
          [search.stage = "hot" /\ given' # given /\ Last(given') # <<>> /\ ~tiers.redis
             => warmedAt < HotTtl]_vars
    <2> SUFFICES ASSUME AccountInv, FreshInv, [Next]_vars, search.stage = "hot", given' # given,
                        Last(given') # <<>>, ~tiers.redis
                 PROVE  warmedAt < HotTtl
      OBVIOUS
    <2>1. SearchSteps \/ WarmHotTier \/ SpoilEntry \/ RecordUsage \/ BeginSearch \/ TieredTick
      BY DEF Next, Search, Coordinate, Govern, vars, tieredVars, TieredNext
    <2>2. HotAnswers
      BY <2>1 DEF SearchSteps, EnsureScope, WarmAnswers, ColdAnswers, TierFails, ColdRaises,
                  WarmHotTier, SpoilEntry, RecordUsage, BeginSearch, TieredTick
    <2>3. Last(given') = HotItems(search.topK)
      BY <2>2, GivenGrows DEF HotAnswers, FreshInv
    <2>4. HotItems(search.topK) # <<>>
      BY <2>3
    <2>5. hot.items # <<>> /\ hot.age < HotTtl
      BY <2>4, NothingCached DEF HotItems, AccountInv, Shapes
    <2> QED
      BY <2>5, TieredAssumption DEF FreshInv, Entries, AgeInv
  <1> QED
    BY <1>1, <1>2, <1>3, AccountInvariance, PTL DEF Spec, HotServesFreshItems
-----------------------------------------------------------------------------
(* The answer of a search: the beginning of all that the tiers gave.  It   *)
(* is put together tier by tier, cut after each.                           *)

\* The items there are.
Items == UNION {ToSet(items) : items \in Warmed \cup Remembered \cup External}

GivenInv ==
    /\ given \in Seq(Seq(Items)) /\ hot.items \in Seq(Items)
    /\ search.results = First(search.topK, FlattenSeq(given))
    /\ search.stage = "idle" => given = <<>>

\* The recursive function of FlattenSeq(seqs), up to n.
IsFlattening(f, seqs, n) ==
    f = [i \in 1..n |-> IF i = 1 THEN seqs[i] ELSE f[i - 1] \o seqs[i]]

LEMMA FlatteningExists ==
    ASSUME NEW seqs
    PROVE  \A n \in Nat : \E f : IsFlattening(f, seqs, n)
  <1> DEFINE N == {n \in Nat : \E f : IsFlattening(f, seqs, n)}
  <1>1. 0 \in N
    <2>1. IsFlattening([i \in 1..0 |-> <<>>], seqs, 0)
      BY DEF IsFlattening
    <2> QED BY <2>1
  <1>2. ASSUME NEW n \in Nat, n \in N PROVE n + 1 \in N
    <2>1. PICK f : IsFlattening(f, seqs, n)
      BY <1>2
    <2> DEFINE last == IF n + 1 = 1 THEN seqs[n + 1] ELSE f[n] \o seqs[n + 1]
               g == [i \in 1..(n + 1) |-> IF i <= n THEN f[i] ELSE last]
    <2>2. \A i \in 1..n : g[i] = f[i]
      OBVIOUS
    <2>3. g[n + 1] = last
      OBVIOUS
    <2>4. ASSUME NEW i \in 1..(n + 1)
          PROVE  g[i] = IF i = 1 THEN seqs[i] ELSE g[i - 1] \o seqs[i]
      <3>1. CASE i <= n
        <4>1. i \in 1..n /\ (i # 1 => i - 1 \in 1..n)
          BY <3>1
        <4>2. f[i] = IF i = 1 THEN seqs[i] ELSE f[i - 1] \o seqs[i]
          BY <2>1, <4>1 DEF IsFlattening
        <4> HIDE DEF g
        <4> QED BY <2>2, <4>1, <4>2
      <3>2. CASE i = n + 1
        <4>1. i # 1 => i - 1 = n /\ n \in 1..n
          BY <3>2
        <4> HIDE DEF g
        <4> QED BY <2>2, <2>3, <3>2, <4>1
      <3> QED BY <3>1, <3>2
    <2>5. IsFlattening(g, seqs, n + 1)
      BY <2>4 DEF IsFlattening
    <2> QED BY <2>5
  <1> HIDE DEF N
  <1>3. \A n \in Nat : n \in N
    BY <1>1, <1>2, NumberInduction
  <1> QED BY <1>3 DEF N

LEMMA FlatteningStep ==
    ASSUME NEW seqs, NEW n \in Nat, NEW f, IsFlattening(f, seqs, n), NEW i \in 1..n
    PROVE  f[i] = IF i = 1 THEN seqs[i] ELSE f[i - 1] \o seqs[i]
  <1>1. \A j \in 1..n : f[j] = IF j = 1 THEN seqs[j] ELSE f[j - 1] \o seqs[j]
    BY Zenon DEF IsFlattening
  <1> QED BY <1>1

\* Its value at i depends on the first i sequences only.
LEMMA FlatteningAgrees ==
    ASSUME NEW seqs, NEW more, NEW n \in Nat, NEW m \in Nat, n # 0, n <= m, NEW f, NEW g,
           IsFlattening(f, seqs, n), IsFlattening(g, more, m), \A i \in 1..n : seqs[i] = more[i]
    PROVE  f[n] = g[n]
  <1> DEFINE N == {k \in Nat : k \in 1..n => f[k] = g[k]}
  <1>1. 0 \in N
    OBVIOUS
  <1>2. ASSUME NEW k \in Nat, k \in N PROVE k + 1 \in N
    <2> SUFFICES ASSUME k + 1 \in 1..n PROVE f[k + 1] = g[k + 1]
      OBVIOUS
    <2>1. k + 1 \in 1..m /\ (k + 1) - 1 = k /\ (k + 1 # 1 => k \in 1..n)
      OBVIOUS
    <2>2. f[k + 1] = IF k + 1 = 1 THEN seqs[k + 1] ELSE f[(k + 1) - 1] \o seqs[k + 1]
      BY FlatteningStep
    <2>3. g[k + 1] = IF k + 1 = 1 THEN more[k + 1] ELSE g[(k + 1) - 1] \o more[k + 1]
      BY <2>1, FlatteningStep
    <2>4. k + 1 # 1 => f[k] = g[k]
      BY <1>2, <2>1
    <2>5. seqs[k + 1] = more[k + 1]
      OBVIOUS
    <2> QED BY <2>1, <2>2, <2>3, <2>4, <2>5
  <1> HIDE DEF N
  <1>3. \A k \in Nat : k \in N
    BY <1>1, <1>2, NumberInduction
  <1> QED BY <1>3 DEF N

\* FlattenSeq by its recursive function.
LEMMA FlattenIsFlattening ==
    ASSUME NEW S, NEW seqs \in Seq(S), seqs # <<>>
    PROVE  \E f : IsFlattening(f, seqs, Len(seqs)) /\ FlattenSeq(seqs) = f[Len(seqs)]
  <1>1. Len(seqs) \in Nat /\ Len(seqs) # 0
    OBVIOUS
  <1>2. \E f : IsFlattening(f, seqs, Len(seqs))
    BY <1>1, FlatteningExists
  <1> QED BY <1>1, <1>2 DEF FlattenSeq, IsFlattening

LEMMA FlattenEmpty == FlattenSeq(<<>>) = <<>>
  <1>1. Len(<<>>) = 0
    OBVIOUS
  <1> QED BY <1>1 DEF FlattenSeq

\* One more list comes behind the others.
LEMMA FlattenAppend ==
    ASSUME NEW S, NEW seqs \in Seq(Seq(S)), NEW items \in Seq(S)
    PROVE  FlattenSeq(Append(seqs, items)) = FlattenSeq(seqs) \o items
  <1>1. PICK n \in Nat : n = Len(seqs)
    OBVIOUS
  <1>2. PICK more : more = Append(seqs, items)
    OBVIOUS
  <1>3. /\ more \in Seq(Seq(S)) /\ more # <<>> /\ Len(more) = n + 1 /\ more[n + 1] = items
        /\ \A i \in 1..n : seqs[i] = more[i]
    BY <1>1, <1>2
  <1>4. PICK g : IsFlattening(g, more, n + 1) /\ FlattenSeq(more) = g[n + 1]
    BY <1>3, FlattenIsFlattening
  <1>5. g[n + 1] = IF n + 1 = 1 THEN more[n + 1] ELSE g[(n + 1) - 1] \o more[n + 1]
    <2>1. n + 1 \in Nat /\ n + 1 \in 1..(n + 1)
      OBVIOUS
    <2> QED BY <1>4, <2>1, FlatteningStep
  <1>6. CASE seqs = <<>>
    <2>1. n = 0 /\ FlattenSeq(seqs) = <<>>
      BY <1>1, <1>6, FlattenEmpty
    <2>2. <<>> \o items = items
      OBVIOUS
    <2> QED BY <1>2, <1>3, <1>4, <1>5, <2>1, <2>2
  <1>7. CASE seqs # <<>>
    <2>1. n # 0 /\ n \in 1..n /\ (n + 1) - 1 = n
      BY <1>1, <1>7
    <2>2. PICK f : IsFlattening(f, seqs, n) /\ FlattenSeq(seqs) = f[n]
      BY <1>1, <1>7, FlattenIsFlattening
    <2>3. f[n] = g[n]
      <3>1. PICK m \in Nat : m = n + 1
        OBVIOUS
      <3>2. n <= m /\ IsFlattening(g, more, m)
        BY <1>4, <3>1
      <3> QED BY <1>3, <2>1, <2>2, <3>2, FlatteningAgrees
    <2> QED BY <1>2, <1>3, <1>4, <1>5, <2>1, <2>2, <2>3
  <1> QED BY <1>6, <1>7

\* Lists of items, one behind the other, are a list of items.
LEMMA FlattenType ==
    ASSUME NEW S
    PROVE  \A seqs \in Seq(Seq(S)) : FlattenSeq(seqs) \in Seq(S)
  <1> DEFINE P == {seqs \in Seq(Seq(S)) : FlattenSeq(seqs) \in Seq(S)}
  <1>1. <<>> \in P
    <2>1. <<>> \in Seq(Seq(S)) /\ <<>> \in Seq(S)
      OBVIOUS
    <2> QED BY <2>1, FlattenEmpty
  <1>2. ASSUME NEW seqs \in Seq(Seq(S)), NEW items \in Seq(S), seqs \in P
        PROVE  Append(seqs, items) \in P
    <2>1. Append(seqs, items) \in Seq(Seq(S))
      OBVIOUS
    <2>2. FlattenSeq(seqs) \o items \in Seq(S)
      BY <1>2
    <2>3. FlattenSeq(Append(seqs, items)) = FlattenSeq(seqs) \o items
      BY FlattenAppend
    <2> QED BY <2>1, <2>2, <2>3
  <1> HIDE DEF P
  <1>3. \A seqs \in Seq(Seq(S)) : seqs \in P
    BY <1>1, <1>2, SequenceInduction
  <1> QED BY <1>3 DEF P

\* The lists of the tiers are lists of items.
LEMMA TierLists ==
    ASSUME NEW list \in Warmed \cup Remembered \cup External
    PROVE  list \in Seq(Items)
  <1>1. list \in Seq(ToSet(list))
    BY TieredAssumption
  <1>2. ToSet(list) \subseteq Items
    BY DEF Items
  <1> QED BY <1>1, <1>2

\* A tier that ends adds its items behind those of the tiers before.
LEMMA TierEndsResults ==
    ASSUME AccountInv, GivenInv, NEW items \in Seq(Items), TierEnds(items),
           search.stage \in {"hot", "warm", "scope", "cold"}
    PROVE  /\ search'.results = First(search'.topK, FlattenSeq(given) \o items)
           /\ search'.stage # "idle"
  <1>1. PICK flat : flat = FlattenSeq(given)
    OBVIOUS
  <1>2. flat \in Seq(Items) /\ search.results = First(search.topK, flat) /\ search.topK \in Nat
    BY <1>1, FlattenType DEF GivenInv, AccountInv, Shapes
  <1>3. /\ search'.topK = search.topK
        /\ search'.results = First(search.topK, search.results \o items)
        /\ search'.stage \in {"answered", After(search.stage)}
    BY DEF AccountInv, Shapes, NoSearch, TierEnds
  <1>4. After(search.stage) # "idle"
    BY DEF After
  <1>5. First(search.topK, First(search.topK, flat) \o items) = First(search.topK, flat \o items)
    BY <1>2, FirstOfFirst
  <1> QED BY <1>1, <1>2, <1>3, <1>4, <1>5

\* A tier that answered: its list is what was given, and is added.
LEMMA AnswerInv ==
    ASSUME AccountInv, GivenInv, NEW items \in Seq(Items), TierEnds(items),
           search.stage \in {"hot", "warm", "scope", "cold"},
           given' = Append(given, items), hot'.items \in Seq(Items)
    PROVE  GivenInv'
  <1>1. given' \in Seq(Seq(Items))
    BY DEF GivenInv
  <1>2. FlattenSeq(given') = FlattenSeq(given) \o items
    BY FlattenAppend DEF GivenInv
  <1>3. search'.results = First(search'.topK, FlattenSeq(given')) /\ search'.stage # "idle"
    BY <1>2, TierEndsResults
  <1>4. FlattenSeq(given)' = FlattenSeq(given')
    OBVIOUS
  <1> QED BY <1>1, <1>3, <1>4 DEF GivenInv, First

\* Every step of the router keeps what was given, in its order.
LEMMA SearchInv == AccountInv /\ Entries /\ GivenInv /\ TieredNext => GivenInv'
  <1> SUFFICES ASSUME AccountInv, Entries, GivenInv, TieredNext PROVE GivenInv'
    OBVIOUS
  <1>1. <<>> \in Seq(Items) /\ <<>> \in Seq(Seq(Items))
    OBVIOUS
  <1>2. search.topK \in Nat
    BY DEF AccountInv, Shapes
  <1>3. CASE WarmHotTier
    <2>1. PICK items \in Warmed : hot' = [items |-> Cacheable(items), age |-> 0, valid |-> TRUE]
      BY <1>3 DEF WarmHotTier
    <2>2. items \in Seq(Items)
      BY TierLists
    <2>3. hot'.items \in Seq(Items)
      BY <2>1, <2>2, KeepSequence DEF Cacheable
    <2> QED BY <1>3, <2>3 DEF WarmHotTier, GivenInv
  <1>4. CASE SpoilEntry \/ RecordUsage
    <2>1. hot'.items = hot.items /\ UNCHANGED <<search, given>>
      BY <1>4 DEF SpoilEntry, RecordUsage, Entries, NoEntry
    <2> QED BY <2>1 DEF GivenInv
  <1>5. CASE BeginSearch
    <2>1. PICK n \in Nat : search'.topK = n
      <3>1. PICK s \in Searches : search'.topK = s.topK
        BY <1>5 DEF BeginSearch, NoSearch
      <3> QED BY <3>1, TieredAssumption
    <2>2. search'.results = <<>> /\ given = <<>> /\ UNCHANGED <<hot, given>>
      BY <1>5 DEF BeginSearch, NoSearch, GivenInv
    <2>3. First(n, <<>>) = <<>>
      BY <2>1, FirstOfNothing
    <2> QED BY <2>1, <2>2, <2>3, FlattenEmpty DEF GivenInv
  <1>6. CASE HotAnswers
    <2>1. PICK items : items = HotItems(search.topK)
      OBVIOUS
    <2>2. items \in Seq(Items)
      BY <1>1, <1>2, <2>1, FirstOf DEF HotItems, GivenInv
    <2>3. hot'.items \in Seq(Items)
      BY <1>1, <1>6 DEF HotAnswers, NoEntry, GivenInv
    <2>4. search.stage = "hot" /\ TierEnds(items) /\ given' = Append(given, items)
      BY <1>6, <2>1 DEF HotAnswers
    <2> QED BY <2>2, <2>3, <2>4, AnswerInv
  <1>7. CASE EnsureScope
    <2>1. /\ search'.results = search.results /\ search'.topK = search.topK /\ search'.stage = "scope"
          /\ UNCHANGED <<hot, given>>
      BY <1>7 DEF EnsureScope, AccountInv, Shapes, NoSearch
    <2> QED BY <2>1 DEF GivenInv
  <1>8. CASE WarmAnswers \/ ColdAnswers
    <2>1. PICK list \in Remembered \cup External :
             LET some == First(search.topK - Len(search.results), list)
             IN  TierEnds(some) /\ given' = Append(given, some)
      BY <1>8 DEF WarmAnswers, ColdAnswers
    <2>2. PICK n : n = search.topK - Len(search.results)
      OBVIOUS
    <2>3. n \in Nat
      <3>1. FlattenSeq(given) \in Seq(Items)
        BY FlattenType DEF GivenInv
      <3>2. search.results \in Seq(Items) /\ Len(search.results) <= search.topK
        BY <1>2, <3>1, FirstOf DEF GivenInv
      <3>3. Len(search.results) \in Nat
        BY <3>2
      <3> QED BY <1>2, <2>2, <3>2, <3>3
    <2>4. PICK some : some = First(n, list)
      OBVIOUS
    <2>5. some \in Seq(Items)
      BY <2>3, <2>4, FirstOf, TierLists
    <2>6. /\ search.stage \in {"warm", "scope", "cold"} /\ UNCHANGED hot
      BY <1>8 DEF WarmAnswers, ColdAnswers
    <2>7. TierEnds(some) /\ given' = Append(given, some) /\ hot'.items \in Seq(Items)
      BY <2>1, <2>2, <2>4, <2>6 DEF GivenInv
    <2> QED BY <2>5, <2>6, <2>7, AnswerInv
  <1>9. CASE TierFails
    <2>1. /\ search.stage \in {"hot", "warm", "scope", "cold"} /\ TierEnds(<<>>)
          /\ UNCHANGED <<hot, given>>
      BY <1>9 DEF TierFails
    <2>2. PICK flat : flat = FlattenSeq(given)
      OBVIOUS
    <2>3. flat \in Seq(Items)
      BY <2>2, FlattenType DEF GivenInv
    <2>4. flat \o <<>> = flat
      BY <2>3
    <2>5. search'.results = First(search'.topK, flat) /\ search'.stage # "idle"
      BY <1>1, <2>1, <2>2, <2>4, TierEndsResults
    <2> QED BY <2>1, <2>2, <2>5 DEF GivenInv
  <1>10. CASE ColdRaises
    <2>1. /\ search'.results = search.results /\ search'.topK = search.topK /\ search'.stage = "raised"
          /\ UNCHANGED <<hot, given>>
      BY <1>10 DEF ColdRaises, AccountInv, Shapes, NoSearch
    <2> QED BY <2>1 DEF GivenInv
  <1>11. CASE TieredTick
    <2>1. /\ search'.results = search.results /\ search'.topK = search.topK
          /\ search'.stage = search.stage /\ UNCHANGED given
      BY <1>11 DEF TieredTick, AccountInv, Shapes, NoSearch
    <2>2. hot'.items \in {hot.items, <<>>}
      BY <1>11 DEF TieredTick, Entries, NoEntry
    <2> QED BY <1>1, <2>1, <2>2 DEF GivenInv
  <1> QED BY <1>3, <1>4, <1>5, <1>6, <1>7, <1>8, <1>9, <1>10, <1>11 DEF TieredNext, SearchSteps

\* The answer of a search is the beginning of what the tiers gave in time, the hot tier
\* first: a tier that is slow, empty or fails costs no item of another.
THEOREM NothingHidden == Spec => []NoTierHidesAnother
  <1>1. Init => FreshInv /\ GivenInv
    <2> SUFFICES ASSUME Init PROVE FreshInv /\ GivenInv
      OBVIOUS
    <2>1. <<>> \in Seq({}) /\ <<>> \in Seq(Items) /\ <<>> \in Seq(Seq(Items))
      OBVIOUS
    <2>2. given = <<>> /\ hot = NoEntry /\ search = NoSearch /\ warmedAt = 0
      BY DEF Init, TieredInit
    <2>3. First(1, <<>>) = <<>>
      BY FirstOfNothing
    <2>4. GivenInv
      BY <2>1, <2>2, <2>3, FlattenEmpty DEF GivenInv, NoEntry, NoSearch
    <2>5. FreshInv
      BY <2>1, <2>2 DEF NoEntry, FreshInv, Entries, AgeInv
    <2> QED BY <2>4, <2>5
  <1>2. AccountInv /\ FreshInv /\ GivenInv /\ [Next]_vars => FreshInv' /\ GivenInv'
    <2> SUFFICES ASSUME AccountInv, FreshInv, GivenInv, [Next]_vars PROVE FreshInv' /\ GivenInv'
      OBVIOUS
    <2>1. CASE TieredNext
      BY <2>1, EntryInv, SearchInv DEF AccountInv, FreshInv
    <2>2. CASE UNCHANGED tieredVars
      BY <2>2 DEF tieredVars, FreshInv, Entries, AgeInv, GivenInv
    <2> QED BY <2>1, <2>2 DEF Next, Search, Coordinate, Govern, vars
  <1>3. GivenInv => NoTierHidesAnother
    BY DEF GivenInv, NoTierHidesAnother
  <1> QED BY <1>1, <1>2, <1>3, AccountInvariance, PTL DEF Spec

-----------------------------------------------------------------------------
(* The choice of tools: sorting by the success rate, whose comparison is   *)
(* one of fractions.                                                       *)

ToolTypes ==
    /\ tools \in Seq(ToolIds)
    /\ stats \in [ToolIds -> [calls : Nat, successes : Nat]]

ToolInv == ToolTypes /\ ReliableToolsAreSelected

\* A product grows with its factors.
LEMMA ProductGrows ==
    ASSUME NEW x \in Nat, NEW y \in Nat, NEW z \in Nat, x >= y
    PROVE  x * z \in Nat /\ y * z \in Nat /\ x * z >= y * z
  <1>1. PICK d \in Nat : x = y + d
    <2>1. x - y \in Nat /\ x = y + (x - y)
      OBVIOUS
    <2> QED BY <2>1
  <1>2. x * z = y * z + d * z
    BY <1>1
  <1>3. d * z \in Nat /\ y * z \in Nat /\ x * z \in Nat
    OBVIOUS
  <1> QED BY <1>2, <1>3

\* What is greater after a multiplication was greater before.
LEMMA ProductShrinks ==
    ASSUME NEW x \in Nat, NEW y \in Nat, NEW z \in Nat \ {0}, x * z >= y * z
    PROVE  x >= y
  <1> SUFFICES ASSUME x < y PROVE FALSE
    OBVIOUS
  <1>1. x + 1 \in Nat /\ y >= x + 1
    OBVIOUS
  <1>2. y * z >= (x + 1) * z
    BY <1>1, ProductGrows
  <1>3. (x + 1) * z = x * z + z
    OBVIOUS
  <1>4. x * z \in Nat /\ y * z \in Nat
    OBVIOUS
  <1> QED BY <1>2, <1>3, <1>4

\* a/b >= c/d >= e/f, without the divisions.
LEMMA FractionsAreOrdered ==
    ASSUME NEW a \in Nat, NEW b \in Nat \ {0}, NEW c \in Nat, NEW d \in Nat \ {0},
           NEW e \in Nat, NEW f \in Nat \ {0}, a * d >= c * b, c * f >= e * d
    PROVE  a * f >= e * b
  <1>1. a * d \in Nat /\ c * b \in Nat /\ c * f \in Nat /\ e * d \in Nat /\ a * f \in Nat /\ e * b \in Nat
    OBVIOUS
  <1>2. (a * d) * f >= (c * b) * f
    BY <1>1, ProductGrows
  <1>3. (c * f) * b >= (e * d) * b
    BY <1>1, ProductGrows
  <1>4. (a * d) * f = (a * f) * d /\ (c * b) * f = (c * f) * b /\ (e * d) * b = (e * b) * d
    OBVIOUS
  <1>5. (a * d) * f \in Nat /\ (c * b) * f \in Nat /\ (c * f) * b \in Nat /\ (e * d) * b \in Nat
    BY <1>1
  <1>6. (a * f) * d >= (e * b) * d
    BY <1>2, <1>3, <1>4, <1>5
  <1> QED BY <1>1, <1>6, ProductShrinks

\* The order of the rates: every two tools can be compared, and the comparison is transitive.
LEMMA RatesAreOrdered ==
    ASSUME ToolTypes
    PROVE  /\ \A t, u \in ToolIds : AtLeastAsReliable(t, u) \/ AtLeastAsReliable(u, t)
           /\ \A t, u, v \in ToolIds :
                 AtLeastAsReliable(t, u) /\ AtLeastAsReliable(u, v) => AtLeastAsReliable(t, v)
  <1>1. \A t \in ToolIds : Rate(t).successes \in Nat /\ Rate(t).calls \in Nat \ {0}
    <2> SUFFICES ASSUME NEW t \in ToolIds PROVE Rate(t).successes \in Nat /\ Rate(t).calls \in Nat \ {0}
      OBVIOUS
    <2>1. stats[t].calls \in Nat /\ stats[t].successes \in Nat
      BY DEF ToolTypes
    <2> QED BY <2>1 DEF Rate
  <1>2. ASSUME NEW t \in ToolIds, NEW u \in ToolIds
        PROVE  AtLeastAsReliable(t, u) \/ AtLeastAsReliable(u, t)
    <2>1. Rate(t).successes * Rate(u).calls \in Nat /\ Rate(u).successes * Rate(t).calls \in Nat
      BY <1>1
    <2> QED BY <2>1 DEF AtLeastAsReliable
  <1>3. ASSUME NEW t \in ToolIds, NEW u \in ToolIds, NEW v \in ToolIds,
               AtLeastAsReliable(t, u), AtLeastAsReliable(u, v)
        PROVE  AtLeastAsReliable(t, v)
    BY <1>1, <1>3, FractionsAreOrdered DEF AtLeastAsReliable
  <1> QED BY <1>2, <1>3

\* The pairs of tools of which the first may stand before the second.
RateOrder == {pair \in ToolIds \X ToolIds : AtLeastAsReliable(pair[1], pair[2])}

LEMMA RatesAreAnOrdering ==
    ASSUME ToolTypes
    PROVE  Ordering(ToolIds, RateOrder)
  <1>1. \A t, u \in ToolIds : <<t, u>> \in RateOrder <=> AtLeastAsReliable(t, u)
    BY DEF RateOrder
  <1> QED BY <1>1, RatesAreOrdered DEF Ordering

\* Who is cut off is not more reliable than who is selected, and the cut is full.
LEMMA CutIsReliable ==
    ASSUME ToolTypes, NEW c \in Seq(ToolIds), NEW n \in Nat
    PROVE  /\ \A t \in ToSet(First(n, BySuccessRate(c))) :
                 \A u \in ToSet(c) \ ToSet(First(n, BySuccessRate(c))) : AtLeastAsReliable(t, u)
           /\ ToSet(c) \ ToSet(First(n, BySuccessRate(c))) # {} =>
                 Len(First(n, BySuccessRate(c))) = n
  <1>1. PICK s : s = BySuccessRate(c)
    OBVIOUS
  <1>2. PICK r : r = First(n, s)
    OBVIOUS
  <1>3. s = StableSort(c, RateOrder)
    BY <1>1 DEF BySuccessRate, RateOrder
  <1>4. s \in Seq(ToolIds) /\ Sorted(s, RateOrder) /\ Elements(s) = Elements(c)
    BY <1>3, RatesAreAnOrdering, StableSortSorts
  <1>5. /\ r \in Seq(ToolIds) /\ Len(r) \in Nat /\ Len(r) <= Len(s)
        /\ \A i \in 1..Len(r) : r[i] = s[i]
        /\ Len(r) = n \/ r = s
    BY <1>2, <1>4, FirstOf
  <1>6. ToSet(r) = Elements(r) /\ ToSet(c) = Elements(c)
    <2>1. DOMAIN r = 1..Len(r) /\ DOMAIN c = 1..Len(c)
      BY <1>5
    <2> QED BY <2>1 DEF ToSet, Elements
  <1>7. ASSUME NEW i \in 1..Len(r), NEW j \in 1..Len(s), s[j] \notin Elements(r)
        PROVE  AtLeastAsReliable(r[i], s[j])
    <2>1. i \in 1..Len(s) /\ i < j /\ r[i] = s[i]
      BY <1>4, <1>5, <1>7 DEF Elements
    <2>2. <<s[i], s[j]>> \in RateOrder
      BY <1>4, <2>1 DEF Sorted
    <2> QED BY <2>1, <2>2 DEF RateOrder
  <1>8. ASSUME NEW t \in Elements(r), NEW u \in Elements(c), u \notin Elements(r)
        PROVE  AtLeastAsReliable(t, u)
    <2>1. PICK i \in 1..Len(r) : t = r[i]
      BY DEF Elements
    <2>2. PICK j \in 1..Len(s) : u = s[j]
      BY <1>4 DEF Elements
    <2> QED BY <1>7, <1>8, <2>1, <2>2
  <1>9. ToSet(c) \ ToSet(r) # {} => Len(r) = n
    BY <1>4, <1>5, <1>6
  <1> QED BY <1>1, <1>2, <1>6, <1>8, <1>9

\* Every step of the governor keeps the types, and selects reliable tools.
LEMMA GovernorInv == ToolInv /\ ToolNext => ToolInv'
  <1> SUFFICES ASSUME ToolInv, ToolNext PROVE ToolInv'
    OBVIOUS
  <1>a. NoSelection.by # "rate"
    BY DEF NoSelection
  <1>b. \A k \in 1..ToolTopK : k \in Nat
    <2>1. ToolTopK \in Nat
      BY ToolAssumption
    <2> QED BY <2>1
  <1>1. ASSUME selected' = NoSelection PROVE ReliableToolsAreSelected'
    BY <1>1 DEF ReliableToolsAreSelected, NoSelection
  <1>2. CASE RegisterTool
    <2>1. PICK t \in ToolIds :
             /\ tools' = IF t \in ToSet(tools) THEN tools ELSE Append(tools, t)
             /\ stats' = [stats EXCEPT ![t] = NoCalls]
      BY <1>2 DEF RegisterTool
    <2>2. ToolTypes'
      BY <2>1 DEF ToolInv, ToolTypes, NoCalls
    <2> QED BY <1>1, <1>2, <2>2 DEF RegisterTool, ToolInv
  <1>3. CASE UnregisterTool
    <2>1. PICK t \in ToolIds :
             tools' = Keep(tools, ToolIds \ {t}) /\ stats' = [stats EXCEPT ![t] = NoCalls]
      BY <1>3 DEF UnregisterTool
    <2>2. tools' \in Seq(ToolIds)
      BY <2>1, KeepSequence DEF ToolInv, ToolTypes
    <2>3. ToolTypes'
      BY <2>1, <2>2 DEF ToolInv, ToolTypes, NoCalls
    <2> QED BY <1>1, <1>3, <2>3 DEF UnregisterTool, ToolInv
  <1>4. CASE RecordToolResult
    <2>1. PICK t \in ToSet(tools), success \in BOOLEAN :
             stats' = [stats EXCEPT ![t] = [calls |-> @.calls + 1,
                                            successes |-> @.successes + IF success THEN 1 ELSE 0]]
      BY <1>4 DEF RecordToolResult
    <2>2. t \in ToolIds
      BY DEF ToolInv, ToolTypes, ToSet
    <2>3. stats[t].calls \in Nat /\ stats[t].successes \in Nat
      BY <2>2 DEF ToolInv, ToolTypes
    <2>4. [calls |-> stats[t].calls + 1, successes |-> stats[t].successes + IF success THEN 1 ELSE 0]
             \in [calls : Nat, successes : Nat]
      BY <2>3
    <2>5. stats' \in [ToolIds -> [calls : Nat, successes : Nat]]
      BY <2>1, <2>2, <2>4 DEF ToolInv, ToolTypes
    <2>6. ToolTypes'
      BY <1>4, <2>5 DEF RecordToolResult, ToolInv, ToolTypes
    <2> QED BY <1>1, <1>4, <2>6 DEF RecordToolResult, ToolInv
  <1>5. CASE SelectTools
    <2>1. UNCHANGED <<tools, stats>>
      BY <1>5 DEF SelectTools
    <2>2. ToolTypes'
      BY <2>1 DEF ToolInv, ToolTypes
    <2>3. CASE selected'.by # "rate"
      BY <2>2, <2>3 DEF ToolInv, ReliableToolsAreSelected
    <2>4. CASE selected'.by = "rate"
      <3>1. PICK task \in TaskTypes \cup {""}, n \in 1..ToolTopK :
               selected' = [task |-> task, topK |-> n, by |-> "rate",
                            tools |-> First(n, BySuccessRate(Candidates(task)))]
        <4>1. PICK task \in TaskTypes \cup {""}, n \in 1..ToolTopK :
                 \/ selected' = [task |-> task, topK |-> n, by |-> "rate",
                                 tools |-> First(n, BySuccessRate(Candidates(task)))]
                 \/ \E by \in {"retriever", "order"} : \E some :
                       selected' = [task |-> task, topK |-> n, by |-> by, tools |-> some]
                 \/ selected' = NoSelection
          BY <1>5 DEF SelectTools
        <4>2. ASSUME NEW by \in {"retriever", "order"}, NEW some,
                     selected' = [task |-> task, topK |-> n, by |-> by, tools |-> some]
              PROVE  FALSE
          BY <2>4, <4>2
        <4>3. selected' # NoSelection
          BY <1>a, <2>4
        <4>4. selected' = [task |-> task, topK |-> n, by |-> "rate",
                           tools |-> First(n, BySuccessRate(Candidates(task)))]
          BY <4>1, <4>2, <4>3
        <4> QED BY <4>4
      <3>2. PICK c : c = Candidates(task)
        OBVIOUS
      <3>3. c \in Seq(ToolIds)
        BY <3>2, KeepSequence DEF Candidates, ToolInv, ToolTypes
      <3>4. n \in Nat
        BY <1>b
      <3>5. PICK some : some = First(n, BySuccessRate(c))
        OBVIOUS
      <3>6. selected'.task = task /\ selected'.tools = some /\ selected'.topK = n
        BY <3>1, <3>2, <3>5
      <3>7. \A t \in ToSet(some) : \A u \in ToSet(c) \ ToSet(some) : AtLeastAsReliable(t, u)
        BY <3>3, <3>4, <3>5, CutIsReliable DEF ToolInv
      <3>9. ToSet(c) \ ToSet(some) # {} => Len(some) = n
        BY <3>3, <3>4, <3>5, CutIsReliable DEF ToolInv
      <3>8. ReliableToolsAreSelected'
        BY <2>1, <3>2, <3>6, <3>7, <3>9 DEF ReliableToolsAreSelected, AtLeastAsReliable, Rate, Candidates
      <3> QED BY <2>2, <3>8 DEF ToolInv
    <2> QED BY <2>3, <2>4
  <1> QED BY <1>2, <1>3, <1>4, <1>5 DEF ToolNext

\* Among the tools that fit a task, a selection by the success rate leaves none out while top_k
\* has room, and prefers none that failed more often to one it leaves out, whatever was
\* registered, removed and recorded before.
THEOREM ReliableHolds == Spec => []ReliableToolsAreSelected
  <1>1. Init => ToolInv
    <2> SUFFICES ASSUME Init PROVE ToolInv
      OBVIOUS
    <2>1. <<>> \in Seq(ToolIds)
      OBVIOUS
    <2> QED BY <2>1 DEF Init, ToolInit, ToolInv, ToolTypes, ReliableToolsAreSelected, NoCalls, NoSelection
  <1>2. ToolInv /\ [Next]_vars => ToolInv'
    <2> SUFFICES ASSUME ToolInv, [Next]_vars PROVE ToolInv'
      OBVIOUS
    <2>1. CASE ToolNext
      BY <2>1, GovernorInv
    <2>2. CASE UNCHANGED toolVars
      <3>1. tools' = tools /\ stats' = stats /\ selected' = selected
        BY <2>2 DEF toolVars
      <3>2. ToolTypes' /\ Candidates(selected.task)' = Candidates(selected.task)
        BY <3>1 DEF ToolInv, ToolTypes, Candidates
      <3>3. \A t, u : AtLeastAsReliable(t, u)' = AtLeastAsReliable(t, u)
        BY <3>1 DEF AtLeastAsReliable, Rate
      <3>4. ReliableToolsAreSelected'
        BY <3>1, <3>2, <3>3 DEF ToolInv, ReliableToolsAreSelected
      <3> QED BY <3>2, <3>4 DEF ToolInv
    <2> QED BY <2>1, <2>2 DEF Next, Search, Coordinate, Govern, vars
  <1>3. ToolInv => ReliableToolsAreSelected
    BY DEF ToolInv
  <1> QED BY <1>1, <1>2, <1>3, PTL DEF Spec

-----------------------------------------------------------------------------
(* The fusion.                                                             *)

\* Lists one behind the other have the elements of each.
LEMMA FlattenElements ==
    ASSUME NEW S
    PROVE  \A seqs \in Seq(Seq(S)) :
              Elements(FlattenSeq(seqs)) = UNION {Elements(seqs[n]) : n \in 1..Len(seqs)}
  <1> DEFINE P == {seqs \in Seq(Seq(S)) :
                     Elements(FlattenSeq(seqs)) = UNION {Elements(seqs[n]) : n \in 1..Len(seqs)}}
  <1>1. <<>> \in P
    <2>1. <<>> \in Seq(Seq(S)) /\ Len(<<>>) = 0
      OBVIOUS
    <2>2. Elements(<<>>) = {}
      BY <2>1 DEF Elements
    <2>3. UNION {Elements(<<>>[n]) : n \in 1..0} = {}
      OBVIOUS
    <2> QED BY <2>1, <2>2, <2>3, FlattenEmpty
  <1>2. ASSUME NEW seqs \in Seq(Seq(S)), NEW items \in Seq(S), seqs \in P
        PROVE  Append(seqs, items) \in P
    <2>1. PICK k \in Nat : k = Len(seqs)
      OBVIOUS
    <2>2. PICK more : more = Append(seqs, items)
      OBVIOUS
    <2>3. /\ more \in Seq(Seq(S)) /\ Len(more) = k + 1 /\ more[k + 1] = items
          /\ \A n \in 1..k : more[n] = seqs[n]
      BY <2>1, <2>2
    <2>4. PICK flat \in Seq(S) : flat = FlattenSeq(seqs)
      BY FlattenType
    <2>5. FlattenSeq(more) = flat \o items
      BY <2>2, <2>4, FlattenAppend
    <2>6. Elements(flat \o items) = Elements(flat) \cup Elements(items)
      <3>1. PICK a \in Nat, b \in Nat : a = Len(flat) /\ b = Len(items)
        OBVIOUS
      <3>2. PICK both : both = flat \o items
        OBVIOUS
      <3>3. /\ Len(both) = a + b /\ \A i \in 1..a : both[i] = flat[i]
            /\ \A i \in 1..b : both[a + i] = items[i]
        BY <3>1, <3>2
      <3>4. ASSUME NEW i \in 1..(a + b) PROVE both[i] \in Elements(flat) \cup Elements(items)
        <4>1. i \in 1..a \/ \E j \in 1..b : i = a + j
          <5>1. i \in 1..a \/ (i - a \in 1..b /\ i = a + (i - a))
            OBVIOUS
          <5> QED BY <5>1
        <4> QED BY <3>1, <3>3, <4>1 DEF Elements
      <3>5. ASSUME NEW i \in 1..b PROVE items[i] \in Elements(both)
        <4>1. PICK j \in 1..(a + b) : j = a + i
          OBVIOUS
        <4> QED BY <3>3, <4>1 DEF Elements
      <3>6. ASSUME NEW i \in 1..a PROVE flat[i] \in Elements(both)
        <4>1. i \in 1..(a + b)
          OBVIOUS
        <4> QED BY <3>3, <4>1 DEF Elements
      <3>7. /\ \A x : x \in Elements(both) <=> \E i \in 1..(a + b) : x = both[i]
            /\ \A x : x \in Elements(flat) <=> \E i \in 1..a : x = flat[i]
            /\ \A x : x \in Elements(items) <=> \E i \in 1..b : x = items[i]
        BY <3>1, <3>3 DEF Elements
      <3> QED BY <3>2, <3>4, <3>5, <3>6, <3>7
    <2>7. Elements(flat) = UNION {Elements(seqs[n]) : n \in 1..k}
      BY <1>2, <2>1, <2>4
    <2>8. UNION {Elements(more[n]) : n \in 1..(k + 1)} = (UNION {Elements(seqs[n]) : n \in 1..k}) \cup Elements(items)
      <3>1. \A n : n \in 1..(k + 1) <=> n \in 1..k \/ n = k + 1
        OBVIOUS
      <3> QED BY <2>3, <3>1
    <2>9. Elements(FlattenSeq(more)) = UNION {Elements(more[n]) : n \in 1..Len(more)}
      BY <2>3, <2>5, <2>6, <2>7, <2>8
    <2> QED BY <2>2, <2>3, <2>9
  <1> HIDE DEF P
  <1>3. \A seqs \in Seq(Seq(S)) : seqs \in P
    BY <1>1, <1>2, SequenceInduction
  <1> QED BY <1>3 DEF P

\* Each element once.
LEMMA DistinctKeeps ==
    ASSUME NEW S, NEW items \in Seq(S)
    PROVE  /\ Distinct(items) \in Seq(S) /\ Distinguished(Distinct(items))
           /\ Elements(Distinct(items)) = Elements(items)
  <1>1. PICK n \in Nat : n = Len(items) /\ DOMAIN items = 1..n
    OBVIOUS
  <1>2. PICK places : places = [k \in 1..n |-> k]
    OBVIOUS
  <1>3. PICK Good : Good = {k \in 1..n : \A m \in 1..k - 1 : items[m] # items[k]}
    OBVIOUS
  <1>4. places \in Seq(1..n) /\ Len(places) = n
    BY <1>2
  <1>5. Distinguished(places) /\ Elements(places) = 1..n
    BY <1>2, <1>4 DEF Distinguished, Elements
  <1>6. PICK firsts : firsts = Keep(places, Good)
    OBVIOUS
  <1>7. firsts \in Seq(1..n) /\ Distinguished(firsts) /\ Elements(firsts) = Good
    <2>1. firsts \in Seq(1..n)
      BY <1>4, <1>6, KeepSequence
    <2>2. Elements(firsts) = Elements(places) \cap Good /\ Distinguished(firsts)
      BY <1>4, <1>5, <1>6, KeepElements
    <2> QED BY <1>3, <1>5, <2>1, <2>2
  <1>8. PICK k \in Nat : k = Len(firsts) /\ DOMAIN firsts = 1..k /\ \A i \in 1..k : firsts[i] \in 1..n
    BY <1>7
  <1>9. Distinct(items) = [i \in 1..k |-> items[firsts[i]]]
    BY <1>1, <1>2, <1>3, <1>6, <1>8 DEF Distinct
  <1>10. PICK d : d = [i \in 1..k |-> items[firsts[i]]]
    OBVIOUS
  <1>11. d \in Seq(S) /\ Len(d) = k
    BY <1>1, <1>8, <1>10
  <1>12. Distinguished(d)
    <2> SUFFICES ASSUME NEW i \in 1..k, NEW j \in 1..k, d[i] = d[j] PROVE i = j
      BY <1>11 DEF Distinguished
    <2>1. PICK a \in 1..n, b \in 1..n : a = firsts[i] /\ b = firsts[j]
      BY <1>8
    <2>2. a \in Good /\ b \in Good /\ items[a] = items[b]
      BY <1>7, <1>8, <1>10, <2>1 DEF Elements
    <2>3. ~(a < b) /\ ~(b < a)
      BY <1>3, <2>2
    <2>4. a = b
      BY <2>3
    <2> QED BY <1>7, <1>8, <2>1, <2>4 DEF Distinguished
  <1>13. ASSUME NEW i \in 1..n PROVE \E j \in 1..k : d[j] = items[i]
    <2>1. PICK T : T = {m \in 1..n : items[m] = items[i]}
      OBVIOUS
    <2>2. T \in SUBSET Nat /\ T # {}
      <3>1. i \in T /\ \A m \in T : m \in Nat
        BY <2>1
      <3> QED BY <3>1
    <2>3. PICK m \in T : \A l \in T : m <= l
      BY <2>2, LeastElement
    <2>4. m \in 1..n /\ items[m] = items[i] /\ \A l \in 1..m - 1 : items[l] # items[m]
      BY <2>1, <2>3
    <2>5. m \in Good
      BY <1>3, <2>4
    <2>6. PICK j \in 1..k : firsts[j] = m
      BY <1>7, <1>8, <2>5 DEF Elements
    <2> QED BY <1>10, <2>4, <2>6
  <1>14. Elements(d) = Elements(items)
    BY <1>1, <1>8, <1>10, <1>11, <1>13 DEF Elements
  <1> QED BY <1>9, <1>10, <1>11, <1>12, <1>14

\* A lower place adds less to the score.
LEMMA ReciprocalsShrink ==
    ASSUME NEW u \in Nat \ {0}, NEW k \in Nat, NEW n \in Nat \ {0},
           u % (k + 1) = 0, u % (k + n) = 0, u \div (k + n) >= u \div (k + 1)
    PROVE  n = 1
  <1>1. PICK d \in Nat \ {0}, e \in Nat \ {0} : d = k + 1 /\ e = k + n
    OBVIOUS
  <1>2. PICK a, b : a = u \div d /\ b = u \div e
    OBVIOUS
  <1>3. a \in Nat /\ b \in Nat /\ u = a * d /\ u = b * e
    BY <1>1, <1>2
  <1>4. b >= a /\ a # 0
    BY <1>1, <1>2, <1>3
  <1>5. b * e >= a * e
    BY <1>3, <1>4, ProductGrows
  <1>6. PICK m \in Nat : n = m + 1
    <2>1. n - 1 \in Nat /\ n = (n - 1) + 1
      OBVIOUS
    <2> QED BY <2>1
  <1>7. a * e = a * d + a * m
    <2>1. e = d + m
      BY <1>1, <1>6
    <2> QED BY <1>3, <2>1
  <1>8. a * m <= 0
    <2>1. a * m \in Nat /\ a * d \in Nat /\ a * e \in Nat /\ b * e \in Nat
      BY <1>3
    <2> QED BY <1>3, <1>5, <1>7, <2>1
  <1>9. m = 0
    <2> SUFFICES ASSUME m >= 1 PROVE FALSE
      BY <1>6
    <2>1. m * a >= 1 * a
      BY <1>3, ProductGrows
    <2> QED BY <1>3, <1>4, <1>8, <2>1
  <1> QED BY <1>6, <1>9

\* Every path of the plan has ended with one of its lists, or with nothing.
Answered ==
    /\ plan \in Plans /\ plan.prefix = "" /\ ~late
    /\ \A p \in plan.paths : lists[p] \in Found[p] \cup {<<>>}

Asked == Keep(Paths, plan.paths)

LEMMA AskedPaths ==
    ASSUME plan \in Plans
    PROVE  /\ Asked \in Seq(plan.paths) /\ Distinguished(Asked) /\ Elements(Asked) = plan.paths
           /\ plan.paths \subseteq ToSet(Paths) /\ IsFiniteSet(plan.paths)
  <1>1. /\ Paths \in Seq(ToSet(Paths)) /\ Len(Paths) = 3 /\ DOMAIN Paths = 1..3
        /\ Paths[1] = "hybrid" /\ Paths[2] = "graph" /\ Paths[3] = "ltm"
    BY DEF Paths, ToSet
  <1>2. Distinguished(Paths) /\ Elements(Paths) = ToSet(Paths) /\ ToSet(Paths) = {Paths[1], Paths[2], Paths[3]}
    BY <1>1 DEF Distinguished, Elements, ToSet
  <1>3. plan.paths \subseteq ToSet(Paths)
    BY FusionAssumption
  <1>4. Asked \in Seq(ToSet(Paths) \cap plan.paths)
    BY <1>1, KeepType DEF Asked
  <1>5. Elements(Asked) = Elements(Paths) \cap plan.paths /\ Distinguished(Asked)
    BY <1>1, <1>2, KeepElements DEF Asked
  <1>6. IsFiniteSet(ToSet(Paths))
    <2>1. PICK a, b, c : a = Paths[1] /\ b = Paths[2] /\ c = Paths[3]
      OBVIOUS
    <2>2. IsFiniteSet({a}) /\ IsFiniteSet({b}) /\ IsFiniteSet({c})
      BY FS_Singleton
    <2>3. IsFiniteSet({a} \cup {b})
      BY <2>2, FS_Union
    <2>4. IsFiniteSet(({a} \cup {b}) \cup {c})
      BY <2>2, <2>3, FS_Union
    <2>5. ToSet(Paths) = ({a} \cup {b}) \cup {c}
      BY <1>2, <2>1
    <2> QED BY <2>4, <2>5
  <1>7. IsFiniteSet(plan.paths)
    BY <1>3, <1>6, FS_Subset
  <1>8. ToSet(Paths) \cap plan.paths = plan.paths
    BY <1>3
  <1> QED BY <1>2, <1>3, <1>4, <1>5, <1>7, <1>8

\* The items that were found, and the lists they are in.
AllFound == UNION {Elements(lists[p]) : p \in plan.paths}

LEMMA FoundLists ==
    ASSUME Answered
    PROVE  /\ \A p \in plan.paths :
                 /\ lists[p] \in Seq(AllFound) /\ Len(lists[p]) \in Nat /\ DOMAIN lists[p] = 1..Len(lists[p])
                 /\ \A n \in 1..Len(lists[p]) :
                       {"id", "score"} \subseteq DOMAIN lists[p][n] /\ RrfUnit % (RrfK + n) = 0
           /\ \A p, q \in plan.paths : \A m \in 1..Len(lists[p]), n \in 1..Len(lists[q]) :
                 lists[p][m].id = lists[q][n].id => p = q /\ m = n
  <1>1. plan.paths \subseteq ToSet(Paths)
    BY AskedPaths DEF Answered
  <1>2. Len(<<>>) = 0 /\ DOMAIN <<>> = 1..0 /\ \A S : <<>> \in Seq(S)
    OBVIOUS
  <1>3. ASSUME NEW p \in plan.paths
        PROVE  /\ lists[p] \in Seq(AllFound) /\ Len(lists[p]) \in Nat /\ DOMAIN lists[p] = 1..Len(lists[p])
               /\ \A n \in 1..Len(lists[p]) :
                     {"id", "score"} \subseteq DOMAIN lists[p][n] /\ RrfUnit % (RrfK + n) = 0
    <2>1. CASE lists[p] = <<>>
      BY <1>2, <2>1
    <2>2. CASE lists[p] \in Found[p]
      <3>1. PICK items : items = lists[p]
        OBVIOUS
      <3>2. /\ items \in Seq(ToSet(items))
            /\ \A n \in DOMAIN items : {"id", "score"} \subseteq DOMAIN items[n] /\ RrfUnit % (RrfK + n) = 0
        BY <1>1, <2>2, <3>1, FusionAssumption
      <3>3. Len(items) \in Nat /\ DOMAIN items = 1..Len(items)
        BY <3>2
      <3>4. ToSet(items) = Elements(items)
        BY <3>3 DEF ToSet, Elements
      <3>5. Elements(items) \subseteq AllFound
        BY <3>1 DEF AllFound
      <3>6. items \in Seq(AllFound)
        BY <3>2, <3>4, <3>5
      <3> QED BY <3>1, <3>2, <3>3, <3>6
    <2> QED BY <2>1, <2>2 DEF Answered
  <1>4. ASSUME NEW p \in plan.paths, NEW q \in plan.paths,
               NEW m \in 1..Len(lists[p]), NEW n \in 1..Len(lists[q]), lists[p][m].id = lists[q][n].id
        PROVE  p = q /\ m = n
    <2>1. lists[p] # <<>> /\ lists[q] # <<>>
      BY <1>2
    <2>2. lists[p] \in Found[p] /\ lists[q] \in Found[q] /\ (p # q \/ lists[p] = lists[q])
      BY <2>1 DEF Answered
    <2>3. m \in DOMAIN lists[p] /\ n \in DOMAIN lists[q]
      BY <1>3
    <2> QED BY <1>1, <1>4, <2>2, <2>3, IdsAreUnique
  <1> QED BY <1>3, <1>4

\* The lists that are fused.
LEMMA FusedLists ==
    ASSUME Answered
    PROVE  /\ Len(Asked) \in Nat /\ ResultLists = [n \in 1..Len(Asked) |-> lists[Asked[n]]]
           /\ ResultLists \in Seq(Seq(AllFound)) /\ Len(ResultLists) = Len(Asked)
           /\ \A n \in 1..Len(Asked) : Asked[n] \in plan.paths
  <1>1. PICK asked : asked = Keep(Paths, plan.paths)
    OBVIOUS
  <1>2. asked \in Seq(plan.paths)
    BY <1>1, AskedPaths DEF Answered, Asked
  <1>3. PICK k \in Nat : k = Len(asked) /\ DOMAIN asked = 1..k /\ \A n \in 1..k : asked[n] \in plan.paths
    BY <1>2
  <1>4. ResultLists = [n \in 1..k |-> lists[asked[n]]]
    BY <1>1, <1>3 DEF ResultLists, Answered
  <1>5. \A n \in 1..k : lists[asked[n]] \in Seq(AllFound)
    BY <1>3, FoundLists
  <1>6. PICK ss : ss = [n \in 1..k |-> lists[asked[n]]]
    OBVIOUS
  <1>7. ss \in Seq(Seq(AllFound)) /\ Len(ss) = k
    BY <1>5, <1>6
  <1> QED BY <1>1, <1>3, <1>4, <1>6, <1>7 DEF Asked

\* An item is in one list, and its score is what its place there adds.
LEMMA ScoreOfPlace ==
    ASSUME Answered, NEW q \in plan.paths, NEW i \in 1..Len(lists[q])
    PROVE  Rrf(lists[q][i]) = RrfUnit \div (RrfK + i)
  <1>1. PICK x : x = lists[q][i]
    OBVIOUS
  <1>2. PICK k \in Nat : /\ k = Len(Asked) /\ Len(ResultLists) = k /\ DOMAIN ResultLists = 1..k
                         /\ \A n \in 1..k : Asked[n] \in plan.paths /\ ResultLists[n] = lists[Asked[n]]
    <2>1. PICK ss : ss = ResultLists
      OBVIOUS
    <2>2. PICK l : l = Len(Asked)
      OBVIOUS
    <2>3. /\ l \in Nat /\ ss = [n \in 1..l |-> lists[Asked[n]]] /\ Len(ss) = l
          /\ \A n \in 1..l : Asked[n] \in plan.paths
      BY <2>1, <2>2, FusedLists
    <2> QED BY <2>1, <2>2, <2>3
  <1>3. PICK j \in 1..k : Asked[j] = q /\ \A n \in 1..k : Asked[n] = q => n = j
    <2>1. Elements(Asked) = plan.paths /\ Distinguished(Asked)
      BY AskedPaths DEF Answered
    <2> QED BY <1>2, <2>1 DEF Elements, Distinguished
  <1>4. \A n \in Nat : RrfUnit \div (RrfK + n) \in Int
    <2>1. \A n \in Nat : RrfK + n \in Nat \ {0}
      BY FusionAssumption
    <2> QED BY <2>1, FusionAssumption
  <1>5. ASSUME NEW n \in 1..k
        PROVE  Reciprocals(ResultLists[n], x) = IF n = j THEN RrfUnit \div (RrfK + i) ELSE 0
    <2>1. PICK items : items = lists[Asked[n]]
      OBVIOUS
    <2>2. PICK l \in Nat : l = Len(items) /\ DOMAIN items = 1..l
      BY <1>2, <2>1, FoundLists
    <2>3. \A m \in 1..l : items[m] = x => n = j /\ m = i
      <3> SUFFICES ASSUME NEW m \in 1..l, items[m] = x PROVE n = j /\ m = i
        OBVIOUS
      <3>1. lists[Asked[n]][m].id = lists[q][i].id /\ m \in 1..Len(lists[Asked[n]]) /\ Asked[n] \in plan.paths
        BY <1>1, <1>2, <2>1, <2>2
      <3>2. Asked[n] = q /\ m = i
        BY <3>1, FoundLists
      <3> QED BY <1>3, <3>2
    <2>4. n = j => l = Len(lists[q]) /\ items[i] = x
      BY <1>1, <1>3, <2>1, <2>2
    <2>5. PICK added : added = [m \in 1..l |-> IF items[m] = x THEN RrfUnit \div (RrfK + m) ELSE 0]
      OBVIOUS
    <2>6. Reciprocals(items, x) = Total(added)
      BY <2>2, <2>5 DEF Reciprocals
    <2>7. added \in Seq(Int) /\ Len(added) = l
      <3>1. \A m \in 1..l : RrfUnit \div (RrfK + m) \in Int
        BY <1>4
      <3>2. \A m \in 1..l : (IF items[m] = x THEN RrfUnit \div (RrfK + m) ELSE 0) \in Int
        BY <3>1
      <3> QED BY <2>5, <3>2
    <2>8. CASE n = j
      <3>1. i \in 1..Len(added) /\ added[i] = RrfUnit \div (RrfK + i)
        BY <2>4, <2>5, <2>7, <2>8
      <3>2. \A m \in 1..Len(added) : m # i => added[m] = 0
        BY <2>3, <2>5, <2>7
      <3>3. Total(added) = added[i]
        BY <2>7, <3>1, <3>2, SingleTotal
      <3> QED BY <1>2, <2>1, <2>6, <2>8, <3>1, <3>3
    <2>9. CASE n # j
      <3>1. \A m \in 1..l : added[m] = 0
        BY <2>3, <2>5, <2>9
      <3>2. Total(added) = 0
        <4>1. CASE l = 0
          <5>1. added = <<>>
            BY <2>7, <4>1
          <5> QED BY <5>1, TotalEmpty
        <4>2. CASE l # 0
          <5>1. PICK one \in 1..Len(added) : one = 1
            BY <2>7, <4>2
          <5>2. \A m \in 1..Len(added) : m # one => added[m] = 0
            BY <2>7, <3>1
          <5>3. Total(added) = added[one]
            BY <2>7, <5>2, SingleTotal
          <5> QED BY <2>7, <3>1, <5>3
        <4> QED BY <4>1, <4>2
      <3> QED BY <1>2, <2>1, <2>6, <2>9, <3>2
    <2> QED BY <2>8, <2>9
  <1>6. PICK sums : sums = [n \in 1..k |-> Reciprocals(ResultLists[n], x)]
    OBVIOUS
  <1>7. Rrf(x) = Total(sums)
    BY <1>2, <1>6 DEF Rrf
  <1>8. RrfUnit \div (RrfK + i) \in Int
    <2>1. i \in Nat
      BY FoundLists
    <2> QED BY <1>4, <2>1
  <1>9. sums \in Seq(Int) /\ Len(sums) = k /\ sums[j] = RrfUnit \div (RrfK + i)
        /\ \A n \in 1..k : n # j => sums[n] = 0
    <2>1. \A n \in 1..k : Reciprocals(ResultLists[n], x) \in Int
      BY <1>5, <1>8
    <2> QED BY <1>5, <1>6, <2>1
  <1>10. Total(sums) = sums[j]
    BY <1>9, SingleTotal
  <1> QED BY <1>1, <1>7, <1>9, <1>10

\* What is ranked stands for an item, under its id.
Ranking(x) == [x EXCEPT !.score = Rrf(x)]

\* The fusion, with names for its parts.
Original(all, item) == CHOOSE other \in ToSet(all) : other.id = item.id

LEMMA FusionParts ==
    ASSUME NEW all, all = Distinct(FlattenSeq(ResultLists)),
           NEW scored, scored = [n \in DOMAIN all |-> [all[n] EXCEPT !.score = Rrf(all[n])]],
           NEW ranked, ranked = Ranked(scored)
    PROVE  RrfFuse = [n \in DOMAIN First(2 * plan.topK, ranked) |->
                         [Original(all, ranked[n]) EXCEPT !.score = Blended(Original(all, ranked[n]))]]
  <1> DEFINE items == Distinct(FlattenSeq(ResultLists))
             scores == [n \in DOMAIN items |-> [items[n] EXCEPT !.score = Rrf(items[n])]]
             order == Ranked(scores)
  <1>1. RrfFuse = [n \in DOMAIN First(2 * plan.topK, order) |->
                      [Original(items, order[n]) EXCEPT !.score = Blended(Original(items, order[n]))]]
    BY DEF RrfFuse, Original
  <1>2. items = all /\ scores = scored /\ order = ranked
    OBVIOUS
  <1> HIDE DEF items, scores, order
  <1> QED BY <1>1, <1>2

\* The items in the order of their scores, each once.
LEMMA RankingOfFound ==
    ASSUME Answered
    PROVE  \E ranked : /\ \E S : ranked \in Seq(S)
                       /\ Elements(ranked) = {Ranking(x) : x \in AllFound}
                       /\ Distinguished(ranked)
                       /\ \A i, j \in 1..Len(ranked) : i < j => ranked[i].score >= ranked[j].score
                       /\ \E m \in Nat :
                            /\ m = Len(First(2 * plan.topK, ranked)) /\ RrfFuse \in Seq(ToSet(RrfFuse))
                            /\ Len(RrfFuse) = m /\ m = (IF 2 * plan.topK <= Len(ranked) THEN 2 * plan.topK ELSE Len(ranked))
                            /\ \A n \in 1..m : RrfFuse[n].id = ranked[n].id
  <1>1. PICK all : all = Distinct(FlattenSeq(ResultLists))
    OBVIOUS
  <1>2. all \in Seq(AllFound) /\ Distinguished(all) /\ Elements(all) = AllFound
    <2>1. PICK ss \in Seq(Seq(AllFound)) : ss = ResultLists
      BY FusedLists
    <2>2. PICK flat \in Seq(AllFound) : flat = FlattenSeq(ss)
      BY FlattenType
    <2>3. all \in Seq(AllFound) /\ Distinguished(all) /\ Elements(all) = Elements(flat)
      BY <1>1, <2>1, <2>2, DistinctKeeps
    <2>4. Elements(flat) = UNION {Elements(ss[n]) : n \in 1..Len(ss)}
      BY <2>2, FlattenElements
    <2>5. Len(ss) = Len(Asked) /\ \A n \in 1..Len(Asked) : ss[n] = lists[Asked[n]] /\ Asked[n] \in plan.paths
      BY <2>1, FusedLists
    <2>6. \A p \in plan.paths : \E n \in 1..Len(Asked) : Asked[n] = p
      <3>1. Elements(Asked) = plan.paths
        BY AskedPaths DEF Answered
      <3> QED BY <3>1 DEF Elements
    <2>7. PICK U : U = {Elements(ss[n]) : n \in 1..Len(ss)}
      OBVIOUS
    <2>8. UNION U = AllFound
      <3>1. PICK k : k = Len(Asked)
        OBVIOUS
      <3>2. \A e : e \in U <=> \E n \in 1..k : e = Elements(ss[n])
        BY <2>5, <2>7, <3>1
      <3>3. \A x : x \in AllFound <=> \E p \in plan.paths : x \in Elements(lists[p])
        BY DEF AllFound
      <3>4. ASSUME NEW e \in U, NEW x \in e PROVE x \in AllFound
        BY <2>5, <3>1, <3>2, <3>3
      <3>5. ASSUME NEW x \in AllFound PROVE \E e \in U : x \in e
        <4>1. PICK p \in plan.paths : x \in Elements(lists[p])
          BY <3>3
        <4>2. PICK n \in 1..k : Asked[n] = p
          BY <2>6, <3>1
        <4>3. Elements(ss[n]) = Elements(lists[p])
          BY <2>5, <3>1, <4>2
        <4> QED BY <3>2, <4>1, <4>3
      <3> QED BY <3>4, <3>5
    <2> QED BY <2>3, <2>4, <2>7, <2>8
  <1>3. ASSUME NEW x \in AllFound
        PROVE  /\ {"id", "score"} \subseteq DOMAIN x
               /\ Ranking(x).id = x.id /\ Ranking(x).score = Rrf(x) /\ Rrf(x) \in Int
               /\ \A y \in AllFound : y.id = x.id => y = x
    <2>1. PICK p \in plan.paths : x \in Elements(lists[p])
      BY DEF AllFound
    <2>2. PICK i \in 1..Len(lists[p]) : x = lists[p][i]
      BY <2>1 DEF Elements
    <2>3. {"id", "score"} \subseteq DOMAIN x
      BY <2>2, FoundLists
    <2>4. Rrf(x) \in Int
      <3>1. Rrf(x) = RrfUnit \div (RrfK + i) /\ i \in Nat
        BY <2>2, ScoreOfPlace, FoundLists
      <3>2. RrfK + i \in Nat \ {0}
        BY <3>1, FusionAssumption
      <3> QED BY <3>1, <3>2, FusionAssumption
    <2>5. Ranking(x).id = x.id /\ Ranking(x).score = Rrf(x)
      BY <2>3 DEF Ranking
    <2>6. ASSUME NEW y \in AllFound, y.id = x.id PROVE y = x
      <3>1. PICK q \in plan.paths : y \in Elements(lists[q])
        BY DEF AllFound
      <3>2. PICK j \in 1..Len(lists[q]) : y = lists[q][j]
        BY <3>1 DEF Elements
      <3>3. p = q /\ i = j
        BY <2>2, <2>6, <3>2, FoundLists
      <3> QED BY <2>2, <3>2, <3>3
    <2> QED BY <2>3, <2>4, <2>5, <2>6
  <1>4. PICK k \in Nat : k = Len(all) /\ DOMAIN all = 1..k /\ \A n \in 1..k : all[n] \in AllFound
    BY <1>2
  <1>5. PICK scored : scored = [n \in 1..k |-> Ranking(all[n])]
    OBVIOUS
  <1>6. PICK S : S = ToSet(scored)
    OBVIOUS
  <1>7. scored \in Seq(S) /\ Len(scored) = k /\ S = {Ranking(x) : x \in AllFound} /\ Elements(scored) = S
    <2>1. DOMAIN scored = 1..k
      BY <1>5
    <2>2. S = {Ranking(all[n]) : n \in 1..k}
      BY <1>5, <1>6, <2>1 DEF ToSet
    <2>3. AllFound = {all[n] : n \in 1..k}
      BY <1>2, <1>4 DEF Elements
    <2>4. S = {Ranking(x) : x \in AllFound}
      BY <2>2, <2>3
    <2>5. scored \in Seq(S) /\ Len(scored) = k
      BY <1>5, <2>2
    <2> QED BY <1>5, <2>2, <2>4, <2>5 DEF Elements
  <1>8. Distinguished(scored)
    <2> SUFFICES ASSUME NEW i \in 1..k, NEW j \in 1..k, scored[i] = scored[j] PROVE i = j
      BY <1>7 DEF Distinguished
    <2>1. Ranking(all[i]) = Ranking(all[j])
      BY <1>5
    <2>2. all[i].id = all[j].id
      BY <1>3, <1>4, <2>1
    <2>3. all[i] = all[j]
      BY <1>3, <1>4, <2>2
    <2> QED BY <1>2, <1>4, <2>3 DEF Distinguished
  <1>9. PICK Order : Order = {pair \in S \X S : pair[1].score >= pair[2].score}
    OBVIOUS
  <1>10. \A e \in S : e.score \in Int
    BY <1>3, <1>7
  <1>11. \A e, f \in S : <<e, f>> \in Order <=> e.score >= f.score
    BY <1>9
  <1>12. Ordering(S, Order)
    BY <1>10, <1>11 DEF Ordering
  <1>13. PICK ranked : ranked = Ranked(scored)
    OBVIOUS
  <1>14. ranked = StableSort(scored, Order)
    BY <1>6, <1>9, <1>13 DEF Ranked
  <1>15. ranked \in Seq(S) /\ Sorted(ranked, Order) /\ Elements(ranked) = S /\ Distinguished(ranked)
    BY <1>7, <1>8, <1>12, <1>14, StableSortSorts
  <1>16. \A i, j \in 1..Len(ranked) : i < j => ranked[i].score >= ranked[j].score
    <2>1. \A i \in 1..Len(ranked) : ranked[i] \in S
      BY <1>15
    <2> QED BY <1>11, <1>15, <2>1 DEF Sorted
  <1>17. 2 * plan.topK \in Nat
    <2>1. plan.topK \in Nat
      BY FusionAssumption DEF Answered
    <2> QED BY <2>1
  <1>18. PICK cut : cut = First(2 * plan.topK, ranked)
    OBVIOUS
  <1>19. PICK m \in Nat : /\ m = Len(cut) /\ DOMAIN cut = 1..m /\ m <= Len(ranked)
                          /\ m = (IF 2 * plan.topK <= Len(ranked) THEN 2 * plan.topK ELSE Len(ranked))
    <2>1. cut \in Seq(S) /\ Len(cut) = (IF 2 * plan.topK <= Len(ranked) THEN 2 * plan.topK ELSE Len(ranked))
      BY <1>15, <1>17, <1>18, FirstOf
    <2> QED BY <1>15, <1>17, <2>1
  <1> DEFINE original(item) == Original(all, item)
  <1>20. RrfFuse = [n \in 1..m |-> [original(ranked[n]) EXCEPT !.score = Blended(original(ranked[n]))]]
    <2>1. scored = [n \in DOMAIN all |-> [all[n] EXCEPT !.score = Rrf(all[n])]]
      BY <1>4, <1>5 DEF Ranking
    <2>3. RrfFuse = [n \in DOMAIN First(2 * plan.topK, ranked) |->
                         [Original(all, ranked[n]) EXCEPT !.score = Blended(Original(all, ranked[n]))]]
      BY <1>1, <1>13, <2>1, FusionParts
    <2> QED BY <1>18, <1>19, <2>3
  <1>21. ASSUME NEW n \in 1..m
         PROVE  [original(ranked[n]) EXCEPT !.score = Blended(original(ranked[n]))].id = ranked[n].id
    <2>1. ranked[n] \in S
      BY <1>15, <1>19
    <2>2. PICK x \in AllFound : ranked[n] = Ranking(x)
      BY <1>7, <2>1
    <2>3. x \in ToSet(all) /\ x.id = ranked[n].id /\ ToSet(all) = AllFound
      BY <1>2, <1>3, <1>4, <2>2 DEF ToSet, Elements
    <2>4. original(ranked[n]) \in AllFound /\ original(ranked[n]).id = ranked[n].id
      BY <2>3 DEF Original
    <2>5. PICK o : o = original(ranked[n])
      OBVIOUS
    <2>6. {"id", "score"} \subseteq DOMAIN o /\ o.id = ranked[n].id
      BY <1>3, <2>4, <2>5
    <2>7. [o EXCEPT !.score = Blended(o)].id = o.id
      BY <2>6
    <2> QED BY <2>5, <2>6, <2>7
  <1> HIDE DEF original
  <1>22. PICK fusion : fusion = RrfFuse
    OBVIOUS
  <1>23. Len(fusion) = m /\ fusion \in Seq(ToSet(fusion)) /\ \A n \in 1..m : fusion[n].id = ranked[n].id
    <2>1. DOMAIN fusion = 1..m /\ fusion = [n \in 1..m |-> fusion[n]]
      BY <1>20, <1>22
    <2>2. \A n \in 1..m : fusion[n] \in ToSet(fusion)
      BY <2>1 DEF ToSet
    <2>3. Len(fusion) = m /\ fusion \in Seq(ToSet(fusion))
      BY <2>1, <2>2
    <2> QED BY <1>20, <1>21, <1>22, <2>3
  <1> QED BY <1>7, <1>15, <1>16, <1>18, <1>19, <1>22, <1>23

\* The best item of a path is among the first of the fusion: only the best items of the
\* other paths can have as good a score.
LEMMA BestIsFused ==
    ASSUME Answered, NEW p \in plan.paths, lists[p] # <<>>, Cardinality(plan.paths) <= plan.topK
    PROVE  \E k \in 1..Len(RrfFuse) : k <= plan.topK /\ RrfFuse[k].id = lists[p][1].id
  <1>1. 1 \in 1..Len(lists[p])
    <2>1. PICK items \in Seq(AllFound) : items = lists[p]
      BY FoundLists
    <2>2. Len(items) \in Nat /\ Len(items) # 0
      BY <2>1
    <2> QED BY <2>1, <2>2
  <1>2. PICK x : x = lists[p][1]
    OBVIOUS
  <1>3. x \in AllFound
    BY <1>1, <1>2 DEF AllFound, Elements
  <1>4. PICK ranked : /\ \E S : ranked \in Seq(S)
                      /\ Elements(ranked) = {Ranking(y) : y \in AllFound}
                      /\ Distinguished(ranked)
                      /\ \A i, j \in 1..Len(ranked) : i < j => ranked[i].score >= ranked[j].score
                      /\ \E m \in Nat :
                           /\ m = Len(First(2 * plan.topK, ranked)) /\ RrfFuse \in Seq(ToSet(RrfFuse))
                           /\ Len(RrfFuse) = m
                           /\ m = (IF 2 * plan.topK <= Len(ranked) THEN 2 * plan.topK ELSE Len(ranked))
                           /\ \A n \in 1..m : RrfFuse[n].id = ranked[n].id
    BY RankingOfFound
  <1>5. \A y \in AllFound : Ranking(y).id = y.id /\ Ranking(y).score = Rrf(y)
    <2> SUFFICES ASSUME NEW y \in AllFound PROVE Ranking(y).id = y.id /\ Ranking(y).score = Rrf(y)
      OBVIOUS
    <2>1. PICK q \in plan.paths : y \in Elements(lists[q])
      BY DEF AllFound
    <2>2. PICK i \in 1..Len(lists[q]) : y = lists[q][i]
      BY <2>1 DEF Elements
    <2>3. {"id", "score"} \subseteq DOMAIN y
      BY <2>2, FoundLists
    <2> QED BY <2>3 DEF Ranking
  <1>6. PICK l \in Nat : l = Len(ranked)
    BY <1>4
  <1>7. PICK k \in 1..l : ranked[k] = Ranking(x)
    BY <1>3, <1>4, <1>6 DEF Elements
  <1>8. \A n \in Nat \ {0} : RrfK + n \in Nat \ {0} /\ RrfUnit \div (RrfK + n) \in Nat
    <2>1. \A n \in Nat \ {0} : RrfK + n \in Nat \ {0}
      BY FusionAssumption
    <2> QED BY <2>1, FusionAssumption
  <1>9. ASSUME NEW n \in 1..k
        PROVE  \E q \in plan.paths : ranked[n] = Ranking(lists[q][1])
    <2>1. n \in 1..l /\ n <= k
      BY <1>6
    <2>2. PICK y \in AllFound : ranked[n] = Ranking(y)
      BY <1>4, <1>6, <2>1 DEF Elements
    <2>3. PICK q \in plan.paths : y \in Elements(lists[q])
      BY DEF AllFound
    <2>4. PICK i \in 1..Len(lists[q]) : y = lists[q][i]
      BY <2>3 DEF Elements
    <2>5. i \in Nat \ {0} /\ RrfUnit % (RrfK + i) = 0 /\ RrfUnit % (RrfK + 1) = 0
      <3>1. i \in Nat \ {0}
        BY FoundLists
      <3> QED BY <1>1, <3>1, FoundLists
    <2>6. Rrf(y) = RrfUnit \div (RrfK + i) /\ Rrf(x) = RrfUnit \div (RrfK + 1)
      BY <1>1, <1>2, <2>4, ScoreOfPlace
    <2>7. ranked[n].score = Rrf(y) /\ ranked[k].score = Rrf(x)
      BY <1>3, <1>5, <1>7, <2>2
    <2>8. RrfUnit \div (RrfK + i) >= RrfUnit \div (RrfK + 1)
      <3>1. CASE n < k
        BY <1>4, <1>6, <2>1, <2>6, <2>7, <3>1
      <3>2. CASE n = k
        <4>1. RrfUnit \div (RrfK + i) = RrfUnit \div (RrfK + 1)
          BY <2>6, <2>7, <3>2
        <4>2. RrfUnit \div (RrfK + 1) \in Nat
          BY <1>8
        <4> QED BY <4>1, <4>2
      <3> QED BY <2>1, <3>1, <3>2
    <2>9. i = 1
      BY <2>5, <2>8, ReciprocalsShrink, FusionAssumption
    <2> QED BY <2>2, <2>4, <2>9
  <1>10. PICK path : path = [n \in 1..k |-> CHOOSE q \in plan.paths : ranked[n] = Ranking(lists[q][1])]
    OBVIOUS
  <1>11. \A n \in 1..k : path[n] \in plan.paths /\ ranked[n] = Ranking(lists[path[n]][1])
    BY <1>9, <1>10
  <1>12. path \in Injection(1..k, plan.paths)
    <2>1. path \in [1..k -> plan.paths]
      BY <1>10, <1>11
    <2>2. ASSUME NEW i \in 1..k, NEW j \in 1..k, path[i] = path[j] PROVE i = j
      <3>1. ranked[i] = ranked[j] /\ i \in 1..l /\ j \in 1..l
        BY <1>6, <1>11, <2>2
      <3> QED BY <1>4, <1>6, <3>1 DEF Distinguished
    <2> QED BY <2>1, <2>2 DEF Injection, IsInjective
  <1>13. k <= Cardinality(plan.paths)
    <2>1. IsFiniteSet(plan.paths)
      BY AskedPaths DEF Answered
    <2>2. Cardinality(1..k) <= Cardinality(plan.paths)
      BY <1>12, <2>1, FS_Injection
    <2>3. Cardinality(1..k) = k
      <3>1. k \in Int /\ 1 \in Int /\ k >= 1
        BY <1>6
      <3> QED BY <3>1, FS_Interval
    <2> QED BY <2>2, <2>3
  <1>14. k <= plan.topK /\ plan.topK \in Nat
    <2>1. plan.topK \in Nat /\ Cardinality(plan.paths) \in Nat
      BY FusionAssumption, FS_CardinalityType, AskedPaths DEF Answered
    <2> QED BY <1>6, <1>13, <2>1
  <1>15. PICK m \in Nat : /\ Len(RrfFuse) = m /\ m = (IF 2 * plan.topK <= l THEN 2 * plan.topK ELSE l)
                          /\ \A n \in 1..m : RrfFuse[n].id = ranked[n].id
    BY <1>4, <1>6
  <1>16. k \in 1..m
    BY <1>6, <1>14, <1>15
  <1>17. RrfFuse[k].id = x.id
    BY <1>3, <1>5, <1>7, <1>15, <1>16
  <1> QED BY <1>2, <1>14, <1>15, <1>16, <1>17

\* The best items of the paths are among the first of some items.
BestAmong(items) ==
    /\ items \in Seq(ToSet(items))
    /\ \A p \in plan.paths : lists[p] # <<>> =>
          \E k \in 1..Len(items) : k <= plan.topK /\ items[k].id = lists[p][1].id

\* While the paths are asked, nothing else happens; then the lists stay what they are.
FusionInv ==
    /\ plan \in Plans
    /\ \A p \in plan.paths : lists[p] \in Found[p] \cup {<<>>, Unknown}
    /\ phase \in {"asking", "fused", "found"}
    /\ phase # "asking" /\ ~late => \A p \in plan.paths : lists[p] # Unknown
    /\ phase = "fused" /\ ~late /\ plan.prefix = "" /\ Cardinality(plan.paths) <= plan.topK => BestAmong(fused)
    /\ BestOfEachPathIsFound

\* A path that ends, and the timeout of all, change what has been found only.
LEMMA AskingInv ==
    ASSUME FusionInv, phase = "asking", UNCHANGED <<plan, phase>>,
           \A q \in plan.paths : lists'[q] = lists[q] \/ lists'[q] \in Found[q] \cup {<<>>}
    PROVE  FusionInv'
  <1>1. phase' = "asking" /\ plan' = plan
    OBVIOUS
  <1>2. \A q \in plan.paths : lists'[q] \in Found[q] \cup {<<>>, Unknown}
    BY DEF FusionInv
  <1> QED BY <1>1, <1>2 DEF FusionInv, BestOfEachPathIsFound, Unknown

\* Every step of the coordinator keeps the best items.
LEMMA CoordinatorInv == FusionInv /\ FusionNext => FusionInv'
  <1> SUFFICES ASSUME FusionInv, FusionNext PROVE FusionInv'
    OBVIOUS
  <1>0. plan \in Plans /\ \A p \in plan.paths : lists[p] \in Found[p] \cup {<<>>, Unknown}
    BY DEF FusionInv
  <1>1. ASSUME NEW p \in ToSet(Paths), PathEnds(p) PROVE FusionInv'
    <2>1. PICK items \in Found[p] : lists' = [lists EXCEPT ![p] = items]
      BY <1>1 DEF PathEnds
    <2>2. \A q \in plan.paths : lists'[q] = lists[q] \/ lists'[q] \in Found[q] \cup {<<>>}
      BY <2>1
    <2>3. phase = "asking" /\ UNCHANGED <<plan, phase>>
      BY <1>1 DEF PathEnds
    <2> QED BY <2>2, <2>3, AskingInv
  <1>2. ASSUME NEW p \in ToSet(Paths), PathFails(p) PROVE FusionInv'
    <2>1. lists' = [lists EXCEPT ![p] = <<>>]
      BY <1>2 DEF PathFails
    <2>2. \A q \in plan.paths : lists'[q] = lists[q] \/ lists'[q] \in Found[q] \cup {<<>>}
      BY <2>1
    <2>3. phase = "asking" /\ UNCHANGED <<plan, phase>>
      BY <1>2 DEF PathFails
    <2> QED BY <2>2, <2>3, AskingInv
  <1>3. CASE TimeoutDropsAll
    <2>1. phase = "asking" /\ UNCHANGED <<plan, phase>> /\ lists' = lists
      BY <1>3 DEF TimeoutDropsAll
    <2> QED BY <2>1, AskingInv
  <1>4. CASE Fuse
    <2>1. /\ phase' = "fused" /\ fused' = RrfFuse /\ plan' = plan /\ lists' = lists /\ late' = late
          /\ late \/ \A p \in plan.paths : lists[p] # Unknown
      BY <1>4 DEF Fuse
    <2>2. ASSUME ~late, plan.prefix = "", Cardinality(plan.paths) <= plan.topK PROVE BestAmong(fused)'
      <3>1. Answered
        BY <1>0, <2>1, <2>2 DEF Answered
      <3>2. RrfFuse \in Seq(ToSet(RrfFuse))
        BY <3>1, RankingOfFound
      <3>3. \A p \in plan.paths : lists[p] # <<>> =>
               \E k \in 1..Len(RrfFuse) : k <= plan.topK /\ RrfFuse[k].id = lists[p][1].id
        BY <2>2, <3>1, BestIsFused
      <3>4. PICK fusion : fusion = RrfFuse
        OBVIOUS
      <3> QED BY <2>1, <3>2, <3>3, <3>4 DEF BestAmong
    <2>3. BestOfEachPathIsFound'
      BY <2>1 DEF BestOfEachPathIsFound
    <2> QED BY <1>0, <2>1, <2>2, <2>3 DEF FusionInv
  <1>5. CASE Answer
    <2>1. /\ phase = "fused" /\ phase' = "found" /\ plan' = plan /\ lists' = lists /\ late' = late
          /\ \E items \in Reranked : fused' = First(plan.topK, Conditioned(items, plan.task, plan.role))
      BY <1>5 DEF Answer
    <2>2. ~late => \A p \in plan.paths : lists[p] # Unknown
      BY <2>1 DEF FusionInv
    <2>3. BestOfEachPathIsFound'
      <3> SUFFICES ASSUME ~late, ~plan.rerank, plan.task = "", plan.role = "", plan.prefix = "",
                          Cardinality(plan.paths) <= plan.topK,
                          NEW p \in plan.paths, lists[p] # <<>>
                   PROVE  \E item \in ToSet(fused') : item.id = lists[p][1].id
        BY <2>1 DEF BestOfEachPathIsFound
      <3>1. BestAmong(fused)
        BY <2>1 DEF FusionInv
      <3>2. fused' = First(plan.topK, fused)
        BY <2>1 DEF Reranked, Conditioned
      <3>3. plan.topK \in Nat
        BY <1>0, FusionAssumption
      <3>4. PICK k \in 1..Len(fused) : k <= plan.topK /\ fused[k].id = lists[p][1].id
        BY <3>1 DEF BestAmong
      <3>5. PICK items, S : items = fused /\ S = ToSet(fused)
        OBVIOUS
      <3>6. items \in Seq(S)
        BY <3>1, <3>5 DEF BestAmong
      <3>7. items[k] \in ToSet(First(plan.topK, items))
        BY <3>3, <3>4, <3>5, <3>6, FirstHolds
      <3> QED BY <3>2, <3>4, <3>5, <3>7
    <2> QED BY <1>0, <2>1, <2>2, <2>3 DEF FusionInv
  <1> QED BY <1>1, <1>2, <1>3, <1>4, <1>5 DEF FusionNext

\* However long the lists are and whichever paths fail, the best item of each path that
\* answered in time is in the answer, unless something ranks the fusion again.
THEOREM BestFound == Spec => []BestOfEachPathIsFound
  <1>1. Init => FusionInv
    <2> SUFFICES ASSUME Init PROVE FusionInv
      OBVIOUS
    <2>1. /\ plan \in Plans /\ phase = "asking"
          /\ lists = [p \in ToSet(Paths) |-> Unknown]
      BY DEF Init, FusionInit
    <2>2. \A p \in plan.paths : lists[p] = Unknown
      <3>1. plan.paths \subseteq ToSet(Paths)
        BY <2>1, FusionAssumption
      <3> QED BY <2>1, <3>1
    <2> QED BY <2>1, <2>2 DEF FusionInv, BestOfEachPathIsFound
  <1>2. FusionInv /\ [Next]_vars => FusionInv'
    <2> SUFFICES ASSUME FusionInv, [Next]_vars PROVE FusionInv'
      OBVIOUS
    <2>1. CASE FusionNext
      BY <2>1, CoordinatorInv
    <2>2. CASE UNCHANGED fusionVars
      BY <2>2 DEF fusionVars, FusionInv, BestOfEachPathIsFound, BestAmong, Unknown
    <2> QED BY <2>1, <2>2 DEF Next, Search, Coordinate, Govern, vars
  <1>3. FusionInv => BestOfEachPathIsFound
    BY DEF FusionInv
  <1> QED BY <1>1, <1>2, <1>3, PTL DEF Spec
=============================================================================
