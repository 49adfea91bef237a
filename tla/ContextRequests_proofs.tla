----------------------- MODULE ContextRequests_proofs -----------------------
(***************************************************************************)
(* What a request for context, a compaction and a compression promise, for *)
(* all items the sources may hold, all policies, budgets and strategies;   *)
(* and what the calls of OpenClawPlugins leave behind, for all sessions,   *)
(* wirings, sizes of the queue and numbers of calls.                       *)
(*                                                                         *)
(* The two specifications have no variable in common: the second part      *)
(* starts at "OpenClaw" below and uses nothing of the first.               *)
(***************************************************************************)
EXTENDS ContextRequests, OpenClawPlugins, SequenceFilters_proofs, TLAPS

-----------------------------------------------------------------------------
(* The tokens of a list.                                                   *)

LEMMA TokensOfItem == \A item \in ContextItems : Tokens(item) \in Nat
  <1>1. \A n \in Nat : n \div 4 \in Nat
    OBVIOUS
  <1>2. \A item \in ContextItems : item.len \in Nat
    BY DEF ContextItems
  <1> QED BY <1>1, <1>2 DEF Tokens

LEMMA TokensEmpty == TotalTokens(<<>>) = 0
  <1>1. [n \in DOMAIN <<>> |-> Tokens(<<>>[n])] = <<>>
    OBVIOUS
  <1> QED BY <1>1, TotalEmpty DEF TotalTokens

LEMMA TokensAppend ==
    ASSUME NEW s \in Seq(ContextItems), NEW e \in ContextItems
    PROVE  /\ TotalTokens(s) \in Nat
           /\ TotalTokens(Append(s, e)) = TotalTokens(s) + Tokens(e)
  <1>1. PICK a : a = [n \in DOMAIN s |-> Tokens(s[n])]
    OBVIOUS
  <1>2. a \in Seq(Nat) /\ Len(a) = Len(s) /\ a \in Seq(Int)
    <2>1. DOMAIN s = 1..Len(s) /\ Len(s) \in Nat /\ \A n \in 1..Len(s) : s[n] \in ContextItems
      OBVIOUS
    <2>2. \A n \in 1..Len(s) : a[n] \in Nat
      BY <1>1, <2>1, TokensOfItem
    <2> QED BY <1>1, <2>1, <2>2
  <1>3. PICK d : d = Tokens(e)
    OBVIOUS
  <1>4. d \in Nat /\ d \in Int
    BY <1>3, TokensOfItem
  <1>5. PICK t : t = Append(s, e)
    OBVIOUS
  <1>6. [n \in DOMAIN t |-> Tokens(t[n])] = Append(a, d)
    <2>1. DOMAIN t = 1..(Len(s) + 1) /\ DOMAIN s = 1..Len(s) /\ Len(s) \in Nat
          /\ t[Len(s) + 1] = e /\ \A n \in 1..Len(s) : t[n] = s[n]
      BY <1>5
    <2>2. PICK b : b = Append(a, d)
      OBVIOUS
    <2>3. b \in Seq(Nat) /\ DOMAIN b = 1..(Len(s) + 1) /\ b[Len(s) + 1] = d
          /\ \A n \in 1..Len(s) : b[n] = a[n]
      BY <1>2, <1>4, <2>1, <2>2
    <2>4. b = [n \in DOMAIN b |-> b[n]]
      BY <2>3
    <2>5. \A n \in 1..(Len(s) + 1) : Tokens(t[n]) = b[n]
      BY <1>1, <1>3, <2>1, <2>3
    <2> QED BY <2>1, <2>2, <2>3, <2>4, <2>5
  <1>7. Total(Append(a, d)) = Total(a) + d
    BY <1>2, <1>4, TotalAppend
  <1>8. Total(a) \in Nat
    BY <1>2, TotalType
  <1> QED BY <1>1, <1>3, <1>5, <1>6, <1>7, <1>8 DEF TotalTokens

LEMMA TokensOfItems == \A s \in Seq(ContextItems) : TotalTokens(s) \in Nat
  <1> DEFINE P == {s \in Seq(ContextItems) : TotalTokens(s) \in Nat}
  <1>1. <<>> \in P
    <2>1. <<>> \in Seq(ContextItems) /\ 0 \in Nat
      OBVIOUS
    <2> QED BY <2>1, TokensEmpty
  <1>2. ASSUME NEW s \in Seq(ContextItems), NEW e \in ContextItems, s \in P PROVE Append(s, e) \in P
    <2>1. Append(s, e) \in Seq(ContextItems)
      OBVIOUS
    <2>2. TotalTokens(Append(s, e)) = TotalTokens(s) + Tokens(e) /\ TotalTokens(s) \in Nat /\ Tokens(e) \in Nat
      BY TokensAppend, TokensOfItem
    <2>3. TotalTokens(Append(s, e)) \in Nat
      BY <2>2
    <2> QED BY <2>1, <2>3
  <1> HIDE DEF P
  <1>3. \A s \in Seq(ContextItems) : s \in P
    BY <1>1, <1>2, SequenceInduction
  <1> QED BY <1>3 DEF P

\* A policy that hides items adds no token.
LEMMA KeepTokens ==
    ASSUME NEW Good
    PROVE  \A s \in Seq(ContextItems) : TotalTokens(Keep(s, Good)) <= TotalTokens(s)
  <1> DEFINE P == {s \in Seq(ContextItems) : TotalTokens(Keep(s, Good)) <= TotalTokens(s)}
  <1>1. <<>> \in P
    <2>1. <<>> \in Seq(ContextItems) /\ 0 <= 0
      OBVIOUS
    <2> QED BY <2>1, KeepEmpty, TokensEmpty
  <1>2. ASSUME NEW s \in Seq(ContextItems), NEW e \in ContextItems, s \in P PROVE Append(s, e) \in P
    <2>1. Append(s, e) \in Seq(ContextItems)
      OBVIOUS
    <2>2. PICK r \in Seq(ContextItems) : r = Keep(s, Good)
      BY KeepSequence
    <2>3. TotalTokens(Append(s, e)) = TotalTokens(s) + Tokens(e) /\ TotalTokens(s) \in Nat /\ Tokens(e) \in Nat
      BY TokensAppend, TokensOfItem
    <2>4. TotalTokens(Append(r, e)) = TotalTokens(r) + Tokens(e) /\ TotalTokens(r) \in Nat
      BY TokensAppend
    <2>5. TotalTokens(r) <= TotalTokens(s)
      BY <1>2, <2>2
    <2>6. Keep(Append(s, e), Good) = Append(r, e) \/ Keep(Append(s, e), Good) = r
      BY <2>2, KeepAppend
    <2>7. TotalTokens(Keep(Append(s, e), Good)) <= TotalTokens(Append(s, e))
      <3>1. \A a, b, d \in Nat : a <= b => a <= b + d /\ a + d <= b + d
        OBVIOUS
      <3>2. TotalTokens(r) <= TotalTokens(Append(s, e)) /\ TotalTokens(Append(r, e)) <= TotalTokens(Append(s, e))
        BY <2>3, <2>4, <2>5, <3>1
      <3> QED BY <2>6, <3>2
    <2> QED BY <2>1, <2>7
  <1> HIDE DEF P
  <1>3. \A s \in Seq(ContextItems) : s \in P
    BY <1>1, <1>2, SequenceInduction
  <1> QED BY <1>3 DEF P

\* The selection is a beginning of the items that fits into the budget.
LEMMA SelectionFits ==
    ASSUME NEW items \in Seq(ContextItems), request.budget \in Nat
    PROVE  \E n \in 0..Len(items) : /\ WithinBudget(items) = SubSeq(items, 1, n)
                                    /\ TotalTokens(WithinBudget(items)) <= request.budget
  <1> DEFINE T == {k \in 0..Len(items) : TotalTokens(SubSeq(items, 1, k)) <= request.budget}
  <1>1. Len(items) \in Nat /\ T \in SUBSET (0..Len(items))
    OBVIOUS
  <1>2. 0 \in T
    <2>1. SubSeq(items, 1, 0) = <<>>
      OBVIOUS
    <2>a. 0 <= request.budget
      OBVIOUS
    <2>2. TotalTokens(SubSeq(items, 1, 0)) <= request.budget
      BY <2>a, <2>1, TokensEmpty
    <2> QED BY <1>1, <2>2
  <1>3. WithinBudget(items) = SubSeq(items, 1, Max(T))
    BY DEF WithinBudget
  <1> HIDE DEF T
  <1>4. Max(T) \in T
    BY <1>1, <1>2, GreatestElement
  <1> QED BY <1>3, <1>4 DEF T
-----------------------------------------------------------------------------
(* The order of the items.                                                 *)

\* A list of rules, each with its points.
Pointed(rules) == \E k \in Nat : DOMAIN rules = 1..k /\ \A n \in 1..k : rules[n][4] \in Int

LEMMA RulesArePointed == Pointed(TaskRules) /\ Pointed(RoleRules)
  <1>1. 30 \in Nat /\ 12 \in Nat
    OBVIOUS
  <1>2. DOMAIN TaskRules = 1..30
    BY DEF TaskRules
  <1>3. \A n \in 1..30 : TaskRules[n][4] \in Int
    BY DEF TaskRules
  <1>4. DOMAIN RoleRules = 1..12 /\ \A n \in 1..12 : RoleRules[n][4] \in Int
    BY DEF RoleRules
  <1> QED BY <1>1, <1>2, <1>3, <1>4 DEF Pointed

\* A list of points, some of which count, is a list of integers.
LEMMA PointsAreIntegers ==
    ASSUME NEW k \in Nat, NEW p, DOMAIN p = 1..k, p = [n \in 1..k |-> p[n]],
           NEW points, \A n \in 1..k : points[n] \in Int, \A n \in 1..k : p[n] = points[n] \/ p[n] = 0
    PROVE  Total(p) \in Int
  <1>1. \A n \in 1..k : p[n] \in Int
    OBVIOUS
  <1>2. p \in Seq(Int)
    BY <1>1
  <1> QED BY <1>2, TotalType

LEMMA PointsType ==
    ASSUME NEW rules, Pointed(rules), NEW name, NEW item
    PROVE  Points(rules, name, item) \in Int
  <1>1. PICK k \in Nat : DOMAIN rules = 1..k /\ \A n \in 1..k : rules[n][4] \in Int
    BY DEF Pointed
  <1>2. PICK p : p = [n \in DOMAIN rules |->
                        IF rules[n][1] = name /\ item[rules[n][2]] = rules[n][3] THEN rules[n][4] ELSE 0]
    OBVIOUS
  <1>3. PICK points : points = [n \in 1..k |-> rules[n][4]]
    OBVIOUS
  <1>4. \A n \in 1..k : points[n] \in Int /\ (p[n] = points[n] \/ p[n] = 0)
    BY <1>1, <1>2, <1>3
  <1>5. DOMAIN p = 1..k /\ p = [n \in 1..k |-> p[n]]
    BY <1>1, <1>2
  <1>6. Total(p) \in Int
    BY <1>4, <1>5, PointsAreIntegers
  <1> QED BY <1>2, <1>6 DEF Points

LEMMA ScoreType ==
    ASSUME NEW item \in ContextItems, NEW task, NEW role
    PROVE  ConditionedScore(item, task, role) \in Int
  <1>a. PICK marks : marks = MarkRules(task, role)
    OBVIOUS
  <1>1. PICK p : p = [n \in DOMAIN marks |->
                        IF marks[n][2] # "" /\ <<marks[n][1], marks[n][2]>> \in item.marks
                        THEN marks[n][3] ELSE 0]
    OBVIOUS
  <1>2. DOMAIN marks = 1..3 /\ \A n \in 1..3 : marks[n][3] \in Int
    BY <1>a DEF MarkRules
  <1>3. PICK k \in Nat : k = 3
    OBVIOUS
  <1>b. PICK points : points = [n \in 1..k |-> marks[n][3]]
    OBVIOUS
  <1>c. \A n \in 1..k : points[n] \in Int /\ (p[n] = points[n] \/ p[n] = 0)
    <2>1. ASSUME NEW n \in 1..k PROVE p[n] = marks[n][3] \/ p[n] = 0
      BY <1>1, <1>2, <1>3, Zenon
    <2> QED BY <1>2, <1>3, <1>b, <2>1
  <1>d. DOMAIN p = 1..k /\ p = [n \in 1..k |-> p[n]]
    BY <1>1, <1>2, <1>3
  <1>4. Total(p) \in Int
    BY <1>c, <1>d, PointsAreIntegers
  <1>5. Points(TaskRules, task, item) \in Int /\ Points(RoleRules, role, item) \in Int
    BY PointsType, RulesArePointed
  <1>6. Bonus(item, task, role) = Points(TaskRules, task, item) + Points(RoleRules, role, item) + Total(p)
    BY <1>a, <1>1 DEF Bonus
  <1>7. PICK score \in Int : score = item.score + Bonus(item, task, role)
    <2>1. item.score \in Int
      BY DEF ContextItems
    <2> QED BY <1>4, <1>5, <1>6, <2>1
  <1>8. PICK least \in Int : least = Min({100, score})
    <2>1. 100 \in Int
      OBVIOUS
    <2> QED BY <2>1, MinOfTwo
  <1>9. Max({0, least}) \in Int
    <2>1. 0 \in Int
      OBVIOUS
    <2> QED BY <2>1, MaxOfTwo
  <1> QED BY <1>7, <1>8, <1>9 DEF ConditionedScore

ByScore(s) == \A i, j \in 1..Len(s) : i < j => s[i].score >= s[j].score

\* No two places of the list have the same id.
IdsDiffer(s) == Distinguished(s) /\ \A x, y \in Elements(s) : x.id = y.id => x = y

\* The ranking has the items it is given, the best first.
LEMMA RankedSorts ==
    ASSUME NEW items \in Seq(ContextItems)
    PROVE  /\ Ranked(items) \in Seq(ContextItems) /\ ByScore(Ranked(items))
           /\ Elements(Ranked(items)) = Elements(items)
           /\ IdsDiffer(items) => IdsDiffer(Ranked(items))
  <1>1. PICK S : S = ToSet(items)
    OBVIOUS
  <1>2. PICK Order : Order = {pair \in S \X S : pair[1].score >= pair[2].score}
    OBVIOUS
  <1>3. S \subseteq ContextItems /\ items \in Seq(S)
    <2>1. DOMAIN items = 1..Len(items) /\ Len(items) \in Nat /\ \A n \in 1..Len(items) : items[n] \in ContextItems
      OBVIOUS
    <2>2. S = {items[n] : n \in 1..Len(items)}
      BY <1>1, <2>1 DEF ToSet
    <2> QED BY <2>1, <2>2
  <1>4. \A x \in S : x.score \in Int
    BY <1>3 DEF ContextItems
  <1>5. \A x, y \in S : <<x, y>> \in Order <=> x.score >= y.score
    BY <1>2
  <1>6. Ordering(S, Order)
    BY <1>4, <1>5 DEF Ordering
  <1>7. PICK r : r = Ranked(items)
    OBVIOUS
  <1>8. r = StableSort(items, Order)
    BY <1>1, <1>2, <1>7 DEF Ranked
  <1>9. r \in Seq(S) /\ Sorted(r, Order) /\ Elements(r) = Elements(items)
        /\ (Distinguished(items) => Distinguished(r))
    BY <1>3, <1>6, <1>8, StableSortSorts
  <1>10. ByScore(r)
    <2>1. \A i \in 1..Len(r) : r[i] \in S
      BY <1>9
    <2> QED BY <1>5, <1>9, <2>1 DEF ByScore, Sorted
  <1>11. r \in Seq(ContextItems)
    BY <1>3, <1>9
  <1> QED BY <1>7, <1>9, <1>10, <1>11 DEF IdsDiffer

\* The score of an item for a task and a role.
ScoreFor(item, task, role) ==
    IF task = "" /\ role = "" THEN item.score ELSE ConditionedScore(item, task, role)

\* Conditioning keeps the items but for their scores, and ranks them by these.
LEMMA ConditionedSorts ==
    ASSUME NEW items \in Seq(ContextItems), ByScore(items), IdsDiffer(items), NEW task, NEW role
    PROVE  /\ Conditioned(items, task, role) \in Seq(ContextItems)
           /\ ByScore(Conditioned(items, task, role)) /\ IdsDiffer(Conditioned(items, task, role))
           /\ \A x \in Elements(items) :
                [x EXCEPT !.score = ScoreFor(x, task, role)] \in Elements(Conditioned(items, task, role))
  <1>0. /\ Len(items) \in Nat /\ DOMAIN items = 1..Len(items)
        /\ \A n \in 1..Len(items) : items[n] \in ContextItems
        /\ Elements(items) \subseteq ContextItems
    BY DEF Elements
  <1>1. CASE task = "" /\ role = ""
    <2>1. \A x \in ContextItems : [x EXCEPT !.score = x.score] = x
      BY DEF ContextItems
    <2>2. \A x \in Elements(items) : [x EXCEPT !.score = ScoreFor(x, task, role)] = x
      BY <1>0, <1>1, <2>1 DEF ScoreFor
    <2> QED BY <1>1, <2>2 DEF Conditioned
  <1>2. CASE ~(task = "" /\ role = "")
    <2>1. PICK scored : scored = [n \in DOMAIN items |->
                                   [items[n] EXCEPT !.score = ConditionedScore(items[n], task, role)]]
      OBVIOUS
    <2>2. \A x \in ContextItems, v \in Int : [x EXCEPT !.score = v] \in ContextItems /\ [x EXCEPT !.score = v].id = x.id
      BY DEF ContextItems
    <2>3. \A x \in ContextItems : ConditionedScore(x, task, role) \in Int
      BY ScoreType
    <2>4. \A n \in 1..Len(items) :
             scored[n] = [items[n] EXCEPT !.score = ConditionedScore(items[n], task, role)]
             /\ scored[n] \in ContextItems /\ scored[n].id = items[n].id
      BY <1>0, <2>1, <2>2, <2>3
    <2>5. scored \in Seq(ContextItems) /\ Len(scored) = Len(items)
      BY <1>0, <2>1, <2>4
    <2>6. \A i, j \in 1..Len(items) : items[i].id = items[j].id => i = j
      BY DEF IdsDiffer, Distinguished, Elements
    <2>7. IdsDiffer(scored)
      <3>1. \A i, j \in 1..Len(scored) : scored[i].id = scored[j].id => i = j
        BY <2>4, <2>5, <2>6
      <3> QED BY <3>1 DEF IdsDiffer, Distinguished, Elements
    <2>8. Conditioned(items, task, role) = Ranked(scored)
      BY <1>2, <2>1 DEF Conditioned
    <2>9. \A x \in Elements(items) : [x EXCEPT !.score = ScoreFor(x, task, role)] \in Elements(scored)
      <3>1. \A x \in Elements(items) : \E n \in 1..Len(items) : x = items[n]
        BY DEF Elements
      <3>2. \A x : ScoreFor(x, task, role) = ConditionedScore(x, task, role)
        BY <1>2 DEF ScoreFor
      <3> QED BY <2>4, <2>5, <3>1, <3>2 DEF Elements
    <2> QED BY <2>5, <2>7, <2>8, <2>9, RankedSorts
  <1> QED BY <1>1, <1>2
-----------------------------------------------------------------------------
(* The deduplication.                                                      *)

\* One more item: it is appended, or compared with the one of its id.
LEMMA TakenStep ==
    ASSUME NEW kept \in Seq(ContextItems), IdsDiffer(kept), NEW e \in ContextItems
    PROVE  /\ Taken(kept, e) \in Seq(ContextItems) /\ IdsDiffer(Taken(kept, e))
           /\ \A x \in Elements(kept) :
                x.id # e.id \/ x.score >= e.score => x \in Elements(Taken(kept, e))
           /\ (\A x \in Elements(kept) : x.id = e.id => x = e \/ x.score < e.score)
                => e \in Elements(Taken(kept, e))
           /\ Elements(Taken(kept, e)) \subseteq Elements(kept) \cup {e}
  <1>1. PICK k \in Nat : k = Len(kept) /\ DOMAIN kept = 1..k /\ \A n \in 1..k : kept[n] \in ContextItems
    OBVIOUS
  <1>2. \A i, j \in 1..k : kept[i].id = kept[j].id => i = j
    BY <1>1 DEF IdsDiffer, Distinguished, Elements
  <1>3. \A x \in ContextItems : x.score \in Int
    BY DEF ContextItems
  <1>4. PICK t : t = Taken(kept, e)
    OBVIOUS
  <1>5. Elements(kept) = {kept[n] : n \in 1..k}
    BY <1>1 DEF Elements
  <1>6. CASE \E n \in 1..k : kept[n].id = e.id
    <2>1. PICK n \in 1..k : kept[n].id = e.id
      BY <1>6
    <2>2. t = [i \in 1..k |-> IF kept[i].id = e.id /\ e.score > kept[i].score THEN e ELSE kept[i]]
      BY <1>1, <1>4, <1>6 DEF Taken
    <2>3. \A i \in 1..k : i # n => t[i] = kept[i]
      BY <1>2, <2>1, <2>2
    <2>4. t[n] = IF e.score > kept[n].score THEN e ELSE kept[n]
      BY <2>1, <2>2
    <2>5. t \in Seq(ContextItems) /\ Len(t) = k
      <3>1. \A i \in 1..k : t[i] \in ContextItems
        BY <1>1, <2>3, <2>4
      <3> QED BY <2>2, <3>1
    <2>6. Elements(t) = {t[i] : i \in 1..k}
      BY <2>5 DEF Elements
    <2>7. \A i \in 1..k : t[i].id = kept[i].id
      BY <2>1, <2>3, <2>4
    <2>8. IdsDiffer(t)
      <3>1. \A i, j \in 1..k : t[i].id = t[j].id => i = j
        BY <1>2, <2>7
      <3> QED BY <2>5, <3>1 DEF IdsDiffer, Distinguished, Elements
    <2>9. ASSUME NEW x \in Elements(kept), x.id # e.id \/ x.score >= e.score PROVE x \in Elements(t)
      <3>1. PICK i \in 1..k : x = kept[i]
        BY <1>5
      <3>2. CASE i # n
        BY <2>3, <2>6, <3>1, <3>2
      <3>3. CASE i = n
        <4>1. kept[n].score \in Int /\ e.score \in Int /\ kept[n].score >= e.score
          BY <1>1, <1>3, <2>1, <2>9, <3>1, <3>3
        <4>2. t[n] = x
          BY <2>4, <3>1, <3>3, <4>1
        <4> QED BY <2>6, <4>2
      <3> QED BY <3>2, <3>3
    <2>10. ASSUME \A x \in Elements(kept) : x.id = e.id => x = e \/ x.score < e.score
           PROVE  e \in Elements(t)
      <3>1. kept[n] \in Elements(kept) /\ kept[n].score \in Int /\ e.score \in Int
        BY <1>1, <1>3, <1>5
      <3>2. kept[n] = e \/ kept[n].score < e.score
        BY <2>1, <2>10, <3>1
      <3>3. t[n] = e
        BY <2>4, <3>1, <3>2
      <3> QED BY <2>6, <3>3
    <2>11. Elements(t) \subseteq Elements(kept) \cup {e}
      BY <1>5, <2>3, <2>4, <2>6
    <2> QED BY <1>4, <2>5, <2>8, <2>9, <2>10, <2>11
  <1>7. CASE ~\E n \in 1..k : kept[n].id = e.id
    <2>1. t = Append(kept, e)
      BY <1>1, <1>4, <1>7 DEF Taken
    <2>2. t \in Seq(ContextItems) /\ Len(t) = k + 1 /\ t[k + 1] = e /\ \A i \in 1..k : t[i] = kept[i]
      BY <1>1, <2>1
    <2>3. Elements(t) = Elements(kept) \cup {e}
      <3>1. k + 1 \in 1..(k + 1) /\ \A i \in 1..(k + 1) : i = k + 1 \/ i \in 1..k
        OBVIOUS
      <3>2. \A i \in 1..k : i \in 1..(k + 1)
        OBVIOUS
      <3>3. Elements(t) = {t[i] : i \in 1..(k + 1)}
        BY <2>2 DEF Elements
      <3>4. ASSUME NEW x \in Elements(t) PROVE x \in Elements(kept) \/ x = e
        <4>1. PICK i \in 1..(k + 1) : x = t[i]
          BY <3>3
        <4> QED BY <1>5, <2>2, <3>1, <4>1
      <3>5. e \in Elements(t)
        BY <2>2, <3>1, <3>3
      <3>6. ASSUME NEW x \in Elements(kept) PROVE x \in Elements(t)
        <4>1. PICK i \in 1..k : x = kept[i]
          BY <1>5
        <4> QED BY <2>2, <3>2, <3>3, <4>1
      <3> QED BY <3>4, <3>5, <3>6
    <2>4. IdsDiffer(t)
      <3>1. \A i, j \in 1..(k + 1) : t[i].id = t[j].id => i = j
        <4>1. \A i \in 1..(k + 1) : i = k + 1 \/ i \in 1..k
          OBVIOUS
        <4> QED BY <1>2, <1>7, <2>2, <4>1
      <3> QED BY <2>2, <3>1 DEF IdsDiffer, Distinguished, Elements
    <2> QED BY <1>4, <2>2, <2>3, <2>4
  <1> QED BY <1>1, <1>6, <1>7

\* The recursive function of Deduplicated(s), up to n.
IsTaking(f, s, n) == f = [i \in 0..n |-> IF i = 0 THEN <<>> ELSE Taken(f[i - 1], s[i])]

\* The lists that the deduplication goes through.
LEMMA DeduplicatedIsTaken ==
    ASSUME NEW s \in Seq(ContextItems)
    PROVE  \E f : /\ Deduplicated(s) = f[Len(s)]
                  /\ \A i \in 0..Len(s) : f[i] = IF i = 0 THEN <<>> ELSE Taken(f[i - 1], s[i])
  <1> DEFINE N == {n \in Nat : \E f : IsTaking(f, s, n)}
  <1>1. 0 \in N
    <2>1. IsTaking([i \in 0..0 |-> <<>>], s, 0)
      BY DEF IsTaking
    <2> QED BY <2>1
  <1>2. ASSUME NEW n \in Nat, n \in N PROVE n + 1 \in N
    <2>1. PICK f : IsTaking(f, s, n)
      BY <1>2
    <2> DEFINE last == Taken(f[n], s[n + 1])
               g == [i \in 0..(n + 1) |-> IF i <= n THEN f[i] ELSE last]
    <2>2. \A i \in 0..n : g[i] = f[i]
      OBVIOUS
    <2>3. g[n + 1] = last
      OBVIOUS
    <2>4. ASSUME NEW i \in 0..(n + 1)
          PROVE  g[i] = IF i = 0 THEN <<>> ELSE Taken(g[i - 1], s[i])
      <3>1. CASE i <= n
        <4>1. i \in 0..n /\ (i # 0 => i - 1 \in 0..n)
          BY <3>1
        <4>2. f[i] = IF i = 0 THEN <<>> ELSE Taken(f[i - 1], s[i])
          BY <2>1, <4>1 DEF IsTaking
        <4> HIDE DEF g
        <4> QED BY <2>2, <4>1, <4>2
      <3>2. CASE i = n + 1
        <4>1. n \in 0..n /\ i # 0 /\ i - 1 = n
          BY <3>2
        <4> HIDE DEF g
        <4> QED BY <2>2, <2>3, <3>2, <4>1
      <3> QED BY <3>1, <3>2
    <2>5. IsTaking(g, s, n + 1)
      BY <2>4 DEF IsTaking
    <2> QED BY <2>5
  <1> HIDE DEF N
  <1>3. Len(s) \in N
    <2>1. \A n \in Nat : n \in N
      BY <1>1, <1>2, NumberInduction
    <2>2. Len(s) \in Nat
      OBVIOUS
    <2> QED BY <2>1, <2>2
  <1>4. PICK f : IsTaking(f, s, Len(s)) /\ Deduplicated(s) = f[Len(s)]
    <2>1. \E f : IsTaking(f, s, Len(s))
      BY <1>3 DEF N
    <2> QED BY <2>1 DEF IsTaking, Deduplicated
  <1>5. \A i \in 0..Len(s) : f[i] = IF i = 0 THEN <<>> ELSE Taken(f[i - 1], s[i])
    BY <1>4, Zenon DEF IsTaking
  <1> QED BY <1>4, <1>5

\* No other of the first k items of s has the id of e and is as good.
BestOf(e, s, k) == \A j \in 1..k : s[j].id = e.id => s[j] = e \/ s[j].score < e.score

\* What is true of the list after k items.
HoldsBest(kept, s, k) ==
    /\ kept \in Seq(ContextItems) /\ IdsDiffer(kept)
    /\ \A x \in Elements(kept) : \E j \in 1..k : x = s[j]
    /\ \A m \in 1..k : BestOf(s[m], s, k) => s[m] \in Elements(kept)

\* There is one item for each id, and it is the best one if that is better than the others.
LEMMA DeduplicatedKeeps ==
    ASSUME NEW s \in Seq(ContextItems)
    PROVE  /\ Deduplicated(s) \in Seq(ContextItems) /\ IdsDiffer(Deduplicated(s))
           /\ \A e \in Elements(s) :
                (\A x \in Elements(s) : x.id = e.id => x = e \/ x.score < e.score)
                  => e \in Elements(Deduplicated(s))
  <1>1. PICK f : /\ Deduplicated(s) = f[Len(s)]
                 /\ \A i \in 0..Len(s) : f[i] = IF i = 0 THEN <<>> ELSE Taken(f[i - 1], s[i])
    BY DeduplicatedIsTaken
  <1>2. PICK n \in Nat : n = Len(s) /\ \A i \in 1..n : s[i] \in ContextItems
    OBVIOUS
  <1>3. \A x \in ContextItems : x.score \in Int
    BY DEF ContextItems
  <1> DEFINE N == {k \in Nat : k <= n => HoldsBest(f[k], s, k)}
  <1>4. 0 \in N
    <2>1. f[0] = <<>> /\ Len(<<>>) = 0 /\ <<>> \in Seq(ContextItems)
      BY <1>1, <1>2
    <2>2. Elements(<<>>) = {}
      BY <2>1 DEF Elements
    <2>3. IdsDiffer(<<>>)
      BY <2>1, <2>2 DEF IdsDiffer, Distinguished
    <2>4. HoldsBest(<<>>, s, 0)
      BY <2>1, <2>2, <2>3 DEF HoldsBest
    <2> QED BY <2>1, <2>4
  <1>5. ASSUME NEW k \in Nat, k \in N PROVE k + 1 \in N
    <2>0. PICK l \in Nat : l = k + 1
      OBVIOUS
    <2> SUFFICES ASSUME l <= n PROVE HoldsBest(f[l], s, l)
      BY <2>0
    <2>a. HoldsBest(f[k], s, k)
      BY <1>5, <2>0
    <2>b. PICK kept : kept = f[k]
      OBVIOUS
    <2>1. /\ kept \in Seq(ContextItems) /\ IdsDiffer(kept)
          /\ \A x \in Elements(kept) : \E j \in 1..k : x = s[j]
          /\ \A m \in 1..k : BestOf(s[m], s, k) => s[m] \in Elements(kept)
      BY <2>a, <2>b DEF HoldsBest
    <2>2. l \in 1..n /\ l \in 0..n /\ l # 0 /\ l - 1 = k
      BY <2>0
    <2>3. PICK e \in ContextItems : e = s[l]
      BY <1>2, <2>2
    <2>4. f[l] = Taken(kept, e)
      BY <1>1, <1>2, <2>b, <2>2, <2>3
    <2> HIDE DEF N
    <2>5. /\ f[l] \in Seq(ContextItems) /\ IdsDiffer(f[l])
          /\ \A x \in Elements(kept) : x.id # e.id \/ x.score >= e.score => x \in Elements(f[l])
          /\ (\A x \in Elements(kept) : x.id = e.id => x = e \/ x.score < e.score) => e \in Elements(f[l])
          /\ Elements(f[l]) \subseteq Elements(kept) \cup {e}
      BY <2>1, <2>4, TakenStep
    <2>6. \A x \in Elements(f[l]) : \E j \in 1..l : x = s[j]
      BY <2>0, <2>1, <2>3, <2>5
    <2>7. ASSUME NEW m \in 1..l, BestOf(s[m], s, l) PROVE s[m] \in Elements(f[l])
      <3>1. CASE s[m] = e
        <4>1. \A x \in Elements(kept) : x.id = e.id => x = e \/ x.score < e.score
          <5>1. ASSUME NEW x \in Elements(kept), x.id = e.id PROVE x = e \/ x.score < e.score
            <6>1. PICK j \in 1..k : x = s[j]
              BY <2>1
            <6>2. j \in 1..l
              BY <2>0
            <6> QED BY <2>7, <3>1, <5>1, <6>1, <6>2 DEF BestOf
          <5> QED BY <5>1
        <4> QED BY <2>5, <3>1, <4>1
      <3>2. CASE s[m] # e
        <4>1. m \in 1..k
          BY <2>0, <2>3, <3>2
        <4>2. BestOf(s[m], s, k)
          BY <2>0, <2>7 DEF BestOf
        <4>3. s[m] \in Elements(kept)
          BY <2>1, <4>1, <4>2
        <4>4. s[m].score \in Int /\ e.score \in Int
          <5>1. m \in 1..n
            BY <2>2, <4>1, <2>0
          <5> QED BY <1>2, <1>3, <2>3, <5>1
        <4>5. s[m].id # e.id \/ e.score < s[m].score
          <5>1. l \in 1..l
            BY <2>2
          <5> QED BY <2>3, <2>7, <3>2, <5>1 DEF BestOf
        <4> QED BY <2>5, <4>3, <4>4, <4>5
      <3> QED BY <3>1, <3>2
    <2> QED BY <2>5, <2>6, <2>7 DEF HoldsBest
  <1> HIDE DEF N
  <1>6. n \in N
    BY <1>4, <1>5, NumberInduction
  <1>7. /\ f[n] \in Seq(ContextItems) /\ IdsDiffer(f[n])
        /\ \A m \in 1..n : BestOf(s[m], s, n) => s[m] \in Elements(f[n])
    BY <1>6 DEF N, HoldsBest
  <1>8. ASSUME NEW e \in Elements(s), \A x \in Elements(s) : x.id = e.id => x = e \/ x.score < e.score
        PROVE  e \in Elements(f[n])
    <2>1. PICK m \in 1..n : e = s[m]
      BY <1>2 DEF Elements
    <2>2. BestOf(s[m], s, n)
      <3>1. \A j \in 1..n : s[j] \in Elements(s)
        BY <1>2 DEF Elements
      <3> QED BY <1>8, <2>1, <3>1 DEF BestOf
    <2> QED BY <1>7, <2>1, <2>2
  <1> QED BY <1>1, <1>2, <1>7, <1>8

-----------------------------------------------------------------------------
(* The snapshot.                                                           *)

\* What the sources may have answered.
AnswersOK ==
    answers \in [Sources -> {NoAnswer, [is |-> "error"], [is |-> "payload"]}
                   \cup {[is |-> "list", items |-> items] : items \in UNION {Holdings[s] : s \in Sources}}]

LEMMA CollectedType ==
    ASSUME AnswersOK
    PROVE  Collected \in Seq(ContextItems)
  <1>1. ASSUME NEW s \in Sources PROVE Items(s) \in Seq(ContextItems)
    <2>1. answers[s] \in {NoAnswer, [is |-> "error"], [is |-> "payload"]}
            \cup {[is |-> "list", items |-> items] : items \in UNION {Holdings[r] : r \in Sources}}
      BY DEF AnswersOK
    <2>2. CASE answers[s] \in {NoAnswer, [is |-> "error"], [is |-> "payload"]}
      BY <2>2 DEF Items, Merged, NoAnswer
    <2>3. CASE answers[s] \in {[is |-> "list", items |-> items] : items \in UNION {Holdings[r] : r \in Sources}}
      <3>1. PICK items \in UNION {Holdings[r] : r \in Sources} : answers[s] = [is |-> "list", items |-> items]
        BY <2>3
      <3>2. items \in Seq(ContextItems)
        BY <3>1, HoldingsAssumption
      <3> QED BY <3>1, <3>2 DEF Items, Merged
    <2> QED BY <2>1, <2>2, <2>3
  <1>2. Items("ltm") \in Seq(ContextItems) /\ Items("working_memory") \in Seq(ContextItems)
        /\ Items("jit_refs") \in Seq(ContextItems)
    BY <1>1 DEF Sources
  <1> QED BY <1>2 DEF Collected

\* No other eligible item with the same id is as good.
BestCollected(n) ==
    \A k \in DOMAIN Collected :
        Collected[k].id = Collected[n].id /\ Eligible(Collected[k]) =>
            k = n \/ Collected[k].score < Collected[n].score

\* The ranking has one item per id, the best one if there is one, the best first.
LEMMA RankingHolds ==
    ASSUME AnswersOK
    PROVE  /\ Ranking \in Seq(ContextItems) /\ ByScore(Ranking) /\ IdsDiffer(Ranking)
           /\ \A n \in DOMAIN Collected :
                Eligible(Collected[n]) /\ BestCollected(n) =>
                  [Collected[n] EXCEPT !.score = ScoreFor(Collected[n], request.task, request.role)]
                    \in Elements(Ranking)
  <1>1. PICK all \in Seq(ContextItems) : all = Collected
    BY CollectedType
  <1>2. PICK Good : Good = {item \in ToSet(all) : Eligible(item)}
    OBVIOUS
  <1>3. PICK some \in Seq(ContextItems) : some = Keep(all, Good)
    BY KeepSequence
  <1>4. PICK differing \in Seq(ContextItems) : differing = Deduplicated(some)
    BY DeduplicatedKeeps
  <1>5. PICK ranked \in Seq(ContextItems) : ranked = Ranked(differing)
    BY RankedSorts
  <1>6. Ranking = Conditioned(ranked, request.task, request.role)
    BY <1>1, <1>2, <1>3, <1>4, <1>5 DEF Ranking, EligibleItems
  <1>7. /\ IdsDiffer(differing)
        /\ \A e \in Elements(some) :
             (\A x \in Elements(some) : x.id = e.id => x = e \/ x.score < e.score) => e \in Elements(differing)
    BY <1>4, DeduplicatedKeeps
  <1>8. ByScore(ranked) /\ IdsDiffer(ranked) /\ Elements(ranked) = Elements(differing)
    BY <1>5, <1>7, RankedSorts
  <1>9. Elements(some) = Elements(all) \cap Good
    BY <1>3, KeepElements
  <1>10. PICK k \in Nat : k = Len(all) /\ DOMAIN all = 1..k
    OBVIOUS
  <1>11. Elements(all) = {all[n] : n \in 1..k} /\ ToSet(all) = {all[n] : n \in 1..k}
    BY <1>10 DEF Elements, ToSet
  <1>12. ASSUME NEW n \in DOMAIN Collected, Eligible(Collected[n]), BestCollected(n)
         PROVE  Collected[n] \in Elements(ranked)
    <2>1. PICK e : e = all[n]
      OBVIOUS
    <2>2. n \in 1..k /\ Eligible(e)
      BY <1>1, <1>10, <1>12, <2>1
    <2>3. e \in Elements(some)
      BY <1>2, <1>9, <1>11, <2>1, <2>2
    <2>4. ASSUME NEW x \in Elements(some), x.id = e.id PROVE x = e \/ x.score < e.score
      <3>1. PICK m \in 1..k : x = all[m]
        BY <1>9, <1>11
      <3>2. Eligible(x)
        BY <1>2, <1>9
      <3> QED BY <1>1, <1>10, <1>12, <2>1, <2>4, <3>1, <3>2 DEF BestCollected
    <2> QED BY <1>1, <1>7, <1>8, <2>1, <2>3, <2>4
  <1>13. /\ Conditioned(ranked, request.task, request.role) \in Seq(ContextItems)
         /\ ByScore(Conditioned(ranked, request.task, request.role))
         /\ IdsDiffer(Conditioned(ranked, request.task, request.role))
         /\ \A x \in Elements(ranked) :
              [x EXCEPT !.score = ScoreFor(x, request.task, request.role)]
                \in Elements(Conditioned(ranked, request.task, request.role))
    BY <1>8, ConditionedSorts
  <1> QED BY <1>6, <1>12, <1>13

\* What the merge makes of the answers.
CutRanking == [items |-> WithinBudget(Ranking), total |-> TotalTokens(WithinBudget(Ranking)),
               degraded |-> Degraded]

\* The snapshot is a beginning of the ranking.
LEMMA CutRankingHolds ==
    ASSUME AnswersOK, request.budget \in Nat
    PROVE  /\ CutRanking.items \in Seq(ContextItems)
           /\ CutRanking.total = TotalTokens(CutRanking.items) /\ CutRanking.total <= request.budget
           /\ \E n \in 0..Len(Ranking) :
                Len(CutRanking.items) = n /\ \A i \in 1..n : CutRanking.items[i] = Ranking[i]
  <1>1. PICK r \in Seq(ContextItems) : r = Ranking
    BY RankingHolds
  <1>2. PICK n \in 0..Len(r) : WithinBudget(r) = SubSeq(r, 1, n) /\ TotalTokens(WithinBudget(r)) <= request.budget
    BY SelectionFits
  <1>3. SubSeq(r, 1, n) \in Seq(ContextItems) /\ Len(SubSeq(r, 1, n)) = n
        /\ \A i \in 1..n : SubSeq(r, 1, n)[i] = r[i]
    BY <1>2
  <1> QED BY <1>1, <1>2, <1>3 DEF CutRanking

-----------------------------------------------------------------------------
(* The compression.                                                        *)

LEMMA LengthType ==
    ASSUME job.messages \in Seq(JobMessages), NEW indices
    PROVE  Length(indices) \in Int
  <1>1. PICK p : p = [n \in Indices |-> IF n \in indices THEN job.messages[n].raw ELSE 0]
    OBVIOUS
  <1>2. PICK k \in Nat : Indices = 1..k /\ \A n \in 1..k : job.messages[n] \in JobMessages
    BY DEF Indices
  <1>3. \A n \in 1..k : p[n] \in Int
    BY <1>1, <1>2 DEF JobMessages
  <1>4. p \in Seq(Int)
    BY <1>1, <1>2, <1>3
  <1> QED BY <1>1, <1>4, TotalType DEF Length

\* One message is looked at: it is kept when it fits and the selection goes on.
TakesOne(n, acc, stops) ==
    IF acc.open /\ acc.length + job.messages[n].raw <= 4 * job.budget
    THEN [acc EXCEPT !.kept = @ \cup {n}, !.length = @ + job.messages[n].raw]
    ELSE [acc EXCEPT !.open = ~stops]

Selections == [kept : SUBSET Indices, length : Int, open : BOOLEAN]

LEMMA TakesOneType ==
    ASSUME job.messages \in Seq(JobMessages), NEW stops \in BOOLEAN,
           NEW n \in Indices, NEW acc \in Selections
    PROVE  TakesOne(n, acc, stops) \in Selections
  <1>1. job.messages[n].raw \in Int
    <2>1. \A i \in DOMAIN job.messages : job.messages[i] \in JobMessages
      OBVIOUS
    <2>2. job.messages[n] \in JobMessages
      BY <2>1 DEF Indices
    <2> QED BY <2>2 DEF JobMessages
  <1>2. PICK raw \in Int : raw = job.messages[n].raw
    BY <1>1
  <1>3. [acc EXCEPT !.kept = @ \cup {n}, !.length = @ + raw] \in Selections
    <2>1. PICK kept \in SUBSET Indices : kept = acc.kept \cup {n}
      BY DEF Selections
    <2>2. PICK length \in Int : length = acc.length + raw
      BY DEF Selections
    <2>3. [acc EXCEPT !.kept = kept, !.length = length] \in Selections
      BY DEF Selections
    <2> QED BY <2>1, <2>2, <2>3
  <1>4. [acc EXCEPT !.open = ~stops] \in Selections
    BY DEF Selections
  <1> QED BY <1>2, <1>3, <1>4 DEF TakesOne

\* The recursive function of Newest(messages, stops).
IsSelecting(f, messages, stops, n) ==
    f = [k \in 0..n |->
           IF k = 0 THEN [kept |-> {}, length |-> Length(System), open |-> TRUE]
           ELSE TakesOne(messages[n + 1 - k], f[k - 1], stops)]

LEMMA SelectingExists ==
    ASSUME job.messages \in Seq(JobMessages), NEW stops \in BOOLEAN,
           NEW messages \in Seq(Indices), NEW n \in Nat, n = Len(messages)
    PROVE  \E f : IsSelecting(f, messages, stops, n)
  <1>1. \A i \in 1..n : messages[i] \in Indices
    OBVIOUS
  <1>2. PICK start : start = [kept |-> {}, length |-> Length(System), open |-> TRUE]
    OBVIOUS
  <1>3. start \in Selections
    BY <1>2, LengthType DEF Selections
  <1>4. PICK Step : Step = [p \in Nat \X Selections |->
                             IF p[1] \in 1..n THEN TakesOne(messages[n + 1 - p[1]], p[2], stops) ELSE p[2]]
    OBVIOUS
  <1>5. \A i \in 1..n, acc \in Selections :
           /\ TakesOne(messages[n + 1 - i], acc, stops) \in Selections
           /\ Step[<<i, acc>>] = TakesOne(messages[n + 1 - i], acc, stops)
    <2> SUFFICES ASSUME NEW i \in 1..n, NEW acc \in Selections
                 PROVE  /\ TakesOne(messages[n + 1 - i], acc, stops) \in Selections
                        /\ Step[<<i, acc>>] = TakesOne(messages[n + 1 - i], acc, stops)
      OBVIOUS
    <2>1. PICK m \in Indices : m = messages[n + 1 - i]
      <3>1. n + 1 - i \in 1..n
        OBVIOUS
      <3> QED BY <1>1, <3>1
    <2>2. TakesOne(m, acc, stops) \in Selections
      BY TakesOneType
    <2>3. Step[<<i, acc>>] = TakesOne(messages[n + 1 - i], acc, stops)
      BY <1>4
    <2> QED BY <2>1, <2>2, <2>3
  <1>6. Step \in [Nat \X Selections -> Selections]
    <2>1. ASSUME NEW i \in Nat, NEW acc \in Selections PROVE Step[<<i, acc>>] \in Selections
      <3>1. CASE i \in 1..n
        BY <1>5, <3>1
      <3>2. CASE i \notin 1..n
        BY <1>4, <3>2
      <3> QED BY <3>1, <3>2
    <2>2. Step = [p \in Nat \X Selections |-> Step[p]]
      BY <1>4
    <2>3. \A p \in Nat \X Selections : Step[p] \in Selections
      BY <2>1
    <2> QED BY <2>2, <2>3
  <1>7. PICK f : Recurs(f, n, Selections, start, Step)
    BY <1>3, <1>6, Recursion
  <1>8. f \in [0..n -> Selections] /\ f[0] = start /\ \A i \in 1..n : f[i] = Step[<<i, f[i - 1]>>]
    BY <1>7 DEF Recurs
  <1>9. ASSUME NEW k \in 0..n
        PROVE  f[k] = IF k = 0 THEN start ELSE TakesOne(messages[n + 1 - k], f[k - 1], stops)
    <2>1. CASE k = 0
      BY <1>8, <2>1
    <2>2. CASE k # 0
      <3>1. k \in 1..n /\ k - 1 \in 0..n
        BY <2>2
      <3>2. f[k - 1] \in Selections
        BY <1>8, <3>1
      <3> QED BY <1>5, <1>8, <2>2, <3>1, <3>2
    <2> QED BY <2>1, <2>2
  <1>10. f = [k \in 0..n |-> IF k = 0 THEN start ELSE TakesOne(messages[n + 1 - k], f[k - 1], stops)]
    BY <1>8, <1>9
  <1> QED BY <1>2, <1>10 DEF IsSelecting

\* The selection takes messages of the job.
LEMMA NewestAreMessages ==
    ASSUME job.messages \in Seq(JobMessages), NEW stops \in BOOLEAN,
           NEW messages \in Seq(Indices)
    PROVE  Newest(messages, stops) \subseteq Indices
  <1>1. PICK n \in Nat : n = Len(messages) /\ \A i \in 1..n : messages[i] \in Indices
    OBVIOUS
  <1>2. PICK f : IsSelecting(f, messages, stops, n) /\ Newest(messages, stops) = f[n].kept
    <2>1. \E f : IsSelecting(f, messages, stops, Len(messages))
      <3>1. Len(messages) \in Nat /\ Len(messages) = Len(messages)
        OBVIOUS
      <3> QED BY <3>1, SelectingExists
    <2>2. \E f : IsSelecting(f, messages, stops, Len(messages)) /\ Newest(messages, stops) = f[Len(messages)].kept
      BY <2>1 DEF IsSelecting, Newest, TakesOne
    <2> QED BY <1>1, <2>2
  <1>3. PICK start : start = [kept |-> {}, length |-> Length(System), open |-> TRUE]
    OBVIOUS
  <1>4. \A k \in 0..n : f[k] = IF k = 0 THEN start ELSE TakesOne(messages[n + 1 - k], f[k - 1], stops)
    BY <1>2, <1>3, Zenon DEF IsSelecting
  <1> DEFINE N == {k \in Nat : k <= n => f[k] \in Selections}
  <1>5. 0 \in N
    <2>1. start \in Selections
      BY <1>3, LengthType DEF Selections
    <2> QED BY <1>4, <2>1
  <1>6. ASSUME NEW k \in Nat, k \in N PROVE k + 1 \in N
    <2>1. PICK l \in Nat : l = k + 1
      OBVIOUS
    <2> SUFFICES ASSUME l <= n PROVE f[l] \in Selections
      BY <2>1
    <2>2. l \in 0..n /\ l # 0 /\ l - 1 = k /\ n + 1 - l \in 1..n
      BY <2>1
    <2>3. PICK acc \in Selections : acc = f[k]
      BY <1>6, <2>1
    <2>4. PICK m \in Indices : m = messages[n + 1 - l]
      BY <1>1, <2>2
    <2>5. f[l] = TakesOne(m, acc, stops)
      BY <1>4, <2>2, <2>3, <2>4
    <2> QED BY <2>5, TakesOneType
  <1> HIDE DEF N
  <1>7. n \in N
    BY <1>5, <1>6, NumberInduction
  <1> QED BY <1>2, <1>7 DEF N, Selections

\* Each strategy keeps messages of the job.
LEMMA TruncatedAreMessages ==
    ASSUME job.messages \in Seq(JobMessages), NEW strategy \in Strategies
    PROVE  Truncated(strategy) \subseteq Indices
  <1>1. PICK k \in Nat : Indices = 1..k
    BY DEF Indices
  <1>2. PICK places : places = [n \in Indices |-> n]
    OBVIOUS
  <1>3. places \in Seq(Indices)
    BY <1>1, <1>2
  <1>4. PICK others \in Seq(Indices) : others = Others
    BY <1>2, <1>3, KeepSequence DEF Others
  <1>5. System \subseteq Indices
    BY DEF System
  <1>6. PICK recent \in Seq(Indices) : recent = SubSeq(others, Max({1, Len(others) - LastN + 1}), Len(others))
    <2>1. PICK l \in Nat : l = Len(others) /\ \A i \in 1..l : others[i] \in Indices
      OBVIOUS
    <2>2. PICK d \in Int : d = l - LastN + 1
      BY CompressionAssumption
    <2>3. PICK a : a = Max({1, d})
      OBVIOUS
    <2>4. a \in Int /\ 1 <= a
      <3>1. 1 \in Int
        OBVIOUS
      <3> QED BY <2>3, <3>1, MaxOfTwo
    <2>5. SubSeq(others, a, l) \in Seq(Indices)
      BY <2>1, <2>4
    <2> QED BY <2>1, <2>2, <2>3, <2>5
  <1>7. Newest(others, TRUE) \subseteq Indices /\ Newest(others, FALSE) \subseteq Indices
        /\ Newest(recent, TRUE) \subseteq Indices
    BY NewestAreMessages
  <1>8. /\ Truncate \subseteq Indices /\ KeepRecent \subseteq Indices /\ SimpleWindow \subseteq Indices
        /\ StructuredTruncate \subseteq Indices /\ FastTruncate \subseteq Indices
    BY <1>4, <1>5, <1>6, <1>7 DEF Truncate, KeepRecent, SimpleWindow, StructuredTruncate, FastTruncate
  <1> QED BY <1>8 DEF Truncated, Strategies

LEMMA ScheduleType == \A j : Schedule(j) \in Seq(Strategies)
  <1> SUFFICES ASSUME NEW j PROVE Schedule(j) \in Seq(Strategies)
    OBVIOUS
  <1>1. PICK chosen : chosen = IF j.task \in Strategies THEN <<j.task>>
                               ELSE IF j.turns > 20 THEN <<"long_session">>
                               ELSE IF MoreThan(j, Trigger) THEN <<"compaction">>
                               ELSE IF j.task = "" THEN <<"qa">> ELSE <<>>
    OBVIOUS
  <1>2. chosen \in Seq(Strategies)
    <2>1. \A strategy \in Strategies : <<strategy>> \in Seq(Strategies)
      OBVIOUS
    <2>2. "long_session" \in Strategies /\ "compaction" \in Strategies /\ "qa" \in Strategies
      BY DEF Strategies
    <2>3. <<>> \in Seq(Strategies)
      OBVIOUS
    <2>4. chosen = <<>> \/ \E strategy \in Strategies : chosen = <<strategy>>
      BY <1>1, <2>2
    <2> QED BY <2>1, <2>3, <2>4
  <1>3. <<"realtime">> \o chosen \in Seq(Strategies)
    BY <1>2 DEF Strategies
  <1>4. Schedule(j) = chosen \/ Schedule(j) = <<"realtime">> \o chosen
    BY <1>1 DEF Schedule
  <1> QED BY <1>2, <1>3, <1>4

\* A job that fits into its budget, and one that the schedule begins with the realtime strategy.
Fits == job.total > 0 /\ job.total <= job.budget
Urgent == Schedule(job) # <<>> /\ Head(Schedule(job)) = "realtime"

\* What is true while a job is compressed and afterwards: a fitting job is neither cut
\* nor given to the LLM, an urgent one is left to the realtime strategy, and only the
\* compaction strategy cuts without saying so.
CompressionInv ==
    /\ schedule \in Seq(Strategies)
    /\ llmCall # "none" => schedule # <<>> /\ output = NoOutput
    /\ output # NoOutput =>
         /\ output.kept \subseteq Indices
         /\ output.llm = TRUE \/ output.kept = Indices \/ output.degraded = TRUE \/ output.by = "compaction"
    /\ Fits => llmCall = "none" /\ (output # NoOutput => output.kept = Indices /\ output.llm = FALSE)
    /\ Urgent => /\ schedule = Schedule(job) /\ llmCall = "none"
                 /\ output # NoOutput => output.by = "realtime"

LEMMA ReturnsHolds ==
    ASSUME CompressionInv, NEW kept \in SUBSET Indices, NEW byLlm \in BOOLEAN, NEW degraded \in BOOLEAN,
           Returns(kept, byLlm, degraded),
           byLlm = TRUE \/ kept = Indices \/ degraded = TRUE \/ (schedule # <<>> /\ Head(schedule) = "compaction"),
           Fits => kept = Indices /\ byLlm = FALSE
    PROVE  CompressionInv' /\ UNCHANGED <<llm, failing, job, tries>>
  <1>1. PICK by : by = IF schedule = <<>> THEN "raw" ELSE Head(schedule)
    OBVIOUS
  <1>2. /\ output' = [is |-> "output", by |-> by, kept |-> kept, llm |-> byLlm, degraded |-> degraded]
        /\ llmCall' = "none" /\ UNCHANGED <<llm, failing, job, schedule, tries>>
    BY <1>1 DEF Returns
  <1>3. output'.by = by /\ output'.kept = kept /\ output'.llm = byLlm /\ output'.degraded = degraded
    BY <1>2
  <1>4. Indices' = Indices /\ Fits' = Fits /\ Urgent' = Urgent /\ Schedule(job)' = Schedule(job)
    BY <1>2 DEF Indices, Fits, Urgent, Schedule, MoreThan
  <1>5. Urgent => by = "realtime"
    BY <1>1 DEF CompressionInv, Urgent
  <1>6. by = "compaction" \/ ~(schedule # <<>> /\ Head(schedule) = "compaction")
    BY <1>1
  <1>7. /\ schedule' \in Seq(Strategies)
        /\ llmCall' # "none" => schedule' # <<>> /\ output' = NoOutput
    BY <1>2 DEF CompressionInv
  <1>8. /\ output'.kept \subseteq Indices'
        /\ output'.llm = TRUE \/ output'.kept = Indices' \/ output'.degraded = TRUE \/ output'.by = "compaction"
    BY <1>3, <1>4, <1>6
  <1>9. Fits' => llmCall' = "none" /\ output'.kept = Indices' /\ output'.llm = FALSE
    BY <1>2, <1>3, <1>4
  <1>10. Urgent' => schedule' = Schedule(job)' /\ llmCall' = "none" /\ output'.by = "realtime"
    BY <1>2, <1>3, <1>4, <1>5 DEF CompressionInv
  <1> QED BY <1>2, <1>7, <1>8, <1>9, <1>10 DEF CompressionInv

\* The strategy cuts the messages.
LEMMA FallsBackHolds ==
    ASSUME CompressionInv, job.messages \in Seq(JobMessages), schedule # <<>>, ~Fits, FallsBack
    PROVE  CompressionInv' /\ UNCHANGED <<llm, failing, job, tries>>
  <1>1. PICK strategy \in Strategies : strategy = Head(schedule)
    BY DEF CompressionInv
  <1>2. PICK kept \in SUBSET Indices : kept = Truncated(strategy)
    BY TruncatedAreMessages
  <1>3. CASE strategy = "compaction"
    <2>1. Returns(kept, FALSE, FALSE)
      BY <1>1, <1>2, <1>3 DEF FallsBack
    <2> QED BY <1>1, <1>3, <2>1, ReturnsHolds
  <1>4. CASE strategy # "compaction"
    <2>1. Returns(kept, FALSE, TRUE)
      BY <1>1, <1>2, <1>4 DEF FallsBack
    <2> QED BY <2>1, ReturnsHolds
  <1> QED BY <1>3, <1>4

\* A strategy begins, and asks the LLM for something or not.
LEMMA CompressHolds ==
    ASSUME CompressionInv, job.messages \in Seq(JobMessages), tries \in 0..MaxRetries + 1,
           NEW strategy \in Strategies, NEW asks, strategy = "realtime" => asks = "none",
           Compress(strategy, asks)
    PROVE  CompressionInv' /\ tries' \in 0..MaxRetries + 1 /\ UNCHANGED <<failing, job>>
  <1>1. schedule # <<>> /\ Head(schedule) = strategy /\ output = NoOutput /\ llmCall = "none"
    BY DEF Compress, Tries
  <1>2. CASE FitsAlready /\ Returns(Indices, FALSE, FALSE)
    <2>1. PICK kept \in SUBSET Indices : kept = Indices
      OBVIOUS
    <2>2. Returns(kept, FALSE, FALSE)
      BY <1>2, <2>1
    <2>3. CompressionInv' /\ UNCHANGED <<llm, failing, job, tries>>
      BY <2>1, <2>2, ReturnsHolds
    <2> QED BY <2>3
  <1>3. CASE ~FitsAlready /\ asks # "none" /\ AsksLlm(asks)
    <2>1. llmCall' = asks /\ tries' = 1 /\ UNCHANGED <<llm, failing, job, schedule, output>>
      BY <1>3 DEF AsksLlm
    <2>2. ~Fits
      BY <1>3 DEF Fits, FitsAlready, Estimate
    <2>3. ~Urgent
      BY <1>1, <1>3 DEF CompressionInv, Urgent
    <2>4. Fits' = Fits /\ Urgent' = Urgent
      BY <2>1 DEF Fits, Urgent, Schedule, MoreThan
    <2>5. tries' \in 0..MaxRetries + 1
      BY <2>1, CompressionAssumption
    <2>6. CompressionInv'
      BY <1>1, <2>1, <2>2, <2>3, <2>4 DEF CompressionInv
    <2> QED BY <2>1, <2>5, <2>6
  <1>4. CASE ~FitsAlready /\ FallsBack
    <2>1. ~Fits
      BY <1>4 DEF Fits, FitsAlready, Estimate
    <2>2. CompressionInv' /\ UNCHANGED <<llm, failing, job, tries>>
      BY <1>1, <1>4, <2>1, FallsBackHolds
    <2> QED BY <2>2
  <1> QED BY <1>2, <1>3, <1>4 DEF Compress

\* One step of the compression router, a strategy or the LLM.
LEMMA CompressionStep ==
    ASSUME CompressionInv, job.messages \in Seq(JobMessages), tries \in 0..MaxRetries + 1,
           "realtime" \notin failing, CompressionSteps
    PROVE  CompressionInv' /\ tries' \in 0..MaxRetries + 1 /\ UNCHANGED <<failing, job>>
  <1>1. "qa" \in Strategies /\ "task" \in Strategies /\ "long_session" \in Strategies
        /\ "realtime" \in Strategies /\ "compaction" \in Strategies
    BY DEF Strategies
  <1>2. CASE QACompress
    BY <1>1, <1>2, CompressHolds DEF QACompress
  <1>3. CASE TaskCompress
    BY <1>1, <1>3, CompressHolds DEF TaskCompress
  <1>4. CASE LongSessionCompress
    BY <1>1, <1>4, CompressHolds DEF LongSessionCompress
  <1>5. CASE RealtimeCompress
    BY <1>1, <1>5, CompressHolds DEF RealtimeCompress
  <1>6. CASE CompactionCompress
    BY <1>1, <1>6, CompressHolds DEF CompactionCompress
  <1>7. ASSUME NEW strategy \in Strategies, StrategyRaises(strategy)
        PROVE  CompressionInv' /\ tries' \in 0..MaxRetries + 1 /\ UNCHANGED <<failing, job>>
    <2>1. schedule # <<>> /\ Head(schedule) # "realtime" /\ output = NoOutput /\ llmCall = "none"
      BY <1>7 DEF StrategyRaises, Tries
    <2>2. schedule' = Tail(schedule) /\ UNCHANGED <<llm, failing, job, llmCall, tries, output>>
      BY <1>7 DEF StrategyRaises
    <2>3. schedule' \in Seq(Strategies)
      BY <2>1, <2>2 DEF CompressionInv
    <2>4. ~Urgent
      BY <2>1 DEF CompressionInv, Urgent
    <2>5. Fits' = Fits /\ Urgent' = Urgent
      BY <2>2 DEF Fits, Urgent, Schedule, MoreThan
    <2>6. CompressionInv'
      BY <2>1, <2>2, <2>3, <2>4, <2>5 DEF CompressionInv
    <2> QED BY <2>2, <2>6
  <1>8. CASE RawFallback
    <2>1. PICK kept \in SUBSET Indices : kept = Indices
      OBVIOUS
    <2>2. Returns(kept, FALSE, TRUE)
      BY <1>8, <2>1 DEF RawFallback
    <2>3. CompressionInv' /\ UNCHANGED <<llm, failing, job, tries>>
      BY <2>1, <2>2, ReturnsHolds
    <2> QED BY <2>3
  <1>9. ASSUME llmCall # "none", NEW kept \in SUBSET Indices, Returns(kept, TRUE, FALSE)
        PROVE  CompressionInv' /\ tries' \in 0..MaxRetries + 1 /\ UNCHANGED <<failing, job>>
    <2>1. ~Fits
      BY <1>9 DEF CompressionInv
    <2>2. CompressionInv' /\ UNCHANGED <<llm, failing, job, tries>>
      BY <1>9, <2>1, ReturnsHolds
    <2> QED BY <2>2
  <1>10. ASSUME llmCall # "none", NEW what \in {"messages"}, AsksLlm(what)
         PROVE  CompressionInv' /\ tries' \in 0..MaxRetries + 1 /\ UNCHANGED <<failing, job>>
    <2>1. llmCall' = what /\ tries' = 1 /\ UNCHANGED <<llm, failing, job, schedule, output>>
      BY <1>10 DEF AsksLlm
    <2>2. ~Fits /\ ~Urgent /\ schedule # <<>> /\ output = NoOutput
      BY <1>10 DEF CompressionInv
    <2>3. Fits' = Fits /\ Urgent' = Urgent
      BY <2>1 DEF Fits, Urgent, Schedule, MoreThan
    <2>4. CompressionInv'
      BY <2>1, <2>2, <2>3 DEF CompressionInv
    <2>5. tries' \in 0..MaxRetries + 1
      BY <2>1, CompressionAssumption
    <2> QED BY <2>1, <2>4, <2>5
  <1>11. CASE RollingSummary
    <2>1. llmCall # "none"
      BY <1>11 DEF RollingSummary
    <2>2. PICK kept \in SUBSET Indices : kept = System \cup Recent
      <3>1. System \cup Recent \subseteq Indices
        BY DEF System, Recent
      <3> QED BY <3>1
    <2>3. Returns(kept, TRUE, FALSE) \/ AsksLlm("messages")
      BY <1>11, <2>2 DEF RollingSummary
    <2> QED BY <1>9, <1>10, <2>1, <2>3
  <1>12. CASE LlmCompresses \/ LlmCompacts
    <2>1. llmCall # "none" /\ Returns({}, TRUE, FALSE)
      BY <1>12 DEF LlmCompresses, LlmCompacts
    <2>2. {} \in SUBSET Indices
      OBVIOUS
    <2> QED BY <1>9, <2>1, <2>2
  <1>13. ASSUME llmCall # "none", FallsBack
         PROVE  CompressionInv' /\ tries' \in 0..MaxRetries + 1 /\ UNCHANGED <<failing, job>>
    <2>1. schedule # <<>> /\ ~Fits
      BY <1>13 DEF CompressionInv
    <2>2. CompressionInv' /\ UNCHANGED <<llm, failing, job, tries>>
      BY <1>13, <2>1, FallsBackHolds
    <2> QED BY <2>2
  <1>14. CASE LlmRefuses
    BY <1>13, <1>14 DEF LlmRefuses
  <1>15. CASE LlmUnavailable
    <2>1. CASE tries <= MaxRetries /\ tries' = tries + 1 /\ UNCHANGED <<llm, failing, job, schedule, llmCall, output>>
      <3>1. Indices' = Indices /\ Fits' = Fits /\ Urgent' = Urgent /\ Schedule(job)' = Schedule(job)
        BY <2>1 DEF Indices, Fits, Urgent, Schedule, MoreThan
      <3>2. CompressionInv'
        BY <2>1, <3>1 DEF CompressionInv
      <3>3. tries' \in 0..MaxRetries + 1
        BY <2>1, CompressionAssumption
      <3> QED BY <2>1, <3>2, <3>3
    <2>2. CASE FallsBack
      BY <1>13, <1>15, <2>2 DEF LlmUnavailable
    <2> QED BY <1>15, <2>1, <2>2 DEF LlmUnavailable
  <1> QED BY <1>2, <1>3, <1>4, <1>5, <1>6, <1>7, <1>8, <1>11, <1>12, <1>14, <1>15 DEF CompressionSteps

-----------------------------------------------------------------------------
(* The inductive invariant.                                                *)

IsContext == request.kind = "context"

Compressing == step = "compressing" \/ (step = "answered" /\ output # NoOutput)

Shape ==
    /\ request \in Requests /\ failing \in Failing
    /\ step \in {"start", "aggregating", "merged", "searching", "saving", "compressing",
                 "answered", "raised"}
    /\ step \in {"aggregating", "merged", "searching", "saving", "raised"} => IsContext
    /\ waiting \subseteq asked /\ asked \subseteq Sources
    /\ AnswersOK
    /\ warnings \subseteq {"degraded", "filtered", "distraction", "confusion", "output degraded"}
    /\ tries \in 0..MaxRetries + 1

SnapshotInv == snapshot = IF HasSnapshot THEN CutRanking ELSE NoSnapshot

ViewInv ==
    HasSnapshot /\ step # "merged" =>
        visible = Exposed /\ ("degraded" \in warnings <=> snapshot.degraded # {})

\* The job that is compressed, and what became of it so far.
RunInv ==
    IF Compressing
    THEN /\ job = IF IsContext THEN JobFor(visible) ELSE request.job
         /\ CompressionInv
    ELSE output = NoOutput /\ llmCall = "none"

AnswerInv ==
    step = "answered" /\ answer.is = "compressed" =>
        \/ /\ output # NoOutput
           /\ answer = [is |-> "compressed", kept |-> output.kept, llm |-> output.llm,
                        degraded |-> output.degraded]
        \/ ~IsContext /\ answer.degraded = TRUE /\ answer.llm = FALSE

Inv == Shape /\ SnapshotInv /\ ViewInv /\ RunInv /\ AnswerInv

LEMMA RankingStays ==
    ASSUME UNCHANGED <<request, asked, answers>>
    PROVE  CutRanking' = CutRanking
  <1>1. Ranking' = Ranking
    BY DEF Ranking, EligibleItems, Eligible, Collected, Items, Merged
  <1>2. Degraded' = Degraded
    BY DEF Degraded, Merged
  <1> QED BY <1>1, <1>2 DEF CutRanking, WithinBudget

LEMMA ViewStays ==
    ASSUME UNCHANGED <<request, snapshot>>
    PROVE  Exposed' = Exposed
  BY DEF Exposed, HasPolicy, Policy, Allowed

\* The snapshot that the caller may see fits into the budget.
LEMMA ViewFits ==
    ASSUME Shape, SnapshotInv, HasSnapshot, NEW view, view = Exposed
    PROVE  /\ view.items \in Seq(ContextItems)
           /\ view.total \in Nat /\ view.total <= request.budget
  <1>1. request.budget \in Nat
    BY RequestsAssumption DEF Shape, HasSnapshot
  <1>2. AnswersOK /\ snapshot = CutRanking
    BY DEF Shape, SnapshotInv
  <1>3. snapshot.items \in Seq(ContextItems) /\ snapshot.total = TotalTokens(snapshot.items)
        /\ snapshot.total <= request.budget
    BY <1>1, <1>2, CutRankingHolds
  <1>4. PICK items \in Seq(ContextItems) : items = snapshot.items
    BY <1>3
  <1>5. TotalTokens(items) \in Nat
    BY TokensOfItems
  <1>6. CASE ~HasPolicy
    BY <1>3, <1>4, <1>5, <1>6 DEF Exposed
  <1>7. CASE HasPolicy
    <2>1. PICK Good : Good = {item \in ToSet(items) : Allowed(item, Policy)}
      OBVIOUS
    <2>2. PICK some \in Seq(ContextItems) : some = Keep(items, Good)
      BY KeepSequence
    <2>3. TotalTokens(some) \in Nat /\ TotalTokens(some) <= TotalTokens(items)
      BY <2>2, TokensOfItems, KeepTokens
    <2>4. view = [items |-> some, total |-> TotalTokens(some), degraded |-> {}]
      BY <1>4, <1>7, <2>1, <2>2 DEF Exposed
    <2> QED BY <1>1, <1>3, <1>4, <1>5, <2>3, <2>4
  <1> QED BY <1>6, <1>7

\* The messages of the job that is compressed.
LEMMA JobTyped ==
    ASSUME Inv, step = "compressing"
    PROVE  job.messages \in Seq(JobMessages)
  <1>1. CASE IsContext
    <2>1. HasSnapshot
      BY <1>1 DEF HasSnapshot, IsContext
    <2>2. visible.items \in Seq(ContextItems)
      BY <2>1, ViewFits DEF Inv, ViewInv
    <2>3. PICK items \in Seq(ContextItems) : items = visible.items
      BY <2>2
    <2>4. PICK k \in Nat : DOMAIN items = 1..k /\ \A n \in 1..k : items[n] \in ContextItems
      OBVIOUS
    <2>5. PICK messages : messages = Messages(items)
      OBVIOUS
    <2>6. messages = [n \in 1..k |-> [system |-> items[n].source = "system", raw |-> items[n].raw]]
      BY <2>4, <2>5 DEF Messages
    <2>7. \A n \in 1..k : items[n].raw \in Nat
      BY <2>4 DEF ContextItems
    <2>8. \A n \in 1..k : messages[n] \in JobMessages
      BY <2>6, <2>7 DEF JobMessages
    <2>9. messages \in Seq(JobMessages)
      BY <2>6, <2>8
    <2>10. job = JobFor(visible)
      BY <1>1 DEF Inv, RunInv, Compressing
    <2> QED BY <2>3, <2>5, <2>9, <2>10 DEF JobFor
  <1>2. CASE ~IsContext
    <2>1. job = request.job /\ request \in Requests /\ request.kind # "context"
      BY <1>2 DEF Inv, Shape, RunInv, Compressing, IsContext
    <2> QED BY <2>1, RequestsAssumption
  <1> QED BY <1>1, <1>2

LEMMA CompressionStays ==
    ASSUME UNCHANGED <<job, schedule, llmCall, output>>, CompressionInv
    PROVE  CompressionInv'
  <1>1. Indices' = Indices /\ Fits' = Fits /\ Urgent' = Urgent /\ Schedule(job)' = Schedule(job)
    BY DEF Indices, Fits, Urgent, Schedule, MoreThan
  <1> QED BY <1>1 DEF CompressionInv

\* Before the first step of the compression.
LEMMA CompressionBegins ==
    ASSUME NEW j, BeginCompress(j), output = NoOutput, llmCall = "none"
    PROVE  CompressionInv' /\ job' = j /\ UNCHANGED <<failing, tries>>
  <1>1. job' = j /\ schedule' = Schedule(j) /\ UNCHANGED <<llm, failing, llmCall, tries, output>>
    BY DEF BeginCompress
  <1>2. Schedule(j) \in Seq(Strategies)
    BY ScheduleType
  <1>3. Schedule(job)' = Schedule(j)
    BY <1>1 DEF Schedule, MoreThan
  <1> QED BY <1>1, <1>2, <1>3 DEF CompressionInv

LEMMA InitInv == Init => Inv
  <1> SUFFICES ASSUME Init PROVE Inv
    OBVIOUS
  <1>1. Shape
    <2>1. AnswersOK
      BY DEF Init, AggregatorInit, AnswersOK
    <2>2. tries \in 0..MaxRetries + 1
      BY CompressionAssumption DEF Init, CompressionInit
    <2> QED BY <2>1, <2>2 DEF Shape, Init, AggregatorInit
  <1>2. ~HasSnapshot /\ ~Compressing
    BY DEF Init, HasSnapshot, Compressing
  <1> QED BY <1>1, <1>2 DEF Inv, SnapshotInv, ViewInv, RunInv, AnswerInv, Init, AggregatorInit, CompressionInit

\* The sources answer, and what they answered is merged.
LEMMA AggregationStep ==
    ASSUME Inv, BeginContext \/ Gather \/ GatherEnds
    PROVE  Inv'
  <1>1. CASE BeginContext
    <2>1. /\ step = "start" /\ step' = "aggregating" /\ IsContext
          /\ asked' = request.sources /\ waiting' = request.sources
          /\ UNCHANGED <<request, answers, snapshot, failing, job, schedule, llmCall, tries, output,
                         warnings, visible, answer>>
      BY <1>1 DEF BeginContext, BeginAggregate, compressionVars, IsContext
    <2>2. request.sources \subseteq Sources
      BY <2>1, RequestsAssumption DEF Inv, Shape, IsContext
    <2>3. Shape'
      BY <2>1, <2>2 DEF Inv, Shape, AnswersOK, IsContext
    <2>4. ~HasSnapshot /\ ~HasSnapshot' /\ ~Compressing /\ ~Compressing'
      BY <2>1 DEF HasSnapshot, Compressing
    <2> QED BY <2>1, <2>3, <2>4 DEF Inv, SnapshotInv, ViewInv, RunInv, AnswerInv
  <1>2. CASE Gather
    <2>1. /\ step = "aggregating" /\ SourceSteps
          /\ UNCHANGED <<step, visible, warnings, answer, failing, job, schedule, llmCall, tries, output>>
      BY <1>2 DEF Gather, compressionVars, requestVars
    <2>2. /\ UNCHANGED <<request, asked, snapshot>>
          /\ waiting' \subseteq waiting /\ AnswersOK'
      <3>1. ASSUME NEW s \in Sources, SourceReturns(s)
            PROVE  /\ UNCHANGED <<request, asked, snapshot>>
                   /\ waiting' \subseteq waiting /\ AnswersOK'
        <4>1. PICK items \in Holdings[s] : Ended(s, [is |-> "list", items |-> items])
          BY <3>1 DEF SourceReturns
        <4>2. PICK list : list = [is |-> "list", items |-> items]
          OBVIOUS
        <4>3. list \in {[is |-> "list", items |-> held] : held \in UNION {Holdings[r] : r \in Sources}}
          BY <4>1, <4>2
        <4>4. waiting' = waiting \ {s} /\ answers' = [answers EXCEPT ![s] = list]
          BY <4>1, <4>2 DEF Ended
        <4>5. AnswersOK'
          BY <4>3, <4>4 DEF Inv, Shape, AnswersOK
        <4> QED BY <3>1, <4>4, <4>5 DEF SourceReturns
      <3>2. ASSUME NEW s \in Sources, SourceFails(s)
            PROVE  /\ UNCHANGED <<request, asked, snapshot>>
                   /\ waiting' \subseteq waiting /\ AnswersOK'
        BY <3>2 DEF SourceFails, Ended, Inv, Shape, AnswersOK
      <3>3. CASE AgenticFails
        BY <3>3 DEF AgenticFails, Inv, Shape, AnswersOK
      <3>4. CASE TimeoutExpires
        BY <3>4 DEF TimeoutExpires, Inv, Shape, AnswersOK
      <3> QED BY <2>1, <3>1, <3>2, <3>3, <3>4 DEF SourceSteps
    <2>3. Shape'
      BY <2>1, <2>2 DEF Inv, Shape, IsContext
    <2>4. ~HasSnapshot /\ ~HasSnapshot' /\ ~Compressing /\ ~Compressing'
      BY <2>1 DEF HasSnapshot, Compressing
    <2> QED BY <2>1, <2>2, <2>3, <2>4 DEF Inv, SnapshotInv, ViewInv, RunInv, AnswerInv
  <1>3. CASE GatherEnds
    <2>1. /\ step = "aggregating" /\ step' = "merged" /\ Merge /\ IsContext
          /\ UNCHANGED <<failing, job, schedule, llmCall, tries, output, visible, warnings, answer>>
      BY <1>3 DEF GatherEnds, compressionVars, Inv, Shape
    <2>2. snapshot' = CutRanking /\ UNCHANGED <<request, asked, waiting, answers>>
      BY <2>1 DEF Merge, CutRanking
    <2>3. CutRanking' = CutRanking
      BY <2>2, RankingStays
    <2>4. Shape'
      BY <2>1, <2>2 DEF Inv, Shape, AnswersOK, IsContext
    <2>5. SnapshotInv'
      BY <2>1, <2>2, <2>3 DEF SnapshotInv, HasSnapshot, IsContext
    <2>6. ~Compressing /\ ~Compressing'
      BY <2>1 DEF Compressing
    <2> QED BY <2>1, <2>2, <2>4, <2>5, <2>6 DEF Inv, ViewInv, RunInv, AnswerInv
  <1> QED BY <1>1, <1>2, <1>3

\* What nothing but the sources and the merge changes.
LEMMA SnapshotStays ==
    ASSUME SnapshotInv, HasSnapshot, HasSnapshot', UNCHANGED aggregatorVars
    PROVE  SnapshotInv' /\ Exposed' = Exposed
  <1>1. UNCHANGED <<request, asked, answers, snapshot>>
    BY DEF aggregatorVars
  <1> QED BY <1>1, RankingStays, ViewStays DEF SnapshotInv

\* The output of a request for context.
LEMMA OutputStep ==
    ASSUME Inv, RouteOutput \/ SearchEnds \/ SaveEnds
    PROVE  Inv'
  <1>1. CASE RouteOutput
    <2>1. PICK view : view = Exposed
      OBVIOUS
    <2>2. /\ step = "merged" /\ visible' = view /\ warnings' = Warnings(view)
          /\ UNCHANGED <<request, asked, waiting, answers, snapshot>> /\ UNCHANGED aggregatorVars
          /\ \/ /\ step' \in {"answered", "searching", "saving"}
                /\ UNCHANGED compressionVars
                /\ step' = "answered" => answer'.is \in {"raw", "search"}
             \/ /\ step' = "compressing"
                /\ BeginCompress(JobFor(view))
      BY <1>1, <2>1 DEF RouteOutput, Answered, aggregatorVars
    <2>3. IsContext /\ HasSnapshot /\ HasSnapshot' /\ IsContext'
      BY <2>2 DEF Inv, Shape, HasSnapshot, IsContext
    <2>4. SnapshotInv' /\ Exposed' = Exposed
      BY <2>2, <2>3, SnapshotStays DEF Inv
    <2>5. output = NoOutput /\ llmCall = "none"
      BY <2>2 DEF Inv, RunInv, Compressing
    <2>6. ViewInv'
      <3>1. "degraded" \in Warnings(view) <=> snapshot.degraded # {}
        BY DEF Warnings
      <3> QED BY <2>1, <2>2, <2>4, <3>1 DEF ViewInv
    <2>7. Warnings(view) \subseteq {"degraded", "filtered", "distraction", "confusion", "output degraded"}
      BY DEF Warnings
    <2>8. CASE /\ step' \in {"answered", "searching", "saving"}
               /\ UNCHANGED compressionVars
               /\ step' = "answered" => answer'.is \in {"raw", "search"}
      <3>1. UNCHANGED <<failing, job, schedule, llmCall, tries, output>>
        BY <2>8 DEF compressionVars
      <3>2. Shape'
        BY <2>2, <2>3, <2>7, <2>8, <3>1 DEF Inv, Shape, AnswersOK
      <3>3. ~Compressing'
        BY <2>5, <2>8, <3>1 DEF Compressing
      <3>4. AnswerInv'
        BY <2>8 DEF AnswerInv
      <3> QED BY <2>4, <2>5, <2>6, <3>1, <3>2, <3>3, <3>4 DEF Inv, RunInv
    <2>9. CASE step' = "compressing" /\ BeginCompress(JobFor(view))
      <3>1. CompressionInv' /\ job' = JobFor(view) /\ UNCHANGED <<failing, tries>>
        BY <2>5, <2>9, CompressionBegins
      <3>2. Shape'
        BY <2>2, <2>3, <2>7, <2>9, <3>1 DEF Inv, Shape, AnswersOK
      <3>3. JobFor(view) = JobFor(visible)'
        BY <2>2 DEF JobFor
      <3>4. RunInv'
        BY <2>3, <2>9, <3>1, <3>3 DEF RunInv, Compressing
      <3>5. AnswerInv'
        BY <2>9 DEF AnswerInv
      <3> QED BY <2>4, <2>6, <3>2, <3>4, <3>5 DEF Inv
    <2> QED BY <2>2, <2>8, <2>9
  <1>2. CASE SearchEnds \/ SaveEnds
    <2>1. /\ step \in {"searching", "saving"} /\ step' \in {"answered", "raised"}
          /\ step' = "answered" => answer'.is \in {"search", "version"}
          /\ step' = "raised" => answer' = answer
          /\ UNCHANGED <<request, asked, waiting, answers, snapshot, failing, job, schedule, llmCall,
                         tries, output, visible, warnings>>
          /\ UNCHANGED aggregatorVars
      BY <1>2 DEF SearchEnds, SaveEnds, Answered, Raised, aggregatorVars, compressionVars
    <2>2. IsContext /\ HasSnapshot /\ HasSnapshot' /\ IsContext'
      BY <2>1 DEF Inv, Shape, HasSnapshot, IsContext
    <2>3. SnapshotInv' /\ Exposed' = Exposed
      BY <2>1, <2>2, SnapshotStays DEF Inv
    <2>4. Shape'
      BY <2>1, <2>2 DEF Inv, Shape, AnswersOK
    <2>5. ~Compressing /\ ~Compressing'
      BY <2>1 DEF Inv, RunInv, Compressing
    <2>6. ViewInv'
      BY <2>1, <2>2, <2>3 DEF Inv, ViewInv
    <2>7. AnswerInv'
      BY <2>1 DEF AnswerInv
    <2> QED BY <2>1, <2>3, <2>4, <2>5, <2>6, <2>7 DEF Inv, RunInv
  <1> QED BY <1>1, <1>2

\* A compression, from the beginning to its answer.
LEMMA CompressionPart ==
    ASSUME Inv, BeginCompressOnly \/ RunCompression \/ CompressionEnds \/ CompactWithoutRouter
    PROVE  Inv'
  <1>1. CASE BeginCompressOnly
    <2>1. /\ step = "start" /\ step' = "compressing" /\ ~IsContext /\ BeginCompress(request.job)
          /\ UNCHANGED <<request, asked, waiting, answers, snapshot, visible, warnings, answer>>
      BY <1>1 DEF BeginCompressOnly, aggregatorVars, IsContext
    <2>2. output = NoOutput /\ llmCall = "none"
      BY <2>1 DEF Inv, RunInv, Compressing
    <2>3. PICK j : j = request.job
      OBVIOUS
    <2>4. CompressionInv' /\ job' = j /\ UNCHANGED <<failing, tries>>
      BY <2>1, <2>2, <2>3, CompressionBegins
    <2>5. Shape'
      BY <2>1, <2>4 DEF Inv, Shape, AnswersOK, IsContext
    <2>6. ~HasSnapshot /\ ~HasSnapshot'
      BY <2>1 DEF HasSnapshot, IsContext
    <2>7. RunInv'
      BY <2>1, <2>3, <2>4 DEF RunInv, Compressing, IsContext
    <2>8. AnswerInv'
      BY <2>1 DEF AnswerInv
    <2> QED BY <2>1, <2>5, <2>6, <2>7, <2>8 DEF Inv, SnapshotInv, ViewInv
  <1>2. CASE RunCompression
    <2>1. /\ step = "compressing" /\ step' = "compressing" /\ CompressionSteps
          /\ UNCHANGED <<request, asked, waiting, answers, snapshot, visible, warnings, answer>>
          /\ UNCHANGED aggregatorVars
      BY <1>2 DEF RunCompression, aggregatorVars, requestVars
    <2>2. CompressionInv /\ tries \in 0..MaxRetries + 1 /\ "realtime" \notin failing
      BY <2>1, RequestsAssumption DEF Inv, Shape, RunInv, Compressing
    <2>3. CompressionInv' /\ tries' \in 0..MaxRetries + 1 /\ UNCHANGED <<failing, job>>
      BY <2>1, <2>2, JobTyped, CompressionStep
    <2>4. Shape'
      BY <2>1, <2>3 DEF Inv, Shape, AnswersOK, IsContext
    <2>5. RunInv'
      BY <2>1, <2>3 DEF Inv, RunInv, Compressing, IsContext, JobFor
    <2>6. SnapshotInv' /\ ViewInv'
      <3>1. CASE HasSnapshot
        <4>1. HasSnapshot'
          BY <2>1, <3>1 DEF HasSnapshot
        <4>2. SnapshotInv' /\ Exposed' = Exposed
          BY <2>1, <3>1, <4>1, SnapshotStays DEF Inv
        <4> QED BY <2>1, <3>1, <4>2 DEF Inv, ViewInv
      <3>2. CASE ~HasSnapshot
        <4>1. ~HasSnapshot'
          BY <2>1, <3>2 DEF HasSnapshot
        <4> QED BY <2>1, <3>2, <4>1 DEF Inv, SnapshotInv, ViewInv
      <3> QED BY <3>1, <3>2
    <2>7. AnswerInv'
      BY <2>1 DEF AnswerInv
    <2> QED BY <2>4, <2>5, <2>6, <2>7 DEF Inv
  <1>3. CASE CompressionEnds
    <2>1. /\ step = "compressing" /\ step' = "answered" /\ output # NoOutput
          /\ answer' = [is |-> "compressed", kept |-> output.kept, llm |-> output.llm,
                        degraded |-> output.degraded]
          /\ warnings' = warnings \/ warnings' = warnings \cup {"output degraded"}
          /\ UNCHANGED <<request, asked, waiting, answers, snapshot, visible, failing, job, schedule,
                         llmCall, tries, output>>
          /\ UNCHANGED aggregatorVars
      BY <1>3 DEF CompressionEnds, aggregatorVars, compressionVars
    <2>2. Shape'
      BY <2>1 DEF Inv, Shape, AnswersOK, IsContext
    <2>3. CompressionInv => CompressionInv'
      BY <2>1, CompressionStays
    <2>4. RunInv'
      BY <2>1, <2>3 DEF Inv, RunInv, Compressing, IsContext, JobFor
    <2>5. SnapshotInv' /\ ViewInv'
      <3>1. CASE HasSnapshot
        <4>1. HasSnapshot'
          BY <2>1, <3>1 DEF HasSnapshot
        <4>2. SnapshotInv' /\ Exposed' = Exposed
          BY <2>1, <3>1, <4>1, SnapshotStays DEF Inv
        <4>3. "degraded" \in warnings' <=> "degraded" \in warnings
          BY <2>1
        <4> QED BY <2>1, <3>1, <4>2, <4>3 DEF Inv, ViewInv
      <3>2. CASE ~HasSnapshot
        <4>1. ~HasSnapshot'
          BY <2>1, <3>2 DEF HasSnapshot
        <4> QED BY <2>1, <3>2, <4>1 DEF Inv, SnapshotInv, ViewInv
      <3> QED BY <3>1, <3>2
    <2>6. AnswerInv'
      BY <2>1 DEF AnswerInv
    <2> QED BY <2>2, <2>4, <2>5, <2>6 DEF Inv
  <1>4. CASE CompactWithoutRouter
    <2>1. /\ step = "start" /\ step' = "answered" /\ ~IsContext
          /\ answer' = [is |-> "compressed", kept |-> TruncatedToBudget(request.job), llm |-> FALSE,
                        degraded |-> TRUE]
          /\ UNCHANGED <<request, asked, waiting, answers, snapshot, visible, warnings, failing,
                         llmCall, tries, output>>
      BY <1>4 DEF CompactWithoutRouter, aggregatorVars, IsContext
    <2>2. output = NoOutput /\ llmCall = "none"
      BY <2>1 DEF Inv, RunInv, Compressing
    <2>3. Shape'
      BY <2>1 DEF Inv, Shape, AnswersOK, IsContext
    <2>4. ~HasSnapshot /\ ~HasSnapshot' /\ ~Compressing'
      BY <2>1, <2>2 DEF HasSnapshot, Compressing, IsContext
    <2>5. AnswerInv'
      <3>1. PICK kept : kept = TruncatedToBudget(request.job)
        OBVIOUS
      <3>2. answer'.degraded = TRUE /\ answer'.llm = FALSE
        BY <2>1, <3>1
      <3> QED BY <2>1, <3>2 DEF AnswerInv, IsContext
    <2> QED BY <2>1, <2>2, <2>3, <2>4, <2>5 DEF Inv, SnapshotInv, ViewInv, RunInv
  <1> QED BY <1>1, <1>2, <1>3, <1>4

LEMMA NextInv == Inv /\ [Next]_vars => Inv'
  <1> SUFFICES ASSUME Inv, [Next]_vars PROVE Inv'
    OBVIOUS
  <1>1. CASE BeginContext \/ Gather \/ GatherEnds
    BY <1>1, AggregationStep
  <1>2. CASE RouteOutput \/ SearchEnds \/ SaveEnds
    BY <1>2, OutputStep
  <1>3. CASE BeginCompressOnly \/ RunCompression \/ CompressionEnds \/ CompactWithoutRouter
    BY <1>3, CompressionPart
  <1>4. CASE UNCHANGED vars
    <2>1. /\ UNCHANGED <<request, asked, waiting, answers, snapshot, visible, warnings, failing, job,
                         schedule, llmCall, tries, output, step, answer>>
          /\ UNCHANGED aggregatorVars
      BY <1>4 DEF vars, aggregatorVars, compressionVars, requestVars
    <2>2. Shape' /\ AnswerInv'
      BY <2>1 DEF Inv, Shape, AnswersOK, IsContext, AnswerInv
    <2>3. CompressionInv => CompressionInv'
      BY <2>1, CompressionStays
    <2>4. RunInv'
      BY <2>1, <2>3 DEF Inv, RunInv, Compressing, IsContext, JobFor
    <2>5. SnapshotInv' /\ ViewInv'
      <3>1. CASE HasSnapshot
        <4>1. HasSnapshot'
          BY <2>1, <3>1 DEF HasSnapshot
        <4>2. SnapshotInv' /\ Exposed' = Exposed
          BY <2>1, <3>1, <4>1, SnapshotStays DEF Inv
        <4> QED BY <2>1, <3>1, <4>2 DEF Inv, ViewInv
      <3>2. CASE ~HasSnapshot
        <4>1. ~HasSnapshot'
          BY <2>1, <3>2 DEF HasSnapshot
        <4> QED BY <2>1, <3>2, <4>1 DEF Inv, SnapshotInv, ViewInv
      <3> QED BY <3>1, <3>2
    <2> QED BY <2>2, <2>4, <2>5 DEF Inv
  <1> QED BY <1>1, <1>2, <1>3, <1>4 DEF Next, Finished

LEMMA SpecInv == Spec => []Inv
  BY InitInv, NextInv, PTL DEF Spec

-----------------------------------------------------------------------------
(* What follows from it.                                                   *)

\* The shape of the state, with a snapshot that has one item per id and fits into
\* the budget (api/router.py, context_aggregator.py, compression_router.py).
THEOREM Typed == Spec => []TypeOK
  <1>1. Inv => TypeOK
    <2> SUFFICES ASSUME Inv PROVE TypeOK
      OBVIOUS
    <2>1. \A i, j \in DOMAIN snapshot.items : snapshot.items[i].id = snapshot.items[j].id => i = j
      <3>1. CASE HasSnapshot
        <4>1. AnswersOK /\ request.budget \in Nat /\ snapshot = CutRanking
          BY <3>1, RequestsAssumption DEF Inv, Shape, SnapshotInv, HasSnapshot
        <4>2. PICK r \in Seq(ContextItems) : r = Ranking /\ IdsDiffer(r)
          BY <4>1, RankingHolds
        <4>3. PICK items \in Seq(ContextItems) : items = snapshot.items
          BY <4>1, CutRankingHolds
        <4>4. PICK n \in 0..Len(r) : Len(items) = n /\ \A i \in 1..n : items[i] = r[i]
          BY <4>1, <4>2, <4>3, CutRankingHolds
        <4>5. \A i, j \in 1..Len(r) : r[i].id = r[j].id => i = j
          BY <4>2 DEF IdsDiffer, Distinguished, Elements
        <4>6. DOMAIN items = 1..n /\ \A i \in 1..n : i \in 1..Len(r)
          BY <4>4
        <4> QED BY <4>3, <4>4, <4>5, <4>6
      <3>2. CASE ~HasSnapshot
        <4>1. snapshot.items = <<>>
          BY <3>2 DEF Inv, SnapshotInv, NoSnapshot
        <4> QED BY <4>1
      <3> QED BY <3>1, <3>2
    <2>2. step \notin {"start", "aggregating"} /\ request.kind = "context" =>
             TotalTokens(snapshot.items) = snapshot.total /\ snapshot.total <= request.budget
      <3> SUFFICES ASSUME HasSnapshot
                   PROVE  TotalTokens(snapshot.items) = snapshot.total /\ snapshot.total <= request.budget
        BY DEF HasSnapshot
      <3>1. AnswersOK /\ request.budget \in Nat /\ snapshot = CutRanking
        BY RequestsAssumption DEF Inv, Shape, SnapshotInv, HasSnapshot
      <3> QED BY <3>1, CutRankingHolds
    <2>3. output = NoOutput \/ output.kept \subseteq Indices
      BY DEF Inv, RunInv, CompressionInv
    <2> QED BY <2>1, <2>2, <2>3 DEF TypeOK, Inv, Shape, AnswersOK
  <1> QED BY <1>1, SpecInv, PTL

\* Whatever the sources do and the policy hides, the caller of api/router.py is
\* warned exactly when a source that was asked is missing from the merge.
THEOREM MissingNamed == Spec => []MissingSourcesAreNamed
  <1>1. Inv => MissingSourcesAreNamed
    <2> SUFFICES ASSUME Inv, IsContext, step = "answered"
                 PROVE  "degraded" \in warnings <=> \E s \in asked : ~Merged(s)
      BY DEF MissingSourcesAreNamed, IsContext
    <2>1. HasSnapshot
      BY DEF HasSnapshot, IsContext
    <2>2. "degraded" \in warnings <=> snapshot.degraded # {}
      BY <2>1 DEF Inv, ViewInv
    <2>3. snapshot.degraded = {s \in asked : ~Merged(s)}
      BY <2>1 DEF Inv, SnapshotInv, CutRanking, Degraded
    <2> QED BY <2>2, <2>3
  <1> QED BY <1>1, SpecInv, PTL

\* For all lists the sources may return: an item that is eligible and the best with its
\* id is in the snapshot, or nothing in the snapshot has a lower score
\* (_deduplicate(), the ranking and _select_within_budget() of context_aggregator.py).
THEOREM BestKept == Spec => []NothingBetterLeftOut
  <1>1. Inv => NothingBetterLeftOut
    <2> SUFFICES ASSUME Inv, HasSnapshot, NEW n \in DOMAIN Collected,
                        Eligible(Collected[n]), BestCollected(n),
                        NEW score, score = ScoreFor(Collected[n], request.task, request.role)
                 PROVE  \/ [Collected[n] EXCEPT !.score = score] \in ToSet(snapshot.items)
                        \/ \A k \in DOMAIN snapshot.items : snapshot.items[k].score >= score
      BY DEF NothingBetterLeftOut, BestCollected, ScoreFor
    <2>1. AnswersOK /\ request.budget \in Nat /\ snapshot = CutRanking
      BY RequestsAssumption DEF Inv, Shape, SnapshotInv, HasSnapshot
    <2>2. PICK r \in Seq(ContextItems) : r = Ranking /\ ByScore(r)
      BY <2>1, RankingHolds
    <2>3. PICK items \in Seq(ContextItems) : items = snapshot.items
      BY <2>1, CutRankingHolds
    <2>4. PICK m \in 0..Len(r) : Len(items) = m /\ \A i \in 1..m : items[i] = r[i]
      BY <2>1, <2>2, <2>3, CutRankingHolds
    <2>5. DOMAIN items = 1..m
      BY <2>4
    <2>6. PICK item \in ContextItems : item = Collected[n]
      BY <2>1, CollectedType
    <2>7. PICK scored : scored = [item EXCEPT !.score = score]
      OBVIOUS
    <2>8. scored.score = score
      BY <2>6, <2>7 DEF ContextItems
    <2>9. scored \in Elements(r)
      BY <2>1, <2>2, <2>6, <2>7, RankingHolds
    <2>10. PICK p \in 1..Len(r) : scored = r[p]
      BY <2>9 DEF Elements
    <2>11. CASE p <= m
      <3>1. scored \in ToSet(items)
        BY <2>4, <2>5, <2>10, <2>11 DEF ToSet
      <3> QED BY <2>3, <2>6, <2>7, <3>1
    <2>12. CASE ~(p <= m)
      <3>1. \A k \in 1..m : k \in 1..Len(r) /\ k < p
        BY <2>12
      <3>2. \A k \in 1..m : items[k].score >= score
        BY <2>2, <2>4, <2>8, <2>10, <3>1 DEF ByScore
      <3> QED BY <2>3, <2>5, <3>2
    <2> QED BY <2>11, <2>12
  <1> QED BY <1>1, SpecInv, PTL

\* A context that the aggregator cut to its budget fits for the strategies too.
LEMMA ContextFits ==
    ASSUME Inv, IsContext, Compressing, visible.total > 0
    PROVE  job = JobFor(visible) /\ Fits
  <1>1. HasSnapshot /\ step # "merged"
    BY DEF HasSnapshot, IsContext, Compressing
  <1>2. visible.total <= request.budget
    BY <1>1, ViewFits DEF Inv, ViewInv
  <1>3. job = JobFor(visible)
    BY DEF Inv, RunInv
  <1> QED BY <1>2, <1>3 DEF Fits, JobFor

\* A compaction that does not fit uses more than its budget: it is urgent.
LEMMA CompactionIsUrgent ==
    ASSUME Inv, Compressing, request.kind = "compact", job.total # 0, ~Fits
    PROVE  Urgent
  <1>1. request \in Requests /\ job = request.job
    BY DEF Inv, Shape, RunInv, IsContext
  <1>2. job.budget \in Nat \ {0} /\ job.total \in Nat /\ job.used = job.total /\ job.task = "compaction"
    BY <1>1, RequestsAssumption
  <1>3. PICK budget \in Nat, total \in Nat : budget = job.budget /\ total = job.total
    BY <1>2
  <1>4. budget > 0 /\ total > budget
    BY <1>2, <1>3 DEF Fits
  <1>5. 100 * total > 95 * budget
    BY <1>4
  <1>6. MoreThan(job, 95)
    BY <1>2, <1>3, <1>4, <1>5 DEF MoreThan
  <1>7. PICK chosen : chosen = <<"compaction">>
    OBVIOUS
  <1>8. ~Contains(chosen, "realtime")
    BY <1>7 DEF Contains
  <1>9. "compaction" \in Strategies
    BY DEF Strategies
  <1>10. Schedule(job) = <<"realtime">> \o chosen
    BY <1>2, <1>6, <1>7, <1>8, <1>9 DEF Schedule
  <1> QED BY <1>7, <1>10 DEF Urgent

\* A message that is missing is missing because the LLM rewrote the context, or from
\* an output that says it is degraded; for all messages, budgets and failing strategies
\* (compression_router.py, strategy_scheduler.py and strategies/).
THEOREM LossIsNamed == Spec => []NothingLostSilently
  <1>1. Inv => NothingLostSilently
    <2> SUFFICES ASSUME Inv, step = "answered", answer.is = "compressed", ~answer.llm, answer.kept # Indices
                 PROVE  \/ answer.degraded
                        \/ output.by = "compaction" /\ (request.kind = "compress" \/ job.total = 0)
      BY DEF NothingLostSilently
    <2>1. CASE ~IsContext /\ answer.degraded = TRUE /\ answer.llm = FALSE
      BY <2>1
    <2>2. CASE /\ output # NoOutput
               /\ answer = [is |-> "compressed", kept |-> output.kept, llm |-> output.llm,
                            degraded |-> output.degraded]
      <3>1. answer.kept = output.kept /\ answer.llm = output.llm /\ answer.degraded = output.degraded
        BY <2>2
      <3>2. Compressing /\ CompressionInv
        BY <2>2 DEF Inv, RunInv, Compressing
      <3>3. output.degraded = TRUE \/ output.by = "compaction"
        BY <2>2, <3>1, <3>2 DEF CompressionInv
      <3>4. ~Fits
        BY <2>2, <3>1, <3>2 DEF CompressionInv
      <3>5. CASE output.by = "compaction" /\ job.total # 0
        <4>1. ~Urgent
          BY <2>2, <3>2, <3>5 DEF CompressionInv
        <4>2. request.kind # "compact"
          BY <3>2, <3>4, <3>5, <4>1, CompactionIsUrgent
        <4>3. request.kind # "context"
          <5> SUFFICES ASSUME IsContext PROVE FALSE
            BY DEF IsContext
          <5>1. HasSnapshot /\ step # "merged"
            BY DEF HasSnapshot, IsContext
          <5>2. visible.total \in Nat
            BY <5>1, ViewFits DEF Inv, ViewInv
          <5>3. job = JobFor(visible)
            BY <3>2 DEF Inv, RunInv
          <5>4. visible.total > 0
            <6>1. job.total = visible.total
              BY <5>3 DEF JobFor
            <6>2. visible.total # 0
              BY <3>5, <6>1
            <6>3. \A n \in Nat : n # 0 => n > 0
              OBVIOUS
            <6> QED BY <5>2, <6>2, <6>3
          <5> QED BY <3>2, <3>4, <5>4, ContextFits
        <4>4. request.kind = "compress"
          BY <4>2, <4>3, RequestsAssumption DEF Inv, Shape
        <4> QED BY <3>5, <4>4
      <3> QED BY <3>1, <3>3, <3>5
    <2> QED BY <2>1, <2>2 DEF Inv, AnswerInv
  <1> QED BY <1>1, SpecInv, PTL

\* The aggregator and the strategies agree on what fits: no context that was
\* aggregated within its budget is cut or rewritten afterwards.
THEOREM AggregatedStays == Spec => []AggregatedIsNotCut
  <1>1. Inv => AggregatedIsNotCut
    <2> SUFFICES ASSUME Inv, IsContext, step = "answered", answer.is = "compressed", visible.total > 0
                 PROVE  answer.kept = DOMAIN visible.items /\ ~answer.llm
      BY DEF AggregatedIsNotCut, IsContext
    <2>1. /\ output # NoOutput
          /\ answer = [is |-> "compressed", kept |-> output.kept, llm |-> output.llm,
                       degraded |-> output.degraded]
      BY DEF Inv, AnswerInv
    <2>2. answer.kept = output.kept /\ answer.llm = output.llm
      BY <2>1
    <2>3. Compressing /\ CompressionInv
      BY <2>1 DEF Inv, RunInv, Compressing
    <2>4. job = JobFor(visible) /\ Fits
      BY <2>3, ContextFits
    <2>5. answer.kept = Indices /\ answer.llm = FALSE
      BY <2>1, <2>2, <2>3, <2>4 DEF CompressionInv
    <2>6. Indices = DOMAIN visible.items
      BY <2>4 DEF Indices, JobFor, Messages
    <2> QED BY <2>5, <2>6
  <1> QED BY <1>1, SpecInv, PTL
-----------------------------------------------------------------------------
(* OpenClaw: the values of the variables, and what is inductive.           *)

\* The operations a client may ask for, and what it may post.
Operations == {"none", "bootstrap", "ingest", "assemble", "after_turn", "compact", "recall",
               "delete", "context", "write", "used"}

Posted == [op : Operations, messages : Seq(Message), ids : SUBSET Nat, limit : Nat]

MemoryTypes == {"procedural", "semantic", "episodic", "variable"}

NoteRecords == [call : CallIds, message : Message, uses : Nat, type : MemoryTypes]
TaskRecords == [call : CallIds, messages : Seq(Message)]
CallRecords ==
    [stage : {"unused", "sent", "lost", "writing", "answered", "failed"},
     client : {"idle", "waiting", "answered", "rejected"},
     request : Posted, todo : Seq(Message), ltm : Seq(Message), persist : BOOLEAN,
     count : Nat, ids : SUBSET Nat, shown : SUBSET Nat]

\* The variables have values of their types.
PluginsTyped ==
    /\ memory \in Wirings
    /\ notes \in Seq(NoteRecords)
    /\ queue \in Seq(TaskRecords) /\ stored \in Seq(TaskRecords)
    /\ calls \in [CallIds -> CallRecords]
    /\ pending \in SUBSET Nat

\* What of its messages a call has left in the working memory and is still to leave there.
WritesOf(wired, c, call, left) ==
    LET sent == NotBlank(call.request.messages)
    IN /\ IsPrefix(left, LeftBy(c, sent))
       /\ call.stage \in {"unused", "sent", "lost"} => left = <<>>
       /\ call.stage = "writing" =>
            /\ wired # "absent"
            /\ wired = "none" => call.todo = <<>>
            /\ wired # "none" => LeftBy(c, sent) = left \o LeftBy(c, call.todo)
       /\ (call.stage = "answered" /\ call.request.op \in Ingestions /\ wired \notin {"none", "absent"}) =>
            left = LeftBy(c, sent)

\* What it has collected for its task and has still to look at.
TaskOf(wired, c, call, tasks) ==
    LET worth == WorthKeeping(NotBlank(call.request.messages), call.request.op # "bootstrap")
    IN /\ call.stage # "answered" => tasks = <<>>
       /\ call.stage \in {"unused", "sent", "lost"} => call.ltm = <<>>
       /\ call.stage = "writing" =>
            /\ call.request.op \in Ingestions /\ call.persist = (call.request.op # "bootstrap")
            /\ wired = "orchestrated" => worth = call.ltm \o WorthKeeping(call.todo, call.persist)
       /\ (call.stage = "answered" /\ call.request.op \in Ingestions /\ wired \notin {"none", "absent"}) =>
            tasks = IF wired = "orchestrated" /\ worth # <<>>
                    THEN <<[call |-> c, messages |-> worth]>> ELSE <<>>

\* What is left of a conversation that was truncated.
CutOf(wired, call) ==
    (call.request.op = "compact" /\ wired = "absent" /\ call.stage = "answered") =>
        call.todo = TruncateToBudget(call.request.messages, call.request.limit)

\* The account of a call: the items in the session and the tasks that are its own, and what it
\* has still to write and to look at, add up to its messages.
Accounted(wired, c, call, left, tasks) ==
    /\ call.client = "idle" => call.stage = "unused"
    /\ WritesOf(wired, c, call, left)
    /\ TaskOf(wired, c, call, tasks)
    /\ CutOf(wired, call)

\* Inductive: AnsweredIsKept says nothing of what a call is still to write, and would not
\* survive the step that writes it.
PluginsInv ==
    PluginsTyped /\ \A c \in CallIds : Accounted(memory, c, calls[c], NotesOf(c), TasksOf(c))
-----------------------------------------------------------------------------
(* Messages.                                                               *)

LEMMA ClassifyMessageType ==
    ASSUME NEW message
    PROVE  ClassifyMessage(message).type \in MemoryTypes /\ ClassifyMessage(message).persist \in BOOLEAN
  <1> DEFINE applies(rule) == rule.mark \in message.marks /\ (rule.roles = {} \/ message.role \in rule.roles)
  <1>1. PICK r : r = Keep(Rules, {rule \in ToSet(Rules) : applies(rule)})
    OBVIOUS
  <1>2. PICK S : S = [mark : {"preference", "profile", "conclusion"}, roles : {{}, {"user"}},
                      type : MemoryTypes, category : {"preferences", "profile", "events"}]
    OBVIOUS
  <1>3. Rules \in Seq(S) /\ \A rule \in S : rule.type \in MemoryTypes
    <2>1. PICK a \in S : a = Rules[1]
      BY <1>2 DEF Rules, MemoryTypes
    <2>2. PICK b \in S : b = Rules[2]
      BY <1>2 DEF Rules, MemoryTypes
    <2>3. PICK d \in S : d = Rules[3]
      BY <1>2 DEF Rules, MemoryTypes
    <2>4. Rules = <<a, b, d>>
      BY <2>1, <2>2, <2>3 DEF Rules
    <2>5. <<a, b, d>> \in Seq(S)
      OBVIOUS
    <2> QED BY <1>2, <2>4, <2>5
  <1>4. r \in Seq(S)
    BY <1>1, <1>3, KeepSequence
  <1>5. r # <<>> => Head(r).type \in MemoryTypes
    BY <1>3, <1>4
  <1> HIDE DEF applies
  <1> QED BY <1>1, <1>5 DEF ClassifyMessage, applies, MemoryTypes

LEMMA SignalType ==
    ASSUME NEW message, NEW p \in BOOLEAN
    PROVE  Signal(message, p).type \in MemoryTypes /\ Signal(message, p).persist \in BOOLEAN
  <1>1. DOMAIN DefaultCategoryForType = MemoryTypes
    BY DEF DefaultCategoryForType, MemoryTypes
  <1> QED BY <1>1, ClassifyMessageType DEF Signal

LEMMA NotBlankType ==
    ASSUME NEW messages \in Seq(Message)
    PROVE  NotBlank(messages) \in Seq(Message)
  BY KeepSequence DEF NotBlank

LEMMA NothingSent == NotBlank(<<>>) = <<>> /\ \A p : WorthKeeping(<<>>, p) = <<>>
  BY KeepEmpty DEF NotBlank, WorthKeeping

\* What is worth keeping, message by message.
LEMMA WorthStep ==
    ASSUME NEW s \in Seq(Message), s # <<>>, NEW p
    PROVE  /\ WorthKeeping(s, p) \in Seq(Message) /\ WorthKeeping(Tail(s), p) \in Seq(Message)
           /\ Kept(Head(s), p) => WorthKeeping(s, p) = <<Head(s)>> \o WorthKeeping(Tail(s), p)
           /\ ~Kept(Head(s), p) => WorthKeeping(s, p) = WorthKeeping(Tail(s), p)
  <1> DEFINE W == {message \in Message : Kept(message, p)}
             good(t) == {message \in ToSet(t) : Kept(message, p)}
  <1>1. ASSUME NEW t \in Seq(Message) PROVE WorthKeeping(t, p) = Keep(t, W)
    <2>1. PICK S : S = ToSet(t) 
      OBVIOUS
    <2>2. t \in Seq(S) /\ S \subseteq Message
      BY <2>1, OfItsElements DEF ToSet
    <2>3. \A x \in S : x \in good(t) <=> x \in W
      BY <2>1, <2>2
    <2>4. WorthKeeping(t, p) = Keep(t, good(t))
      BY DEF WorthKeeping
    <2> HIDE DEF W, good
    <2> QED BY <2>2, <2>3, <2>4, KeepSame
  <1>2. PICK e, t : e = Head(s) /\ t = Tail(s)
    OBVIOUS
  <1>3. e \in Message /\ t \in Seq(Message) /\ (e \in W <=> Kept(e, p))
    BY <1>2
  <1>4. WorthKeeping(s, p) = Keep(s, W) /\ WorthKeeping(t, p) = Keep(t, W)
    BY <1>1, <1>3
  <1> HIDE DEF W, good
  <1>5. Keep(s, W) \in Seq(Message) /\ Keep(t, W) \in Seq(Message)
    BY <1>3, KeepSequence
  <1>6. /\ e \in W => Keep(s, W) # <<>> /\ Head(Keep(s, W)) = e /\ Keep(t, W) = Tail(Keep(s, W))
        /\ e \notin W => Keep(t, W) = Keep(s, W)
    BY <1>2, KeepHead
  <1>7. \A r \in Seq(Message) : r # <<>> => r = <<Head(r)>> \o Tail(r)
    OBVIOUS
  <1> QED BY <1>2, <1>3, <1>4, <1>5, <1>6, <1>7

\* Items of the working memory as Left shows them.
Lefts == [call : CallIds, message : Message]

LEMMA LeftByStep ==
    ASSUME NEW c \in CallIds, NEW s \in Seq(Message)
    PROVE  /\ LeftBy(c, s) \in Seq(Lefts) /\ (s = <<>> => LeftBy(c, s) = <<>>)
           /\ s # <<>> => /\ Tail(s) \in Seq(Message) /\ LeftBy(c, Tail(s)) \in Seq(Lefts)
                          /\ LeftBy(c, s) = <<[call |-> c, message |-> Head(s)]>> \o LeftBy(c, Tail(s))
  <1>1. ASSUME NEW t \in Seq(Message)
        PROVE  /\ LeftBy(c, t) \in Seq(Lefts) /\ Len(LeftBy(c, t)) = Len(t)
               /\ \A i \in 1..Len(t) : LeftBy(c, t)[i] = [call |-> c, message |-> t[i]]
    <2>1. DOMAIN t = 1..Len(t) /\ \A i \in 1..Len(t) : t[i] \in Message
      OBVIOUS
    <2>2. Len(t) \in Nat
      OBVIOUS
    <2>3. PICK r : r = LeftBy(c, t)
      OBVIOUS
    <2>4. r = [i \in 1..Len(t) |-> [call |-> c, message |-> t[i]]]
      BY <2>1, <2>3 DEF LeftBy
    <2>5. \A i \in 1..Len(t) : [call |-> c, message |-> t[i]] \in Lefts
      BY <2>1 DEF Lefts
    <2> QED BY <2>2, <2>3, <2>4, <2>5
  <1>2. ASSUME s = <<>> PROVE LeftBy(c, s) = <<>>
    <2>1. PICK r : r = LeftBy(c, s)
      OBVIOUS
    <2>2. r \in Seq(Lefts) /\ Len(r) = 0
      BY <1>1, <1>2, <2>1
    <2> QED BY <2>1, <2>2
  <1>3. ASSUME s # <<>>
        PROVE  /\ Tail(s) \in Seq(Message)
               /\ LeftBy(c, s) = <<[call |-> c, message |-> Head(s)]>> \o LeftBy(c, Tail(s))
    <2>1. PICK t : t = Tail(s)
      OBVIOUS
    <2>2. t \in Seq(Message) /\ Len(s) = Len(t) + 1 /\ Len(t) \in Nat
          /\ Head(s) = s[1] /\ \A i \in 1..Len(t) : s[i + 1] = t[i]
      BY <1>3, <2>1
    <2>3. PICK a, b : a = LeftBy(c, s) /\ b = LeftBy(c, t)
      OBVIOUS
    <2>4. PICK e : e = [call |-> c, message |-> Head(s)]
      OBVIOUS
    <2>5. /\ a \in Seq(Lefts) /\ Len(a) = Len(s) /\ a[1] = e
          /\ b \in Seq(Lefts) /\ Len(b) = Len(t)
          /\ \A i \in 1..Len(t) : a[i + 1] = b[i]
      <3>1. /\ a \in Seq(Lefts) /\ Len(a) = Len(s)
            /\ \A i \in 1..Len(s) : a[i] = [call |-> c, message |-> s[i]]
        BY <1>1, <2>3
      <3>2. /\ b \in Seq(Lefts) /\ Len(b) = Len(t)
            /\ \A i \in 1..Len(t) : b[i] = [call |-> c, message |-> t[i]]
        BY <1>1, <2>2, <2>3
      <3>3. 1 \in 1..Len(s) /\ \A i \in 1..Len(t) : i + 1 \in 1..Len(s)
        BY <2>2
      <3>4. ASSUME NEW i \in 1..Len(t) PROVE a[i + 1] = b[i]
        <4>1. a[i + 1] = [call |-> c, message |-> s[i + 1]]
          BY <3>1, <3>3
        <4> QED BY <2>2, <3>2, <4>1
      <3>5. a[1] = e
        BY <2>2, <2>4, <3>1, <3>3
      <3> QED BY <3>1, <3>2, <3>4, <3>5
    <2>6. e \in Lefts
      BY <2>2, <1>3, <2>4 DEF Lefts
    <2>7. a = <<e>> \o b
      <3>1. PICK u : u = Tail(a)
        OBVIOUS
      <3>2. /\ a = <<Head(a)>> \o u /\ Head(a) = a[1] /\ u \in Seq(Lefts)
            /\ Len(u) = Len(t) /\ \A i \in 1..Len(t) : u[i] = a[i + 1]
        BY <2>2, <2>5, <3>1
      <3>3. u = b
        <4>1. Len(u) = Len(b) /\ \A i \in 1..Len(u) : u[i] = b[i]
          BY <2>5, <3>2
        <4>2. u \in Seq(Lefts) /\ b \in Seq(Lefts)
          BY <2>5, <3>2
        <4> QED BY <4>1, <4>2, SeqEqual
      <3> QED BY <2>5, <3>2, <3>3
    <2> QED BY <2>1, <2>2, <2>3, <2>4, <2>7
  <1> QED BY <1>1, <1>2, <1>3
-----------------------------------------------------------------------------
(* The requests of the clients.                                            *)

LEMMA RequestType ==
    ASSUME NEW op \in Operations, NEW messages \in Seq(Message)
    PROVE  Request(op, messages) \in Posted
  <1>1. {} \in SUBSET Nat /\ 0 \in Nat
    OBVIOUS
  <1> QED BY <1>1 DEF Request, Posted

LEMMA RequestWithType ==
    ASSUME NEW posted \in Posted, NEW ids \in SUBSET Nat, NEW limit \in Nat
    PROVE  [posted EXCEPT !.ids = ids] \in Posted /\ [posted EXCEPT !.limit = limit] \in Posted
  BY DEF Posted

LEMMA OneMessage ==
    ASSUME NEW messages \in Seq(Message), NEW i \in DOMAIN messages
    PROVE  messages[i] \in Message /\ <<messages[i]>> \in Seq(Message)
  OBVIOUS

LEMMA ExchangeType ==
    ASSUME NEW messages \in Seq(Message)
    PROVE  Exchange(messages) \in Message
  <1> DEFINE said == [i \in {"user", "assistant"} |-> OfRole(messages, i)]
             parts == {Last(said[i]) : i \in {j \in DOMAIN said : said[j] # <<>>}}
  <1>1. ASSUME NEW part \in parts PROVE part \in Message
    <2>1. PICK i \in {"user", "assistant"} : OfRole(messages, i) # <<>> /\ part = Last(OfRole(messages, i))
      OBVIOUS
    <2>2. PICK r : r = OfRole(messages, i)
      OBVIOUS
    <2>3. r \in Seq(Message)
      BY <2>2, KeepSequence DEF OfRole
    <2>4. Len(r) \in 1..Len(r)
      BY <2>1, <2>2, <2>3
    <2> QED BY <2>1, <2>2, <2>3, <2>4 DEF Last
  <1> HIDE DEF parts
  <1>2. UNION {part.marks : part \in parts} \in SUBSET Markers
    <2>1. \A part \in parts : part.marks \in SUBSET Markers
      BY <1>1 DEF Message
    <2> QED BY <2>1
  <1>3. (\A part \in parts : part.blank) \in BOOLEAN
    OBVIOUS
  <1>4. "conversation" \in Roles /\ "" \in RequestedTypes
    BY DEF Roles, RequestedTypes
  <1>5. Exchange(messages) = [role |-> "conversation", asked |-> "", blank |-> \A part \in parts : part.blank,
                              marks |-> UNION {part.marks : part \in parts}, len |-> 0]
    BY DEF Exchange, parts
  <1>6. PICK marks \in SUBSET Markers : marks = UNION {part.marks : part \in parts}
    BY <1>2
  <1>7. PICK blank \in BOOLEAN : blank = (\A part \in parts : part.blank)
    BY <1>3
  <1>8. Exchange(messages) = [role |-> "conversation", asked |-> "", blank |-> blank, marks |-> marks, len |-> 0]
    BY <1>5, <1>6, <1>7
  <1>9. 0 \in Nat
    OBVIOUS
  <1>10. PICK role \in Roles, type \in RequestedTypes : role = "conversation" /\ type = ""
    BY <1>4
  <1>11. [role |-> role, asked |-> type, blank |-> blank, marks |-> marks, len |-> 0] \in Message
    BY <1>9 DEF Message
  <1> QED BY <1>8, <1>10, <1>11

\* A client posts requests.
LEMMA ClientPosts ==
    ASSUME PluginsTyped, NEW c \in CallIds, ClientCall(c)
    PROVE  /\ \E posted \in Posted : Post(c, posted)
           /\ UNCHANGED <<client, pending>>
  <1> USE DEF Operations
  <1>1. ASSUME NEW messages \in Sessions PROVE messages \in Seq(Message)
    BY ClientsAssumption
  <1>2. ASSUME NEW messages \in SessionFiles PROVE messages \in Seq(Message)
    <2>1. <<>> \in Seq(Message)
      OBVIOUS
    <2> QED BY <1>2, <2>1, ClientsAssumption DEF SessionFiles
  <1>3. CASE Bootstrap(c)
    BY <1>2, <1>3, RequestType DEF Bootstrap
  <1>4. CASE Ingest(c)
    <2>1. PICK messages \in Sessions : \E i \in DOMAIN messages :
            Post(c, Request("ingest", <<messages[i]>>)) /\ UNCHANGED <<client, pending>>
      BY <1>4 DEF Ingest
    <2>2. PICK i \in DOMAIN messages :
            Post(c, Request("ingest", <<messages[i]>>)) /\ UNCHANGED <<client, pending>>
      BY <2>1
    <2>3. Request("ingest", <<messages[i]>>) \in Posted
      BY <1>1, OneMessage, RequestType
    <2> QED BY <2>2, <2>3
  <1>5. CASE IngestBatch(c)
    BY <1>1, <1>5, RequestType DEF IngestBatch
  <1>6. CASE Assemble(c)
    BY <1>1, <1>6, RequestType DEF Assemble
  <1>7. CASE AfterTurn(c)
    <2>1. PICK messages \in Sessions : \E before \in 0..Len(messages) :
            LET replies == OfRole(SubSeq(messages, before + 1, Len(messages)), "assistant")
            IN /\ replies # <<>>
               /\ Post(c, [Request("after_turn", <<Last(replies)>>) EXCEPT !.ids = pending])
               /\ UNCHANGED <<client, pending>>
      BY <1>7 DEF AfterTurn
    <2>a. PICK before \in 0..Len(messages) :
            LET replies == OfRole(SubSeq(messages, before + 1, Len(messages)), "assistant")
            IN /\ replies # <<>>
               /\ Post(c, [Request("after_turn", <<Last(replies)>>) EXCEPT !.ids = pending])
               /\ UNCHANGED <<client, pending>>
      BY <2>1
    <2>2. PICK part : part = SubSeq(messages, before + 1, Len(messages))
      OBVIOUS
    <2>3. part \in Seq(Message)
      BY <1>1, <2>2
    <2>4. PICK replies : replies = OfRole(part, "assistant")
      OBVIOUS
    <2>5. replies \in Seq(Message)
      BY <2>3, <2>4, KeepSequence DEF OfRole
    <2>6. replies # <<>> /\ Post(c, [Request("after_turn", <<Last(replies)>>) EXCEPT !.ids = pending])
          /\ UNCHANGED <<client, pending>>
      BY <2>a, <2>2, <2>4
    <2>7. Last(replies) \in Message /\ <<Last(replies)>> \in Seq(Message)
      BY <2>5, <2>6 DEF Last
    <2>8. pending \in SUBSET Nat /\ 0 \in Nat
      BY DEF PluginsTyped
    <2>9. [Request("after_turn", <<Last(replies)>>) EXCEPT !.ids = pending] \in Posted
      BY <2>7, <2>8, RequestType, RequestWithType
    <2> QED BY <2>6, <2>9
  <1>8. CASE Compact(c)
    <2>1. PICK messages \in SessionFiles, limit \in Budgets :
            Post(c, [Request("compact", messages) EXCEPT !.limit = limit]) /\ UNCHANGED <<client, pending>>
      BY <1>8 DEF Compact
    <2>2. {} \in SUBSET Nat /\ limit \in Nat
      BY ClientsAssumption
    <2>3. [Request("compact", messages) EXCEPT !.limit = limit] \in Posted
      BY <1>2, <2>2, RequestType, RequestWithType
    <2> QED BY <2>1, <2>3
  <1>9. <<>> \in Seq(Message)
    OBVIOUS
  <1>10. CASE Recall(c)
    BY <1>9, <1>10, RequestType DEF Recall
  <1>11. CASE Forget(c)
    BY <1>9, <1>11, RequestType DEF Forget
  <1>12. CASE Retrieve(c)
    BY <1>9, <1>12, RequestType DEF Retrieve
  <1>13. CASE PersistExchange(c)
    <2>1. PICK messages \in Sessions :
            Post(c, Request("write", <<Exchange(messages)>>)) /\ UNCHANGED <<client, pending>>
      BY <1>13 DEF PersistExchange
    <2>2. Exchange(messages) \in Message
      BY <1>1, ExchangeType
    <2>3. <<Exchange(messages)>> \in Seq(Message)
      BY <2>2
    <2>4. Request("write", <<Exchange(messages)>>) \in Posted
      BY <2>3, RequestType
    <2> QED BY <2>1, <2>4
  <1>14. CASE Store(c)
    <2>1. PICK messages \in Sessions, type \in OfferedTypes : \E i \in DOMAIN messages :
            /\ Post(c, Request("write", <<[messages[i] EXCEPT !.asked = type, !.role = "user"]>>))
            /\ UNCHANGED <<client, pending>>
      BY <1>14 DEF Store
    <2>2. PICK i \in DOMAIN messages :
            /\ Post(c, Request("write", <<[messages[i] EXCEPT !.asked = type, !.role = "user"]>>))
            /\ UNCHANGED <<client, pending>>
      BY <2>1
    <2>3. messages[i] \in Message
      BY <1>1, OneMessage
    <2>4. "user" \in Roles /\ type \in RequestedTypes
      BY DEF OfferedTypes, Roles, RequestedTypes
    <2>5. PICK message : message = [messages[i] EXCEPT !.asked = type, !.role = "user"]
      OBVIOUS
    <2>6. message \in Message
      BY <2>3, <2>4, <2>5 DEF Message
    <2>7. <<message>> \in Seq(Message)
      BY <2>6
    <2>8. Request("write", <<message>>) \in Posted
      BY <2>7, RequestType
    <2> QED BY <2>2, <2>5, <2>8
  <1>15. CASE ReportUsed(c)
    <2>1. Post(c, [Request("used", <<>>) EXCEPT !.ids = DOMAIN notes]) /\ UNCHANGED <<client, pending>>
      BY <1>15 DEF ReportUsed
    <2>2. DOMAIN notes \in SUBSET Nat /\ 0 \in Nat
      BY DEF PluginsTyped
    <2>3. [Request("used", <<>>) EXCEPT !.ids = DOMAIN notes] \in Posted
      BY <1>9, <2>2, RequestType, RequestWithType
    <2> QED BY <2>1, <2>3
  <1> QED BY <1>3, <1>4, <1>5, <1>6, <1>7, <1>8, <1>10, <1>11, <1>12, <1>13, <1>14, <1>15 DEF ClientCall
-----------------------------------------------------------------------------
(* The truncation.                                                         *)

LEMMA CostType == \A message \in Message : Cost(message) \in Nat
  <1>1. \A n \in Nat : n \div 4 \in Nat
    OBVIOUS
  <1>2. \A message \in Message : message.len \in Nat
    BY DEF Message
  <1> QED BY <1>1, <1>2 DEF Cost

\* The tokens of the messages of a conversation.
LEMMA CostsList ==
    ASSUME NEW s \in Seq(Message)
    PROVE  \E costs \in Seq(Nat) :
             /\ Costs(s) = Total(costs) /\ Len(costs) = Len(s)
             /\ \A i \in 1..Len(s) : costs[i] = Cost(s[i])
  <1>1. DOMAIN s = 1..Len(s) /\ Len(s) \in Nat /\ \A i \in 1..Len(s) : Cost(s[i]) \in Nat
    BY CostType
  <1>2. PICK d : d = [i \in DOMAIN s |-> Cost(s[i])]
    OBVIOUS
  <1>3. d = [i \in 1..Len(s) |-> Cost(s[i])]
    BY <1>1, <1>2
  <1>4. d \in Seq(Nat) /\ Len(d) = Len(s) /\ \A i \in 1..Len(s) : d[i] = Cost(s[i])
    BY <1>1, <1>3
  <1> QED BY <1>2, <1>4 DEF Costs

LEMMA CostsType ==
    ASSUME NEW s \in Seq(Message)
    PROVE  Costs(s) \in Nat
  <1>1. PICK costs \in Seq(Nat) : Costs(s) = Total(costs)
    BY CostsList
  <1> QED BY <1>1, TotalType

\* From the first message.
LEMMA CostsStep ==
    ASSUME NEW message \in Message, NEW s \in Seq(Message)
    PROVE  Costs(<<message>> \o s) = Cost(message) + Costs(s)
  <1>1. PICK t : t = <<message>> \o s
    OBVIOUS
  <1>2. /\ t \in Seq(Message) /\ Len(t) = Len(s) + 1 /\ Len(s) \in Nat
        /\ t[1] = message /\ \A i \in 1..Len(s) : t[i + 1] = s[i]
    BY <1>1
  <1>3. PICK a \in Seq(Nat) : Costs(s) = Total(a) /\ Len(a) = Len(s) /\ \A i \in 1..Len(s) : a[i] = Cost(s[i])
    BY CostsList
  <1>4. PICK b \in Seq(Nat) : Costs(t) = Total(b) /\ Len(b) = Len(t) /\ \A i \in 1..Len(t) : b[i] = Cost(t[i])
    BY <1>2, CostsList
  <1>5. PICK e \in Nat : e = Cost(message)
    BY CostType
  <1>6. b = <<e>> \o a
    <2>1. PICK u : u = Tail(b)
      OBVIOUS
    <2>2. /\ b = <<Head(b)>> \o u /\ Head(b) = b[1] /\ u \in Seq(Nat)
          /\ Len(u) = Len(s) /\ \A i \in 1..Len(s) : u[i] = b[i + 1]
      BY <1>2, <1>4, <2>1
    <2>3. 1 \in 1..Len(t) /\ \A i \in 1..Len(s) : i + 1 \in 1..Len(t)
      BY <1>2
    <2>4. b[1] = e
      BY <1>2, <1>4, <1>5, <2>3
    <2>5. \A i \in 1..Len(s) : u[i] = a[i]
      BY <1>2, <1>3, <1>4, <2>2, <2>3
    <2>6. u = a
      <3>1. Len(u) = Len(a) /\ \A i \in 1..Len(u) : u[i] = a[i]
        BY <1>3, <2>2, <2>5
      <3>2. u \in Seq(Nat) /\ a \in Seq(Nat)
        BY <2>2
      <3> QED BY <3>1, <3>2, SeqEqual
    <2> QED BY <2>2, <2>4, <2>6
  <1>7. a \in Seq(Int)
    OBVIOUS
  <1>8. Total(b) = e + Total(a)
    BY <1>5, <1>6, <1>7, TotalHead
  <1> QED BY <1>1, <1>3, <1>4, <1>5, <1>8

LEMMA CostsOfNothing == Costs(<<>>) = 0
  <1>1. [i \in DOMAIN <<>> |-> Cost(<<>>[i])] = <<>>
    OBVIOUS
  <1> QED BY <1>1, TotalEmpty DEF Costs

\* The newest n messages.
End(s, n) == SubSeq(s, Len(s) - n + 1, Len(s))

LEMMA EndStep ==
    ASSUME NEW s \in Seq(Message), NEW n \in Nat, n < Len(s)
    PROVE  /\ s[Len(s) - n] \in Message /\ End(s, n) \in Seq(Message) /\ Len(End(s, n)) = n
           /\ End(s, n + 1) = <<s[Len(s) - n]>> \o End(s, n)
  <1>1. PICK m \in Nat : m = Len(s) /\ \A i \in 1..m : s[i] \in Message
    OBVIOUS
  <1>2. PICK k \in 1..m : k = m - n
    BY <1>1
  <1>3. Len(s) - (n + 1) + 1 = k /\ Len(s) - n + 1 = k + 1 /\ Len(s) - n = k
    BY <1>1, <1>2
  <1>4. SubSeq(s, k, m) = <<s[k]>> \o SubSeq(s, k + 1, m)
    <2>1. k \in 1..Len(s) /\ m \in k..Len(s)
      BY <1>1
    <2> QED BY <2>1, SubSeqRecursiveFirst
  <1>5. SubSeq(s, k + 1, m) \in Seq(Message) /\ Len(SubSeq(s, k + 1, m)) = n
    <2>1. PICK j \in Int : j = k + 1 /\ (\A i \in j..m : s[i] \in Message) /\ m \in Int
      BY <1>1
    <2>2. SubSeq(s, j, m) \in Seq(Message) /\ Len(SubSeq(s, j, m)) = IF j <= m THEN m - j + 1 ELSE 0
      BY <2>1, SubSeqProperties
    <2> QED BY <1>2, <2>1, <2>2
  <1> QED BY <1>1, <1>3, <1>4, <1>5 DEF End

\* What has been taken after the newest n messages.
Takings == [over : BOOLEAN, budget : Int, kept : Seq(Message)]
NewestMessage(messages, n) == messages[Len(messages) - n + 1]
TakingMessage(messages, n, last) ==
    IF last.over \/ last.budget < Cost(NewestMessage(messages, n)) THEN [last EXCEPT !.over = TRUE]
    ELSE [over |-> FALSE, budget |-> last.budget - Cost(NewestMessage(messages, n)),
          kept |-> <<NewestMessage(messages, n)>> \o last.kept]

LEMMA TakingExists ==
    ASSUME NEW messages \in Seq(Message), NEW limit \in Nat
    PROVE  \E f \in [0..Len(messages) -> Takings] :
             /\ f[0] = [over |-> FALSE, budget |-> limit, kept |-> <<>>]
             /\ \A n \in 1..Len(messages) : f[n] = TakingMessage(messages, n, f[n - 1])
             /\ TruncateToBudget(messages, limit) = f[Len(messages)].kept
  <1>1. PICK m \in Nat : m = Len(messages)
    OBVIOUS
  <1>2. PICK start : start = [over |-> FALSE, budget |-> limit, kept |-> <<>>]
    OBVIOUS
  <1>3. start \in Takings
    <2>1. <<>> \in Seq(Message) /\ limit \in Int
      OBVIOUS
    <2> QED BY <1>2, <2>1 DEF Takings
  <1>4. ASSUME NEW n \in 1..m, NEW last \in Takings PROVE TakingMessage(messages, n, last) \in Takings
    <2>1. PICK message \in Message : message = NewestMessage(messages, n)
      <3>1. Len(messages) - n + 1 \in 1..Len(messages)
        BY <1>1
      <3> QED BY <3>1 DEF NewestMessage
    <2>2. PICK cost \in Int : cost = Cost(message)
      BY CostType
    <2>3. last.over \in BOOLEAN /\ last.budget \in Int /\ last.kept \in Seq(Message)
      BY DEF Takings
    <2>4. <<message>> \o last.kept \in Seq(Message) /\ last.budget - cost \in Int
      BY <2>3
    <2>5. [last EXCEPT !.over = TRUE] \in Takings
      BY DEF Takings
    <2>6. [over |-> FALSE, budget |-> last.budget - cost, kept |-> <<message>> \o last.kept] \in Takings
      BY <2>4 DEF Takings
    <2> QED BY <2>1, <2>2, <2>5, <2>6 DEF TakingMessage
  <1>5. PICK Step : Step = [p \in Nat \X Takings |-> IF p[1] \in 1..m THEN TakingMessage(messages, p[1], p[2]) ELSE p[2]]
    OBVIOUS
  <1>6. Step \in [Nat \X Takings -> Takings]
    BY <1>4, <1>5
  <1>7. PICK f : Recurs(f, m, Takings, start, Step)
    BY <1>3, <1>6, Recursion
  <1>8. f \in [0..m -> Takings] /\ f[0] = start /\ \A n \in 1..m : f[n] = Step[<<n, f[n - 1]>>]
    BY <1>7 DEF Recurs
  <1>9. ASSUME NEW n \in 1..m PROVE f[n] = TakingMessage(messages, n, f[n - 1])
    <2>1. n - 1 \in 0..m /\ n \in Nat
      OBVIOUS
    <2>2. f[n - 1] \in Takings
      BY <1>8, <2>1
    <2>3. Step[<<n, f[n - 1]>>] = TakingMessage(messages, n, f[n - 1])
      BY <1>5, <2>1, <2>2
    <2> QED BY <1>8, <2>3
  <1> DEFINE Is(g) == g = [n \in 0..m |-> IF n = 0 THEN start ELSE TakingMessage(messages, n, g[n - 1])]
  <1>10. Is(f)
    <2>1. ASSUME NEW n \in 0..m PROVE f[n] = IF n = 0 THEN start ELSE TakingMessage(messages, n, f[n - 1])
      <3>1. n = 0 \/ n \in 1..m
        OBVIOUS
      <3> QED BY <1>8, <1>9, <3>1
    <2> QED BY <1>8, <2>1
  <1>11. PICK g : g = CHOOSE h : Is(h)
    OBVIOUS
  <1>12. Is(g)
    <2> HIDE DEF Is
    <2> QED BY <1>10, <1>11
  <1>13. TruncateToBudget(messages, limit) = g[m].kept
    BY <1>1, <1>2, <1>11 DEF TruncateToBudget, TakingMessage, NewestMessage
  <1>14. \A n \in 0..m : g[n] = IF n = 0 THEN start ELSE TakingMessage(messages, n, g[n - 1])
    BY <1>12, Zenon
  <1> DEFINE N == {n \in Nat : n <= m => g[n] = f[n]}
  <1>15. 0 \in N
    BY <1>8, <1>14
  <1>16. ASSUME NEW n \in Nat, n \in N PROVE n + 1 \in N
    <2> SUFFICES ASSUME n + 1 <= m PROVE g[n + 1] = f[n + 1]
      OBVIOUS
    <2>1. PICK j \in 1..m : j = n + 1 /\ j - 1 = n /\ j # 0 /\ j \in 0..m
      OBVIOUS
    <2>2. g[j] = TakingMessage(messages, j, g[n]) /\ f[j] = TakingMessage(messages, j, f[n])
      BY <1>9, <1>14, <2>1
    <2>3. g[n] = f[n]
      BY <1>16, <2>1
    <2> QED BY <2>1, <2>2, <2>3
  <1> HIDE DEF N, Is
  <1>17. m \in N
    BY <1>15, <1>16, NumberInduction
  <1>18. g[m] = f[m]
    BY <1>17 DEF N
  <1> QED BY <1>1, <1>2, <1>8, <1>9, <1>13, <1>18

\* The truncation takes the longest end that fits.
LEMMA TruncationTakesTheEnd ==
    ASSUME NEW messages \in Seq(Message), NEW limit \in Nat
    PROVE  LET kept == TruncateToBudget(messages, limit)
           IN /\ kept \in Seq(Message) /\ Costs(kept) <= limit
              /\ kept = End(messages, Len(kept))
              /\ Len(kept) < Len(messages) => Costs(End(messages, Len(kept) + 1)) > limit
  <1>1. PICK m \in Nat : m = Len(messages)
    OBVIOUS
  <1>2. PICK f \in [0..m -> Takings] :
             /\ f[0] = [over |-> FALSE, budget |-> limit, kept |-> <<>>]
             /\ \A n \in 1..m : f[n] = TakingMessage(messages, n, f[n - 1])
             /\ TruncateToBudget(messages, limit) = f[m].kept
    BY <1>1, TakingExists
  <1> DEFINE Good(n, t) ==
               /\ t.kept \in Seq(Message) /\ Len(t.kept) <= n /\ t.kept = End(messages, Len(t.kept))
               /\ t.budget = limit - Costs(t.kept) /\ t.budget >= 0
               /\ ~t.over => Len(t.kept) = n
               /\ t.over => Len(t.kept) < n /\ Costs(End(messages, Len(t.kept) + 1)) > limit
             N == {n \in Nat : n <= m => Good(n, f[n])}
  <1>3. 0 \in N
    <2>1. PICK t : t = f[0]
      OBVIOUS
    <2>2. t.kept = <<>> /\ t.over = FALSE /\ t.budget = limit
      BY <1>2, <2>1
    <2>3. End(messages, 0) = <<>>
      BY <1>1 DEF End
    <2>4. <<>> \in Seq(Message) /\ Len(<<>>) = 0
      OBVIOUS
    <2>5. Good(0, t)
      BY <2>2, <2>3, <2>4, CostsOfNothing
    <2> QED BY <2>1, <2>5
  <1>4. ASSUME NEW n \in Nat, n \in N PROVE n + 1 \in N
    <2> SUFFICES ASSUME n + 1 <= m PROVE Good(n + 1, f[n + 1])
      OBVIOUS
    <2>1. PICK j \in 1..m : j = n + 1 /\ j - 1 = n
      OBVIOUS
    <2>2. PICK t \in Takings : t = f[n]
      BY <2>1
    <2>3. PICK u : u = f[j]
      OBVIOUS
    <2>4. Good(n, t)
      BY <1>4, <2>1, <2>2
    <2>5. u = TakingMessage(messages, j, t)
      BY <1>2, <2>1, <2>2, <2>3
    <2>6. Len(messages) - j + 1 = Len(messages) - n
      BY <1>1, <2>1
    <2>7. PICK message \in Message : message = messages[Len(messages) - n]
      BY <1>1, <2>1
    <2>8. NewestMessage(messages, j) = message
      BY <2>6, <2>7 DEF NewestMessage
    <2>9. PICK cost \in Nat : cost = Cost(message)
      BY CostType
    <2>10. Costs(t.kept) \in Nat
      BY <2>4, CostsType
    <2>11. CASE t.over
      <3>1. u = [t EXCEPT !.over = TRUE]
        BY <2>5, <2>11 DEF TakingMessage
      <3>2. u.over = TRUE /\ u.budget = t.budget /\ u.kept = t.kept
        BY <3>1 DEF Takings
      <3>3. Good(j, u)
        BY <2>1, <2>4, <2>11, <3>2
      <3> QED BY <2>1, <2>3, <3>3
    <2>12. CASE ~t.over /\ t.budget < cost
      <3>1. u = [t EXCEPT !.over = TRUE]
        BY <2>5, <2>8, <2>9, <2>12 DEF TakingMessage
      <3>2. u.over = TRUE /\ u.budget = t.budget /\ u.kept = t.kept
        BY <3>1 DEF Takings
      <3>3. Len(t.kept) = n /\ t.kept = End(messages, n)
        BY <2>4, <2>12
      <3>4. End(messages, n + 1) = <<message>> \o t.kept
        BY <1>1, <2>1, <2>7, <3>3, EndStep
      <3>5. Costs(End(messages, n + 1)) = cost + Costs(t.kept)
        BY <2>4, <2>9, <3>4, CostsStep
      <3>6. Costs(End(messages, Len(u.kept) + 1)) > limit
        BY <2>4, <2>10, <2>12, <3>2, <3>3, <3>5
      <3>7. Good(j, u)
        BY <2>1, <2>4, <3>2, <3>3, <3>6
      <3> QED BY <2>1, <2>3, <3>7
    <2>13. CASE ~t.over /\ ~(t.budget < cost)
      <3>1. PICK kept : kept = <<message>> \o t.kept
        OBVIOUS
      <3>2. u.over = FALSE /\ u.budget = t.budget - cost /\ u.kept = kept
        BY <2>5, <2>8, <2>9, <2>13, <3>1 DEF TakingMessage
      <3>3. Len(t.kept) = n /\ t.kept = End(messages, n)
        BY <2>4, <2>13
      <3>a. End(messages, n + 1) = <<message>> \o End(messages, n)
        <4>1. n < Len(messages)
          BY <1>1
        <4>2. End(messages, n + 1) = <<messages[Len(messages) - n]>> \o End(messages, n)
          BY <4>1, EndStep
        <4> QED BY <2>7, <4>2
      <3>4. End(messages, n + 1) = kept
        BY <3>1, <3>3, <3>a
      <3>5. Costs(kept) = cost + Costs(t.kept)
        BY <2>4, <2>9, <3>1, CostsStep
      <3>6. kept \in Seq(Message) /\ Len(kept) = n + 1
        BY <2>4, <3>1, <3>3
      <3>7. u.budget = limit - Costs(kept) /\ u.budget >= 0
        BY <2>4, <2>10, <2>13, <3>2, <3>5
      <3>8. Good(j, u)
        BY <2>1, <3>2, <3>4, <3>6, <3>7
      <3> QED BY <2>1, <2>3, <3>8
    <2> QED BY <2>11, <2>12, <2>13
  <1> HIDE DEF N, Good
  <1>5. m \in N
    BY <1>3, <1>4, NumberInduction
  <1>6. PICK t \in Takings : t = f[m]
    BY <1>1
  <1>7. Good(m, t)
    BY <1>5, <1>6 DEF N
  <1>9. Costs(t.kept) \in Nat
    BY <1>7, CostsType DEF Good
  <1>10. TruncateToBudget(messages, limit) = t.kept
    BY <1>2, <1>6
  <1> QED BY <1>1, <1>7, <1>9, <1>10 DEF Good

-----------------------------------------------------------------------------
(* The session and the tasks.                                              *)

\* What a list of items shows of them, item by item.
LEMMA LeftShows ==
    ASSUME notes \in Seq(NoteRecords)
    PROVE  /\ Left \in Seq(Lefts) /\ Len(Left) = Len(notes)
           /\ \A i \in 1..Len(notes) : Left[i] = [call |-> notes[i].call, message |-> notes[i].message]
  <1>1. DOMAIN notes = 1..Len(notes) /\ Len(notes) \in Nat /\ \A i \in 1..Len(notes) : notes[i] \in NoteRecords
    OBVIOUS
  <1>2. \A i \in 1..Len(notes) : [call |-> notes[i].call, message |-> notes[i].message] \in Lefts
    BY <1>1 DEF NoteRecords, Lefts
  <1>3. PICK l : l = Left
    OBVIOUS
  <1>4. l = [i \in 1..Len(notes) |-> [call |-> notes[i].call, message |-> notes[i].message]]
    BY <1>1, <1>3 DEF Left
  <1>5. l \in Seq(Lefts) /\ Len(l) = Len(notes)
    BY <1>1, <1>2, <1>4
  <1> QED BY <1>3, <1>4, <1>5

LEMMA LeftType ==
    ASSUME PluginsTyped
    PROVE  Left \in Seq(Lefts) /\ \A c : NotesOf(c) \in Seq(Lefts)
  <1>1. Left \in Seq(Lefts)
    BY LeftShows DEF PluginsTyped
  <1> QED BY <1>1, KeepSequence DEF NotesOf

\* Another item.
LEMMA LeftAppends ==
    ASSUME PluginsTyped, NEW note \in NoteRecords, notes' = Append(notes, note)
    PROVE  /\ notes' \in Seq(NoteRecords)
           /\ Left' = Append(Left, [call |-> note.call, message |-> note.message])
  <1>1. notes \in Seq(NoteRecords)
    BY DEF PluginsTyped
  <1>2. PICK e \in Lefts : e = [call |-> note.call, message |-> note.message]
    BY DEF NoteRecords, Lefts
  <1>3. PICK after : after = notes'
    OBVIOUS
  <1>4. /\ after \in Seq(NoteRecords) /\ Len(after) = Len(notes) + 1 /\ Len(notes) \in Nat
        /\ after[Len(notes) + 1] = note /\ \A i \in 1..Len(notes) : after[i] = notes[i]
    BY <1>1, <1>3
  <1>5. PICK l, m, k : l = Left /\ m = Append(Left, e) /\ k = Len(notes)
    OBVIOUS
  <1>6. /\ l \in Seq(Lefts) /\ Len(l) = k
        /\ \A i \in 1..k : l[i] = [call |-> notes[i].call, message |-> notes[i].message]
    BY <1>1, <1>5, LeftShows
  <1>7. /\ m \in Seq(Lefts) /\ Len(m) = k + 1 /\ m[k + 1] = e
        /\ \A i \in 1..k : m[i] = l[i]
    BY <1>5, <1>6
  <1>8. DOMAIN after = 1..(k + 1)
    BY <1>4, <1>5
  <1>9. \A i \in 1..(k + 1) : m[i] = [call |-> after[i].call, message |-> after[i].message]
    <2>1. ASSUME NEW i \in 1..(k + 1) PROVE i = k + 1 \/ i \in 1..k
      BY <1>4, <1>5
    <2> QED BY <2>1, <1>2, <1>4, <1>5, <1>6, <1>7
  <1>10. m = [i \in 1..(k + 1) |-> [call |-> after[i].call, message |-> after[i].message]]
    <2>1. m \in Seq(Lefts) /\ Len(m) = k + 1
      BY <1>7
    <2>2. DOMAIN m = 1..(k + 1) /\ m = [i \in DOMAIN m |-> m[i]]
      BY <2>1
    <2> QED BY <1>9, <2>2
  <1>11. Left' = [i \in DOMAIN after |-> [call |-> after[i].call, message |-> after[i].message]]
    BY <1>3 DEF Left
  <1> QED BY <1>2, <1>3, <1>4, <1>5, <1>8, <1>10, <1>11

\* The uses are nobody's writing.
LEMMA CreditLeaves ==
    ASSUME PluginsTyped, NEW ids, notes' = Credited(ids)
    PROVE  notes' \in Seq(NoteRecords) /\ Left' = Left
  <1>1. PICK k \in Nat : k = Len(notes) /\ DOMAIN notes = 1..k /\ \A i \in 1..k : notes[i] \in NoteRecords
    BY DEF PluginsTyped
  <1>2. PICK after : after = notes'
    OBVIOUS
  <1>3. after = [i \in 1..k |-> IF i \in ids THEN [notes[i] EXCEPT !.uses = @ + 1] ELSE notes[i]]
    BY <1>1, <1>2 DEF Credited
  <1>4. ASSUME NEW i \in 1..k
        PROVE  after[i] \in NoteRecords /\ after[i].call = notes[i].call /\ after[i].message = notes[i].message
    <2>1. PICK note \in NoteRecords : note = notes[i]
      BY <1>1
    <2>2. [note EXCEPT !.uses = @ + 1] \in NoteRecords
      BY DEF NoteRecords
    <2>3. [note EXCEPT !.uses = @ + 1].call = note.call /\ [note EXCEPT !.uses = @ + 1].message = note.message
      BY DEF NoteRecords
    <2>4. after[i] = note \/ after[i] = [note EXCEPT !.uses = @ + 1]
      BY <1>3, <2>1
    <2> QED BY <2>1, <2>2, <2>3, <2>4
  <1>5. after \in Seq(NoteRecords) /\ DOMAIN after = 1..k
    <2>1. DOMAIN after = 1..k /\ after = [i \in DOMAIN after |-> after[i]]
      BY <1>3
    <2>2. \A i \in 1..k : after[i] \in NoteRecords
      BY <1>4
    <2> QED BY <2>1, <2>2
  <1>6. Left' = [i \in DOMAIN after |-> [call |-> after[i].call, message |-> after[i].message]]
    BY <1>2 DEF Left
  <1>7. Left = [i \in 1..k |-> [call |-> notes[i].call, message |-> notes[i].message]]
    BY <1>1 DEF Left
  <1> QED BY <1>2, <1>4, <1>5, <1>6, <1>7

LEMMA SameNotes ==
    ASSUME Left' = Left
    PROVE  \A c : NotesOf(c)' = NotesOf(c)
  BY DEF NotesOf

\* An item of c is an item of nobody else.
LEMMA NotesOfAppend ==
    ASSUME PluginsTyped, NEW e \in Lefts, Left' = Append(Left, e)
    PROVE  \A c : NotesOf(c)' = IF e.call = c THEN Append(NotesOf(c), e) ELSE NotesOf(c)
  <1> SUFFICES ASSUME NEW c
               PROVE  NotesOf(c)' = IF e.call = c THEN Append(NotesOf(c), e) ELSE NotesOf(c)
    OBVIOUS
  <1>1. PICK Good : Good = [call : {c}, message : Message]
    OBVIOUS
  <1>2. e \in Good <=> e.call = c
    BY <1>1 DEF Lefts
  <1>3. Left \in Seq(Lefts)
    BY LeftType
  <1>4. Keep(Append(Left, e), Good) = IF e \in Good THEN Append(Keep(Left, Good), e) ELSE Keep(Left, Good)
    BY <1>3, KeepAppend
  <1> QED BY <1>1, <1>2, <1>4 DEF NotesOf

\* What the worker moves stays a task.
LEMMA SameTasks ==
    ASSUME stored' \o queue' = stored \o queue
    PROVE  \A c : TasksOf(c)' = TasksOf(c)
  BY DEF TasksOf

LEMMA TaskMoves ==
    ASSUME PluginsTyped, queue # <<>>, stored' = Append(stored, Head(queue)), queue' = Tail(queue)
    PROVE  /\ stored' \in Seq(TaskRecords) /\ queue' \in Seq(TaskRecords)
           /\ stored' \o queue' = stored \o queue
  <1>1. PICK s \in Seq(TaskRecords), q \in Seq(TaskRecords) : s = stored /\ q = queue
    BY DEF PluginsTyped
  <1>2. q # <<>>
    BY <1>1
  <1>3. Append(s, Head(q)) \in Seq(TaskRecords) /\ Tail(q) \in Seq(TaskRecords)
    BY <1>2
  <1>4. Append(s, Head(q)) \o Tail(q) = s \o q
    BY <1>2
  <1> QED BY <1>1, <1>3, <1>4

LEMMA TasksOfAppend ==
    ASSUME PluginsTyped, NEW task \in TaskRecords, queue' = Append(queue, task), stored' = stored
    PROVE  /\ queue' \in Seq(TaskRecords)
           /\ \A c : TasksOf(c)' = IF task.call = c THEN Append(TasksOf(c), task) ELSE TasksOf(c)
  <1>1. PICK s \in Seq(TaskRecords), q \in Seq(TaskRecords) : s = stored /\ q = queue
    BY DEF PluginsTyped
  <1>2. Append(q, task) \in Seq(TaskRecords) /\ s \o q \in Seq(TaskRecords)
        /\ s \o Append(q, task) = Append(s \o q, task)
    OBVIOUS
  <1>3. ASSUME NEW c PROVE TasksOf(c)' = IF task.call = c THEN Append(TasksOf(c), task) ELSE TasksOf(c)
    <2>1. PICK Good : Good = [call : {c}, messages : Seq(Message)]
      OBVIOUS
    <2>2. task \in Good <=> task.call = c
      BY <2>1 DEF TaskRecords
    <2>3. PICK all \in Seq(TaskRecords) : all = s \o q
      BY <1>2
    <2>4. Keep(Append(all, task), Good) = IF task \in Good THEN Append(Keep(all, Good), task) ELSE Keep(all, Good)
      BY KeepAppend
    <2>5. TasksOf(c) = Keep(all, Good)
      BY <1>1, <2>1, <2>3 DEF TasksOf
    <2>6. TasksOf(c)' = Keep(Append(all, task), Good)
      BY <1>1, <1>2, <2>1, <2>3 DEF TasksOf
    <2> QED BY <2>2, <2>4, <2>5, <2>6
  <1> QED BY <1>1, <1>2, <1>3

-----------------------------------------------------------------------------
(* What one call has left and handed over.                                 *)

\* The message that is next moves from what is to be written to what is written.
LEMMA LeftMoves ==
    ASSUME NEW c \in CallIds, NEW left \in Seq(Lefts), NEW todo \in Seq(Message), todo # <<>>
    PROVE  LET e == [call |-> c, message |-> Head(todo)]
           IN /\ e \in Lefts /\ Append(left, e) \in Seq(Lefts)
              /\ left \o LeftBy(c, todo) = Append(left, e) \o LeftBy(c, Tail(todo))
  <1>1. PICK e \in Lefts : e = [call |-> c, message |-> Head(todo)]
    BY HeadTailProperties DEF Lefts
  <1>2. PICK coming \in Seq(Lefts) : coming = LeftBy(c, Tail(todo))
    BY LeftByStep
  <1>3. LeftBy(c, todo) = <<e>> \o coming
    BY <1>1, <1>2, LeftByStep
  <1>4. Append(left, e) \in Seq(Lefts) /\ left \o (<<e>> \o coming) = Append(left, e) \o coming
    BY AppendConcat
  <1> QED BY <1>1, <1>2, <1>3, <1>4

\* And from what is to be looked at to what is collected, when it is worth keeping.
LEMMA WorthMoves ==
    ASSUME NEW ltm \in Seq(Message), NEW todo \in Seq(Message), todo # <<>>, NEW p
    PROVE  ltm \o WorthKeeping(todo, p) =
             (IF Kept(Head(todo), p) THEN Append(ltm, Head(todo)) ELSE ltm) \o WorthKeeping(Tail(todo), p)
  <1>1. PICK message \in Message : message = Head(todo)
    BY HeadTailProperties
  <1>2. PICK more \in Seq(Message) : more = WorthKeeping(Tail(todo), p)
    BY WorthStep
  <1>3. /\ Kept(message, p) => WorthKeeping(todo, p) = <<message>> \o more
        /\ ~Kept(message, p) => WorthKeeping(todo, p) = more
    BY <1>1, <1>2, WorthStep
  <1>4. ltm \o (<<message>> \o more) = Append(ltm, message) \o more
    BY AppendConcat
  <1> QED BY <1>1, <1>2, <1>3, <1>4

\* The account of a call in a state of its type, as the wiring of the moment has it.
Account(c, call, left, tasks) ==
    c \in CallIds /\ call \in CallRecords /\ left \in Seq(Lefts) /\ Accounted(memory, c, call, left, tasks)

\* A client posts a request.
LEMMA AccountPosted ==
    ASSUME NEW c, NEW call, NEW left, NEW tasks, Account(c, call, left, tasks),
           call.client = "idle", NEW posted \in Posted,
           NEW next, next = [call EXCEPT !.client = "waiting", !.stage = "sent", !.request = posted]
    PROVE  Account(c, next, left, tasks)
  <1>1. next \in CallRecords /\ next.client = "waiting" /\ next.stage = "sent" /\ next.request = posted /\ next.ltm = call.ltm
    BY DEF Account, CallRecords
  <1>2. call.stage = "unused" /\ left = <<>> /\ tasks = <<>> /\ call.ltm = <<>>
    BY DEF Account, Accounted, WritesOf, TaskOf
  <1>3. LeftBy(c, NotBlank(posted.messages)) \in Seq(Lefts)
    BY NotBlankType, LeftByStep DEF Account, Posted
  <1>4. IsPrefix(left, LeftBy(c, NotBlank(posted.messages)))
    BY <1>2, <1>3, EmptyPrefix
  <1> QED BY <1>1, <1>2, <1>4 DEF Account, Accounted, WritesOf, TaskOf, CutOf

\* Nothing a call has done depends on what its client knows of it.
LEMMA AccountOfClient ==
    ASSUME NEW c, NEW call, NEW left, NEW tasks, Account(c, call, left, tasks),
           NEW ending \in {"answered", "rejected"}, NEW next, next = [call EXCEPT !.client = ending]
    PROVE  Account(c, next, left, tasks)
  <1>1. /\ next \in CallRecords /\ next.client = ending /\ next.stage = call.stage /\ next.request = call.request
        /\ next.todo = call.todo /\ next.ltm = call.ltm /\ next.persist = call.persist
    BY DEF Account, CallRecords
  <1> QED BY <1>1 DEF Account, Accounted, WritesOf, TaskOf, CutOf

\* A call that ends without an answer.
LEMMA AccountEnded ==
    ASSUME NEW c, NEW call, NEW left, NEW tasks, Account(c, call, left, tasks),
           call.stage = "sent" \/ call.stage = "writing",
           NEW stage \in {"lost", "failed"}, stage = "lost" => call.stage = "sent",
           NEW next, next = [call EXCEPT !.stage = stage]
    PROVE  Account(c, next, left, tasks)
  <1>1. /\ next \in CallRecords /\ next.client = call.client /\ next.stage = stage /\ next.request = call.request
        /\ next.todo = call.todo /\ next.ltm = call.ltm /\ next.persist = call.persist
    BY DEF Account, CallRecords
  <1> QED BY <1>1 DEF Account, Accounted, WritesOf, TaskOf, CutOf

\* A call that is answered at once has nothing to write.
LEMMA AccountAnswered ==
    ASSUME NEW c, NEW call, NEW left, NEW tasks, Account(c, call, left, tasks), call.stage = "sent",
           call.request.op \in Ingestions => memory = "absent" \/ NotBlank(call.request.messages) = <<>>,
           NEW next \in CallRecords, next.client = call.client, next.request = call.request,
           next.stage = "answered", CutOf(memory, next)
    PROVE  Account(c, next, left, tasks)
  <1>1. left = <<>> /\ tasks = <<>>
    BY DEF Account, Accounted, WritesOf, TaskOf
  <1>2. CASE NotBlank(call.request.messages) = <<>>
    <2>1. LeftBy(c, <<>>) = <<>> /\ LeftBy(c, <<>>) \in Seq(Lefts)
      <3>1. <<>> \in Seq(Message)
        OBVIOUS
      <3> QED BY <3>1, LeftByStep DEF Account
    <2>2. \A p : WorthKeeping(<<>>, p) = <<>>
      BY NothingSent
    <2>3. IsPrefix(<<>>, <<>>)
      BY <2>1, EmptyPrefix
    <2> QED BY <1>1, <1>2, <2>1, <2>2, <2>3 DEF Account, Accounted, WritesOf, TaskOf
  <1>3. CASE call.request.op \notin Ingestions \/ memory = "absent"
    BY <1>1, <1>3 DEF Account, Accounted, WritesOf, TaskOf
  <1> QED BY <1>2, <1>3

\* A call begins to write its messages.
LEMMA AccountIngesting ==
    ASSUME NEW c, NEW call, NEW left, NEW tasks, Account(c, call, left, tasks), call.stage = "sent",
           call.request.op \in Ingestions, memory # "absent",
           NEW next, next = Ingesting(call, call.request.messages, call.request.op # "bootstrap")
    PROVE  Account(c, next, left, tasks)
  <1>1. PICK sent \in Seq(Message) : sent = NotBlank(call.request.messages)
    BY NotBlankType DEF Account, CallRecords, Posted
  <1>2. PICK todo \in Seq(Message) : todo = IF memory = "none" THEN <<>> ELSE sent
    <2>1. <<>> \in Seq(Message) /\ sent \in Seq(Message)
      OBVIOUS
    <2> QED BY <2>1
  <1>3. PICK persist \in BOOLEAN : persist = (call.request.op # "bootstrap")
    OBVIOUS
  <1>4. next = [call EXCEPT !.stage = "writing", !.persist = persist, !.todo = todo]
    BY <1>1, <1>2, <1>3 DEF Ingesting
  <1>5. /\ next \in CallRecords /\ next.client = call.client /\ next.stage = "writing" /\ next.request = call.request
        /\ next.todo = todo /\ next.ltm = call.ltm /\ next.persist = persist
    BY <1>4 DEF Account, CallRecords
  <1>6. left = <<>> /\ tasks = <<>> /\ call.ltm = <<>>
    BY DEF Account, Accounted, WritesOf, TaskOf
  <1>7. PICK all \in Seq(Lefts) : all = LeftBy(c, sent)
    BY LeftByStep DEF Account
  <1>8. IsPrefix(<<>>, all) /\ <<>> \o all = all
    BY EmptyPrefix
  <1>9. PICK worth \in Seq(Message) : worth = WorthKeeping(sent, persist)
    BY KeepSequence DEF WorthKeeping
  <1>10. <<>> \o worth = worth
    OBVIOUS
  <1>11. WritesOf(memory, c, next, left)
    BY <1>1, <1>2, <1>5, <1>6, <1>7, <1>8 DEF WritesOf
  <1>12. TaskOf(memory, c, next, tasks)
    BY <1>1, <1>2, <1>3, <1>5, <1>6, <1>9, <1>10 DEF TaskOf
  <1> QED BY <1>5, <1>11, <1>12 DEF Account, Accounted, CutOf

\* A call after its next message was written.
Written(call) ==
    [call EXCEPT !.todo = Tail(@), !.count = @ + 1,
                 !.ltm = IF memory # "plain" /\ Kept(Head(call.todo), call.persist)
                         THEN Append(@, Head(call.todo)) ELSE @]

LEMMA AccountWritten ==
    ASSUME NEW c, NEW call, NEW left, NEW tasks, Account(c, call, left, tasks),
           call.stage = "writing", call.todo # <<>>, NEW next, next = Written(call)
    PROVE  /\ Head(call.todo) \in Message
           /\ Account(c, next, Append(left, [call |-> c, message |-> Head(call.todo)]), tasks)
  <1>1. PICK todo \in Seq(Message), ltm \in Seq(Message), n \in Nat, persist \in BOOLEAN :
             todo = call.todo /\ ltm = call.ltm /\ n = call.count /\ persist = call.persist
    BY DEF Account, CallRecords
  <1>2. PICK message \in Message, rest \in Seq(Message) : message = Head(todo) /\ rest = Tail(todo)
    <2>1. todo # <<>>
      BY <1>1
    <2> QED BY <2>1, HeadTailProperties
  <1>3. PICK collected \in Seq(Message) :
             collected = IF memory # "plain" /\ Kept(message, persist) THEN Append(ltm, message) ELSE ltm
    <2>1. Append(ltm, message) \in Seq(Message)
      OBVIOUS
    <2> QED BY <2>1
  <1>4. next = [call EXCEPT !.todo = rest, !.count = n + 1, !.ltm = collected]
    BY <1>1, <1>2, <1>3 DEF Written
  <1>5. /\ next \in CallRecords /\ next.client = call.client /\ next.stage = "writing" /\ next.request = call.request
        /\ next.todo = rest /\ next.ltm = collected /\ next.persist = persist
    <2>1. call \in CallRecords /\ n + 1 \in Nat
      BY DEF Account
    <2> QED BY <1>1, <1>4, <2>1 DEF CallRecords
  <1>6. memory # "absent" /\ memory # "none"
    BY DEF Account, Accounted, WritesOf
  <1>7. PICK e \in Lefts, after \in Seq(Lefts) :
             /\ e = [call |-> c, message |-> message] /\ after = Append(left, e)
             /\ left \o LeftBy(c, todo) = after \o LeftBy(c, rest)
    BY <1>1, <1>2, LeftMoves DEF Account
  <1>8. WritesOf(memory, c, next, after)
    <2>1. PICK sent \in Seq(Message) : sent = NotBlank(call.request.messages)
      BY NotBlankType DEF Account, CallRecords, Posted
    <2>2. PICK coming \in Seq(Lefts) : coming = LeftBy(c, rest)
      BY LeftByStep DEF Account
    <2>3. LeftBy(c, sent) = after \o coming
      BY <1>1, <1>6, <1>7, <2>1, <2>2 DEF Account, Accounted, WritesOf
    <2>4. IsPrefix(after, LeftBy(c, sent))
      BY <2>3, PrefixOfConcat
    <2> QED BY <1>5, <1>6, <2>1, <2>2, <2>3, <2>4 DEF WritesOf
  <1>9. TaskOf(memory, c, next, tasks)
    <2>1. TaskOf(memory, c, call, tasks)
      BY DEF Account, Accounted
    <2>2. memory = "orchestrated" => ltm \o WorthKeeping(todo, persist) = collected \o WorthKeeping(rest, persist)
      <3>1. todo # <<>>
        BY <1>1
      <3>2. ltm \o WorthKeeping(todo, persist) =
              (IF Kept(Head(todo), persist) THEN Append(ltm, Head(todo)) ELSE ltm) \o WorthKeeping(Tail(todo), persist)
        BY <3>1, WorthMoves
      <3>3. memory = "orchestrated" => collected = IF Kept(message, persist) THEN Append(ltm, message) ELSE ltm
        BY <1>3
      <3> QED BY <1>2, <3>2, <3>3
    <2> QED BY <1>1, <1>5, <2>1, <2>2 DEF TaskOf
  <1> QED BY <1>1, <1>2, <1>5, <1>7, <1>8, <1>9 DEF Account, Accounted, CutOf

\* A call hands over what it collected.
HandedOver(c, call, tasks) ==
    IF call.ltm # <<>> /\ memory = "orchestrated" THEN Append(tasks, [call |-> c, messages |-> call.ltm]) ELSE tasks

LEMMA AccountEnqueued ==
    ASSUME NEW c, NEW call, NEW left, NEW tasks, Account(c, call, left, tasks),
           call.stage = "writing", call.todo = <<>>,
           NEW next, next = [call EXCEPT !.stage = "answered"]
    PROVE  Account(c, next, left, HandedOver(c, call, tasks))
  <1>1. PICK ltm \in Seq(Message) : ltm = call.ltm
    BY DEF Account, CallRecords
  <1>3. /\ next \in CallRecords /\ next.client = call.client /\ next.stage = "answered" /\ next.request = call.request
        /\ next.todo = call.todo /\ next.ltm = call.ltm /\ next.persist = call.persist
    BY DEF Account, CallRecords
  <1>4. call.client # "idle" /\ memory # "absent" /\ tasks = <<>> /\ call.request.op \in Ingestions
    BY DEF Account, Accounted, WritesOf, TaskOf
  <1>5. PICK sent \in Seq(Message) : sent = NotBlank(call.request.messages)
    BY NotBlankType DEF Account, CallRecords, Posted
  <1>6. memory # "none" => left = LeftBy(c, sent)
    <2>1. LeftBy(c, <<>>) = <<>>
      <3>1. <<>> \in Seq(Message)
        OBVIOUS
      <3> QED BY <3>1, LeftByStep DEF Account
    <2>2. memory # "none" => LeftBy(c, sent) = left \o <<>>
      BY <1>5, <2>1 DEF Account, Accounted, WritesOf
    <2>3. PICK l \in Seq(Lefts) : l = left
      BY DEF Account
    <2>4. l \o <<>> = l
      OBVIOUS
    <2> QED BY <2>2, <2>3, <2>4
  <1>7. WritesOf(memory, c, next, left)
    BY <1>3, <1>4, <1>5, <1>6 DEF Account, Accounted, WritesOf
  <1>8. memory = "orchestrated" => WorthKeeping(sent, call.request.op # "bootstrap") = ltm
    <2>1. \A p : WorthKeeping(<<>>, p) = <<>>
      BY NothingSent
    <2>2. ltm \o <<>> = ltm
      OBVIOUS
    <2> QED BY <1>1, <1>5, <2>1, <2>2 DEF Account, Accounted, TaskOf
  <1>9. Append(<<>>, [call |-> c, messages |-> ltm]) = <<[call |-> c, messages |-> ltm]>>
    OBVIOUS
  <1>10. TaskOf(memory, c, next, HandedOver(c, call, tasks))
    BY <1>1, <1>3, <1>4, <1>5, <1>8, <1>9 DEF TaskOf, HandedOver
  <1> QED BY <1>3, <1>4, <1>7, <1>10 DEF Account, Accounted, CutOf, Ingestions

-----------------------------------------------------------------------------
(* One step of one call.                                                   *)

LEMMA AccountOf ==
    ASSUME PluginsInv, NEW c \in CallIds
    PROVE  Account(c, calls[c], NotesOf(c), TasksOf(c))
  <1>1. NotesOf(c) \in Seq(Lefts)
    BY LeftType DEF PluginsInv
  <1> QED BY <1>1 DEF PluginsInv, PluginsTyped, Account

\* A step of one call.
LEMMA OneCallMoves ==
    ASSUME PluginsInv, NEW c \in CallIds, NEW next, calls' = [calls EXCEPT ![c] = next], memory' = memory,
           notes' \in Seq(NoteRecords), queue' \in Seq(TaskRecords), stored' \in Seq(TaskRecords),
           pending' \in SUBSET Nat, Account(c, next, NotesOf(c)', TasksOf(c)'),
           \A d \in CallIds : d # c => NotesOf(d)' = NotesOf(d) /\ TasksOf(d)' = TasksOf(d)
    PROVE  PluginsInv'
  <1>1. next \in CallRecords /\ calls \in [CallIds -> CallRecords]
    BY DEF Account, PluginsInv, PluginsTyped
  <1>2. /\ calls' \in [CallIds -> CallRecords] /\ calls'[c] = next
        /\ \A d \in CallIds : d # c => calls'[d] = calls[d]
    BY <1>1
  <1>3. PluginsTyped'
    BY <1>2 DEF PluginsInv, PluginsTyped
  <1>4. ASSUME NEW d \in CallIds PROVE Accounted(memory', d, calls'[d], NotesOf(d)', TasksOf(d)')
    <2>1. CASE d = c
      BY <1>2, <2>1 DEF Account
    <2>2. CASE d # c
      <3>1. Accounted(memory, d, calls[d], NotesOf(d), TasksOf(d))
        BY DEF PluginsInv
      <3> QED BY <1>2, <2>2, <3>1
    <2> QED BY <2>1, <2>2
  <1> QED BY <1>3, <1>4 DEF PluginsInv

\* One that leaves the lists alone, but for the uses.
LEMMA CallMoves ==
    ASSUME PluginsInv, NEW c \in CallIds, NEW next, calls' = [calls EXCEPT ![c] = next],
           UNCHANGED <<memory, queue, stored>>, notes' \in Seq(NoteRecords), Left' = Left,
           pending' \in SUBSET Nat, Account(c, next, NotesOf(c), TasksOf(c))
    PROVE  PluginsInv'
  <1>1. \A d : NotesOf(d)' = NotesOf(d)
    BY SameNotes
  <1>2. \A d : TasksOf(d)' = TasksOf(d)
    BY SameTasks
  <1>3. queue' \in Seq(TaskRecords) /\ stored' \in Seq(TaskRecords)
    BY DEF PluginsInv, PluginsTyped
  <1> QED BY <1>1, <1>2, <1>3, OneCallMoves

LEMMA CallMovesAlone ==
    ASSUME PluginsInv, NEW c \in CallIds, NEW next, calls' = [calls EXCEPT ![c] = next],
           UNCHANGED client, pending' \in SUBSET Nat, Account(c, next, NotesOf(c), TasksOf(c))
    PROVE  PluginsInv'
  <1>1. notes' \in Seq(NoteRecords) /\ Left' = Left
    BY DEF PluginsInv, PluginsTyped, client, Left
  <1> QED BY <1>1, CallMoves DEF client

-----------------------------------------------------------------------------
(* The steps of the clients.                                               *)

LEMMA ClientCallStep ==
    ASSUME PluginsInv, NEW c \in CallIds, ClientCall(c)
    PROVE  PluginsInv'
  <1>1. PICK posted \in Posted : Post(c, posted) /\ UNCHANGED <<client, pending>>
    BY ClientPosts DEF PluginsInv
  <1>2. PICK next : next = [calls[c] EXCEPT !.client = "waiting", !.stage = "sent", !.request = posted]
    OBVIOUS
  <1>3. calls' = [calls EXCEPT ![c] = next]
    BY <1>1, <1>2 DEF Post, PluginsInv, PluginsTyped
  <1>4. Account(c, next, NotesOf(c), TasksOf(c))
    BY <1>1, <1>2, AccountOf, AccountPosted DEF Post
  <1>5. pending' \in SUBSET Nat
    BY <1>1 DEF PluginsInv, PluginsTyped
  <1> QED BY <1>1, <1>3, <1>4, <1>5, CallMovesAlone

LEMMA EndingStep ==
    ASSUME PluginsInv, NEW c \in CallIds, NEW ending \in {"answered", "rejected"},
           calls' = [calls EXCEPT ![c].client = ending], UNCHANGED client, pending' \in SUBSET Nat
    PROVE  PluginsInv'
  <1>1. PICK next : next = [calls[c] EXCEPT !.client = ending]
    OBVIOUS
  <1>2. calls' = [calls EXCEPT ![c] = next]
    BY <1>1 DEF PluginsInv, PluginsTyped
  <1>3. Account(c, next, NotesOf(c), TasksOf(c))
    BY <1>1, AccountOf, AccountOfClient
  <1> QED BY <1>2, <1>3, CallMovesAlone

LEMMA AnswerArrivesStep ==
    ASSUME PluginsInv, NEW c \in CallIds, AnswerArrives(c)
    PROVE  PluginsInv'
  <1>1. pending \in SUBSET Nat /\ calls[c].ids \in SUBSET Nat /\ {} \in SUBSET Nat
    BY DEF PluginsInv, PluginsTyped, CallRecords
  <1>2. pending' = calls[c].ids \/ pending' = {} \/ pending' = pending
    BY DEF AnswerArrives
  <1> QED BY <1>1, <1>2, EndingStep DEF AnswerArrives

LEMMA RejectedStep ==
    ASSUME PluginsInv, NEW c \in CallIds, Rejected(c) \/ TimesOut(c)
    PROVE  PluginsInv'
  <1>1. calls' = [calls EXCEPT ![c].client = "rejected"] /\ UNCHANGED <<client, pending>>
    BY DEF Rejected, TimesOut
  <1>2. pending' \in SUBSET Nat
    BY <1>1 DEF PluginsInv, PluginsTyped
  <1> QED BY <1>1, <1>2, EndingStep

LEMMA LostStep ==
    ASSUME PluginsInv, NEW c \in CallIds, Lost(c)
    PROVE  PluginsInv'
  <1>1. PICK next : next = [calls[c] EXCEPT !.stage = "lost"]
    OBVIOUS
  <1>2. calls' = [calls EXCEPT ![c] = next]
    BY <1>1 DEF Lost, PluginsInv, PluginsTyped
  <1>3. Account(c, next, NotesOf(c), TasksOf(c))
    BY <1>1, AccountOf, AccountEnded DEF Lost
  <1>4. UNCHANGED client /\ pending' \in SUBSET Nat
    BY DEF Lost, PluginsInv, PluginsTyped
  <1> QED BY <1>2, <1>3, <1>4, CallMovesAlone

LEMMA DisposeStep ==
    ASSUME PluginsInv, Dispose
    PROVE  PluginsInv'
  <1>1. UNCHANGED <<memory, notes, queue, stored, calls>> /\ pending' = {}
    BY DEF Dispose, client
  <1>2. \A c : NotesOf(c)' = NotesOf(c) /\ TasksOf(c)' = TasksOf(c)
    BY <1>1, SameTasks, SameNotes DEF Left
  <1>3. {} \in SUBSET Nat
    OBVIOUS
  <1> QED BY <1>1, <1>2, <1>3 DEF PluginsInv, PluginsTyped

LEMMA WorkStep ==
    ASSUME PluginsInv, Work
    PROVE  PluginsInv'
  <1>1. UNCHANGED <<memory, notes, calls, pending>>
    BY DEF Work, ProcessTask
  <1>2. /\ stored' \in Seq(TaskRecords) /\ queue' \in Seq(TaskRecords)
        /\ stored' \o queue' = stored \o queue
    BY TaskMoves DEF Work, ProcessTask, PluginsInv
  <1>3. \A c : NotesOf(c)' = NotesOf(c) /\ TasksOf(c)' = TasksOf(c)
    BY <1>1, <1>2, SameTasks, SameNotes DEF Left
  <1> QED BY <1>1, <1>2, <1>3 DEF PluginsInv, PluginsTyped

-----------------------------------------------------------------------------
(* The steps of the service.                                               *)

LEMMA ReceivedMoves ==
    ASSUME PluginsInv, NEW c \in CallIds, NEW op, NEW next, Received(c, op, next),
           UNCHANGED <<memory, queue, stored, pending>>, notes' = notes \/ \E ids : notes' = Credited(ids),
           Account(c, next, NotesOf(c), TasksOf(c))
    PROVE  PluginsInv'
  <1>1. notes' \in Seq(NoteRecords) /\ Left' = Left
    <2>1. CASE notes' = notes
      BY <2>1 DEF PluginsInv, PluginsTyped, Left
    <2>2. CASE \E ids : notes' = Credited(ids)
      BY <2>2, CreditLeaves DEF PluginsInv
    <2> QED BY <2>1, <2>2
  <1>2. calls' = [calls EXCEPT ![c] = next] /\ pending' \in SUBSET Nat
    BY DEF Received, PluginsInv, PluginsTyped
  <1> QED BY <1>1, <1>2, CallMoves

\* The stage and the operation of a request that is received.
LEMMA ReceivedCall ==
    ASSUME PluginsInv, NEW c \in CallIds, NEW op, NEW next, Received(c, op, next)
    PROVE  /\ Account(c, calls[c], NotesOf(c), TasksOf(c)) /\ calls[c] \in CallRecords
           /\ calls[c].stage = "sent" /\ calls[c].request.op = op
           /\ calls[c].request.messages \in Seq(Message) /\ calls[c].request.limit \in Nat
  <1>1. calls[c] \in CallRecords
    BY DEF PluginsInv, PluginsTyped
  <1>2. calls[c].request \in Posted
    BY <1>1 DEF CallRecords
  <1> QED BY <1>1, <1>2, AccountOf DEF Received, Posted

\* A request that is answered or refused with nothing written.
LEMMA AnswerKept ==
    ASSUME NEW c, NEW call, NEW left, NEW tasks, Account(c, call, left, tasks), call.stage = "sent",
           call.request.op \in Ingestions => memory = "absent" \/ NotBlank(call.request.messages) = <<>>,
           call.request.op # "compact" \/ memory # "absent"
    PROVE  /\ Account(c, Answer(call), left, tasks)
           /\ \A shown \in SUBSET Nat, ids \in SUBSET Nat :
                /\ Account(c, [Answer(call) EXCEPT !.shown = shown], left, tasks)
                /\ Account(c, [Answer(call) EXCEPT !.shown = shown, !.ids = ids], left, tasks)
  <1>1. ASSUME NEW next \in CallRecords, next.client = call.client, next.request = call.request,
               next.stage = "answered"
        PROVE  Account(c, next, left, tasks)
    BY <1>1, AccountAnswered DEF CutOf
  <1>2. /\ Answer(call) \in CallRecords /\ Answer(call).client = call.client
        /\ Answer(call).request = call.request /\ Answer(call).stage = "answered"
    BY DEF Answer, Account, CallRecords
  <1>3. ASSUME NEW shown \in SUBSET Nat, NEW ids \in SUBSET Nat
        PROVE  /\ Account(c, [Answer(call) EXCEPT !.shown = shown], left, tasks)
               /\ Account(c, [Answer(call) EXCEPT !.shown = shown, !.ids = ids], left, tasks)
    <2>1. PICK a : a = [Answer(call) EXCEPT !.shown = shown]
      OBVIOUS
    <2>2. a \in CallRecords /\ a.client = call.client /\ a.request = call.request /\ a.stage = "answered"
      BY <1>2, <2>1 DEF CallRecords
    <2>3. PICK b : b = [Answer(call) EXCEPT !.shown = shown, !.ids = ids]
      OBVIOUS
    <2>4. b \in CallRecords /\ b.client = call.client /\ b.request = call.request /\ b.stage = "answered"
      BY <1>2, <2>3 DEF CallRecords
    <2> QED BY <1>1, <2>1, <2>2, <2>3, <2>4
  <1> QED BY <1>1, <1>2, <1>3

LEMMA FailedKept ==
    ASSUME NEW c, NEW call, NEW left, NEW tasks, Account(c, call, left, tasks), call.stage = "sent"
    PROVE  Account(c, Failed(call), left, tasks)
  BY AccountEnded DEF Failed

LEMMA IngestingKept ==
    ASSUME NEW c, NEW call, NEW left, NEW tasks, Account(c, call, left, tasks), call.stage = "sent",
           call.request.op \in Ingestions, memory # "absent"
    PROVE  /\ call.request.op # "bootstrap" =>
                Account(c, Ingesting(call, call.request.messages, TRUE), left, tasks)
           /\ call.request.op = "bootstrap" =>
                Account(c, Ingesting(call, call.request.messages, FALSE), left, tasks)
  <1>1. PICK persist \in BOOLEAN : persist = (call.request.op # "bootstrap")
    OBVIOUS
  <1>2. Account(c, Ingesting(call, call.request.messages, persist), left, tasks)
    BY <1>1, AccountIngesting
  <1>3. CASE persist = TRUE
    BY <1>1, <1>2, <1>3
  <1>4. CASE persist = FALSE
    BY <1>1, <1>2, <1>4
  <1> QED BY <1>3, <1>4

LEMMA ReceiveStep ==
    ASSUME PluginsInv, NEW c \in CallIds, Receive(c), UNCHANGED pending
    PROVE  PluginsInv'
  <1>0. PICK call, left, tasks : call = calls[c] /\ left = NotesOf(c) /\ tasks = TasksOf(c)
    OBVIOUS
  <1>a. ASSUME NEW op, NEW next, Received(c, op, next)
        PROVE  Account(c, call, left, tasks) /\ call.stage = "sent" /\ call.request.op = op
    BY <1>0, <1>a, ReceivedCall
  <1>1. DOMAIN notes \in SUBSET Nat /\ {} \in SUBSET Nat
    BY DEF PluginsInv, PluginsTyped
  <1>2. CASE ReceiveWrite(c)
    <2>1. PICK next : /\ next = IF memory = "absent" THEN Failed(call) ELSE Ingesting(call, call.request.messages, TRUE)
                      /\ Received(c, "write", next)
      BY <1>0, <1>2 DEF ReceiveWrite
    <2>2. Account(c, next, left, tasks)
      <3>1. Account(c, call, left, tasks) /\ call.stage = "sent" /\ call.request.op = "write"
        BY <2>1, <1>a
      <3>2. call.request.op \in Ingestions /\ call.request.op # "bootstrap"
        BY <3>1 DEF Ingestions
      <3>3. CASE memory = "absent"
        BY <2>1, <3>1, <3>3, FailedKept
      <3>4. CASE memory # "absent"
        BY <2>1, <3>1, <3>2, <3>4, IngestingKept
      <3> QED BY <3>3, <3>4
    <2> QED BY <1>2, <2>1, <2>2, <1>0, ReceivedMoves DEF ReceiveWrite
  <1>3. CASE ReceiveUsed(c)
    <2>1. PICK next : next = (IF memory = "absent" THEN Failed(call) ELSE Answer(call)) /\ Received(c, "used", next)
      BY <1>0, <1>3 DEF ReceiveUsed
    <2>2. Account(c, next, left, tasks)
      <3>1. Account(c, call, left, tasks) /\ call.stage = "sent" /\ call.request.op = "used"
        BY <2>1, <1>a
      <3>2. call.request.op \notin Ingestions /\ call.request.op # "compact"
        BY <3>1 DEF Ingestions
      <3>3. CASE memory = "absent"
        BY <2>1, <3>1, <3>2, <3>3, FailedKept
      <3>4. CASE ~(memory = "absent")
        BY <2>1, <3>1, <3>2, <3>4, AnswerKept
      <3> QED BY <3>3, <3>4
    <2> QED BY <1>3, <2>1, <2>2, <1>0, ReceivedMoves DEF ReceiveUsed
  <1>4. CASE ReceiveContext(c)
    <2>1. PICK found \in Retrievals, op \in {"context", "recall"} :
             Received(c, op, IF memory = "absent" \/ found.raised THEN Failed(call)
                             ELSE [Answer(call) EXCEPT !.shown = found.items])
      BY <1>0, <1>4 DEF ReceiveContext
    <2>2. PICK next : /\ Received(c, op, next)
                      /\ next = Failed(call) \/ next = [Answer(call) EXCEPT !.shown = found.items]
      BY <2>1
    <2>3. found.items \in SUBSET Nat
      BY <1>1 DEF Retrievals
    <2>4. op \notin Ingestions /\ op # "compact"
      BY DEF Ingestions
    <2>5. Account(c, next, left, tasks)
      <3>1. Account(c, call, left, tasks) /\ call.stage = "sent" /\ call.request.op = op
        BY <2>2, <1>a
      <3>2. PICK shown \in SUBSET Nat : shown = found.items
        BY <2>3
      <3>3. CASE next = Failed(call)
        BY <3>1, <3>3, FailedKept
      <3>4. CASE next = [Answer(call) EXCEPT !.shown = shown]
        BY <2>4, <3>1, <3>4, AnswerKept
      <3> QED BY <2>2, <3>2, <3>3, <3>4
    <2> QED BY <1>4, <2>2, <2>5, <1>0, ReceivedMoves DEF ReceiveContext
  <1>5. CASE ReceiveDelete(c)
    <2>1. Received(c, "delete", Failed(call))
      BY <1>0, <1>5 DEF ReceiveDelete
    <2>2. Account(c, Failed(call), left, tasks)
      BY <2>1, <1>a, FailedKept
    <2> QED BY <1>5, <2>1, <2>2, <1>0, ReceivedMoves DEF ReceiveDelete
  <1>6. CASE ReceiveBootstrap(c)
    <2>1. PICK next : /\ next = IF memory = "absent" THEN Answer(call) ELSE Ingesting(call, call.request.messages, FALSE)
                      /\ Received(c, "bootstrap", next)
      BY <1>0, <1>6 DEF ReceiveBootstrap
    <2>2. Account(c, next, left, tasks)
      <3>1. Account(c, call, left, tasks) /\ call.stage = "sent" /\ call.request.op = "bootstrap"
        BY <2>1, <1>a
      <3>2. call.request.op \in Ingestions /\ call.request.op = "bootstrap" /\ call.request.op # "compact"
        BY <3>1 DEF Ingestions
      <3>3. CASE memory = "absent"
        BY <2>1, <3>1, <3>2, <3>3, AnswerKept
      <3>4. CASE ~(memory = "absent")
        BY <2>1, <3>1, <3>2, <3>4, IngestingKept
      <3> QED BY <3>3, <3>4
    <2> QED BY <1>6, <2>1, <2>2, <1>0, ReceivedMoves DEF ReceiveBootstrap
  <1>7. CASE ReceiveIngest(c)
    <2>1. PICK next : /\ next = IF memory = "absent" THEN Answer(call) ELSE Ingesting(call, call.request.messages, TRUE)
                      /\ Received(c, "ingest", next)
      BY <1>0, <1>7 DEF ReceiveIngest
    <2>2. Account(c, next, left, tasks)
      <3>1. Account(c, call, left, tasks) /\ call.stage = "sent" /\ call.request.op = "ingest"
        BY <2>1, <1>a
      <3>2. call.request.op \in Ingestions /\ call.request.op # "bootstrap" /\ call.request.op # "compact"
        BY <3>1 DEF Ingestions
      <3>3. CASE memory = "absent"
        BY <2>1, <3>1, <3>2, <3>3, AnswerKept
      <3>4. CASE ~(memory = "absent")
        BY <2>1, <3>1, <3>2, <3>4, IngestingKept
      <3> QED BY <3>3, <3>4
    <2> QED BY <1>7, <2>1, <2>2, <1>0, ReceivedMoves DEF ReceiveIngest
  <1>8. CASE ReceiveAssemble(c)
    <2> DEFINE Assembled(found, next) ==
            /\ Received(c, "assemble", next)
            /\ \/ next = Answer(call)
               \/ next = [Answer(call) EXCEPT !.shown = found.items, !.ids = AssembledIds(found.items)]
    <2>0. PICK found \in Retrievals : \E next : Assembled(found, next)
      BY <1>0, <1>8 DEF ReceiveAssemble
    <2>1. PICK next : Assembled(found, next)
      BY <2>0
    <2>2. found.items \in SUBSET Nat /\ AssembledIds(found.items) \in SUBSET Nat
      BY <1>1 DEF Retrievals, AssembledIds
    <2>3. Account(c, next, left, tasks)
      <3>1. Account(c, call, left, tasks) /\ call.stage = "sent" /\ call.request.op = "assemble"
        BY <2>1, <1>a
      <3>2. call.request.op \notin Ingestions /\ call.request.op # "compact"
        BY <3>1 DEF Ingestions
      <3>3. PICK shown \in SUBSET Nat, ids \in SUBSET Nat : shown = found.items /\ ids = AssembledIds(found.items)
        BY <2>2
      <3>4. CASE next = Answer(call)
        BY <3>1, <3>2, <3>4, AnswerKept
      <3>5. CASE next = [Answer(call) EXCEPT !.shown = shown, !.ids = ids]
        BY <3>1, <3>2, <3>5, AnswerKept
      <3> QED BY <2>1, <3>3, <3>4, <3>5
    <2> QED BY <1>8, <2>1, <2>3, <1>0, ReceivedMoves DEF ReceiveAssemble
  <1>9. CASE ReceiveCompact(c)
    <2>1. PICK kept : kept = TruncateToBudget(call.request.messages, call.request.limit)
      OBVIOUS
    <2>2. PICK next :
             /\ Received(c, "compact", next)
             /\ \/ next = [Answer(call) EXCEPT !.todo = kept]
                \/ next = Answer(call) /\ memory # "absent"
      BY <1>0, <1>9, <2>1 DEF ReceiveCompact
    <2>3. Account(c, next, left, tasks)
      <3>1. CASE next = Answer(call) /\ memory # "absent"
        <4>1. Account(c, call, left, tasks) /\ call.stage = "sent" /\ call.request.op = "compact"
          BY <2>2, <1>a
        <4>2. call.request.op \notin Ingestions
          BY <4>1 DEF Ingestions
        <4> QED BY <3>1, <4>1, <4>2, AnswerKept
      <3>2. CASE next = [Answer(call) EXCEPT !.todo = kept]
        <4>1. kept \in Seq(Message)
          BY <1>0, <2>1, <2>2, ReceivedCall, TruncationTakesTheEnd
        <4>2. call \in CallRecords /\ call.request.op = "compact"
          BY <1>0, <2>2, ReceivedCall
        <4>3. /\ next \in CallRecords /\ next.client = call.client /\ next.request = call.request
              /\ next.stage = "answered" /\ next.todo = kept
          BY <3>2, <4>1, <4>2 DEF Answer, CallRecords
        <4>4. CutOf(memory, next)
          BY <2>1, <4>3 DEF CutOf
        <4>5. Account(c, call, left, tasks) /\ call.stage = "sent"
          BY <2>2, <1>a
        <4>6. call.request.op \notin Ingestions
          BY <4>2 DEF Ingestions
        <4> QED BY <4>3, <4>4, <4>5, <4>6, AccountAnswered
      <3> QED BY <2>2, <3>1, <3>2
    <2> QED BY <1>9, <2>2, <2>3, <1>0, ReceivedMoves DEF ReceiveCompact
  <1>10. CASE ReceiveAfterTurn(c)
    <2>1. PICK next :
             /\ Received(c, "after_turn", next)
             /\ next = IF memory = "absent" \/ NotBlank(call.request.messages) = <<>> THEN Answer(call)
                       ELSE Ingesting(call, call.request.messages, TRUE)
      BY <1>0, <1>10 DEF ReceiveAfterTurn
    <2>2. Account(c, next, left, tasks)
      <3>1. Account(c, call, left, tasks) /\ call.stage = "sent" /\ call.request.op = "after_turn"
        BY <2>1, <1>a
      <3>2. call.request.op \in Ingestions /\ call.request.op # "bootstrap" /\ call.request.op # "compact"
        BY <3>1 DEF Ingestions
      <3>3. CASE memory = "absent" \/ NotBlank(call.request.messages) = <<>>
        BY <2>1, <3>1, <3>2, <3>3, AnswerKept
      <3>4. CASE ~(memory = "absent" \/ NotBlank(call.request.messages) = <<>>)
        BY <2>1, <3>1, <3>2, <3>4, IngestingKept
      <3> QED BY <3>3, <3>4
    <2>3. notes' = notes \/ \E ids : notes' = Credited(ids)
      BY <1>10 DEF ReceiveAfterTurn
    <2> QED BY <1>10, <2>1, <2>2, <2>3, <1>0, ReceivedMoves DEF ReceiveAfterTurn
  <1> QED BY <1>2, <1>3, <1>4, <1>5, <1>6, <1>7, <1>8, <1>9, <1>10 DEF Receive

\* A message is written.
LEMMA WriteNextStep ==
    ASSUME PluginsInv, NEW c \in CallIds, WriteNext(c), UNCHANGED pending
    PROVE  PluginsInv'
  <1>1. PICK call \in CallRecords : call = calls[c] /\ call.stage = "writing" /\ call.todo # <<>>
    BY DEF WriteNext, PluginsInv, PluginsTyped
  <1>2. PICK next, e : next = Written(call) /\ e = [call |-> c, message |-> Head(call.todo)]
    OBVIOUS
  <1>3. calls' = [calls EXCEPT ![c] = next]
    BY <1>1, <1>2 DEF WriteNext, Written, PluginsInv, PluginsTyped
  <1>4. Head(call.todo) \in Message /\ Account(c, next, Append(NotesOf(c), e), TasksOf(c))
    BY <1>1, <1>2, AccountOf, AccountWritten
  <1>5. e \in Lefts /\ e.call = c
    BY <1>2, <1>4 DEF Lefts
  <1>6. PICK note : note = NoteOf(c, Head(call.todo))
    OBVIOUS
  <1>7. note \in NoteRecords /\ note.call = c /\ note.message = Head(call.todo)
    <2>1. Signal(Head(call.todo), call.persist).type \in MemoryTypes
      BY SignalType DEF CallRecords
    <2>2. "variable" \in MemoryTypes
      BY DEF MemoryTypes
    <2> QED BY <1>1, <1>4, <1>6, <2>1, <2>2 DEF NoteOf, NoteRecords
  <1>8. notes' = Append(notes, note)
    BY <1>1, <1>6 DEF WriteNext
  <1>9. notes' \in Seq(NoteRecords) /\ Left' = Append(Left, e)
    BY <1>2, <1>7, <1>8, LeftAppends DEF PluginsInv
  <1>10. \A d : NotesOf(d)' = IF d = c THEN Append(NotesOf(d), e) ELSE NotesOf(d)
    BY <1>5, <1>9, NotesOfAppend DEF PluginsInv
  <1>11. UNCHANGED <<memory, queue, stored>>
    BY DEF WriteNext
  <1>12. \A d : TasksOf(d)' = TasksOf(d)
    BY <1>11, SameTasks
  <1>13. /\ queue' \in Seq(TaskRecords) /\ stored' \in Seq(TaskRecords) /\ pending' \in SUBSET Nat
    BY <1>11 DEF PluginsInv, PluginsTyped
  <1> QED BY <1>3, <1>4, <1>9, <1>10, <1>11, <1>12, <1>13, OneCallMoves

LEMMA WriteFailsStep ==
    ASSUME PluginsInv, NEW c \in CallIds, WriteFails(c), UNCHANGED pending
    PROVE  PluginsInv'
  <1>1. PICK next : next = [calls[c] EXCEPT !.stage = "failed"]
    OBVIOUS
  <1>2. calls' = [calls EXCEPT ![c] = next]
    BY <1>1 DEF WriteFails, PluginsInv, PluginsTyped
  <1>3. Account(c, next, NotesOf(c), TasksOf(c))
    BY <1>1, AccountOf, AccountEnded DEF WriteFails
  <1>4. UNCHANGED client /\ pending' \in SUBSET Nat
    BY DEF WriteFails, client, PluginsInv, PluginsTyped
  <1> QED BY <1>2, <1>3, <1>4, CallMovesAlone

LEMMA EnqueueStep ==
    ASSUME PluginsInv, NEW c \in CallIds, Enqueue(c), UNCHANGED pending
    PROVE  PluginsInv'
  <1>1. PICK call \in CallRecords : call = calls[c] /\ call.stage = "writing" /\ call.todo = <<>>
    BY DEF Enqueue, PluginsInv, PluginsTyped
  <1>2. PICK toKeep \in BOOLEAN : toKeep <=> call.ltm # <<>> /\ memory = "orchestrated"
    OBVIOUS
  <1>3. PICK full \in BOOLEAN : full <=> Len(queue) >= QueueSize
    OBVIOUS
  <1>4. PICK next, stage : /\ next = [call EXCEPT !.stage = stage]
                           /\ stage = IF toKeep /\ full THEN "failed" ELSE "answered"
    OBVIOUS
  <1>5. PICK task : task = [call |-> c, messages |-> call.ltm]
    OBVIOUS
  <1>6. /\ queue' = IF toKeep /\ ~full THEN Append(queue, task) ELSE queue
        /\ calls' = [calls EXCEPT ![c] = next]
        /\ UNCHANGED <<memory, notes, stored>>
    BY <1>1, <1>2, <1>3, <1>4, <1>5 DEF Enqueue, PluginsInv, PluginsTyped
  <1>7. task \in TaskRecords /\ task.call = c
    BY <1>5 DEF TaskRecords, CallRecords
  <1>8. /\ queue' \in Seq(TaskRecords)
        /\ TasksOf(c)' = IF toKeep /\ ~full THEN Append(TasksOf(c), task) ELSE TasksOf(c)
        /\ \A d : d # c => TasksOf(d)' = TasksOf(d)
    <2>1. CASE toKeep /\ ~full
      BY <1>6, <1>7, <2>1, TasksOfAppend DEF PluginsInv
    <2>2. CASE ~(toKeep /\ ~full)
      BY <1>6, <2>2, SameTasks DEF PluginsInv, PluginsTyped
    <2> QED BY <2>1, <2>2
  <1>9. notes' \in Seq(NoteRecords) /\ stored' \in Seq(TaskRecords) /\ pending' \in SUBSET Nat /\ Left' = Left
    BY <1>6 DEF PluginsInv, PluginsTyped, Left
  <1>10. \A d : NotesOf(d)' = NotesOf(d)
    BY <1>9, SameNotes
  <1>11. Account(c, next, NotesOf(c), TasksOf(c)')
    <2>1. PICK left, tasks, handed : left = NotesOf(c) /\ tasks = TasksOf(c) /\ handed = TasksOf(c)'
      OBVIOUS
    <2>2. Account(c, call, left, tasks)
      BY <1>1, <2>1, AccountOf
    <2>3. CASE toKeep /\ full
      <3>1. next = [call EXCEPT !.stage = "failed"] /\ handed = tasks
        BY <1>4, <1>8, <2>1, <2>3
      <3>2. Account(c, next, left, tasks)
        BY <1>1, <2>2, <3>1, AccountEnded
      <3> QED BY <2>1, <3>1, <3>2
    <2>4. CASE ~(toKeep /\ full)
      <3>1. next = [call EXCEPT !.stage = "answered"]
        BY <1>4, <2>4
      <3>2. handed = HandedOver(c, call, tasks)
        BY <1>2, <1>5, <1>8, <2>1, <2>4 DEF HandedOver
      <3>3. Account(c, next, left, handed)
        BY <1>1, <2>2, <3>1, <3>2, AccountEnqueued
      <3> QED BY <2>1, <3>3
    <2> QED BY <2>3, <2>4
  <1> QED BY <1>6, <1>8, <1>9, <1>10, <1>11, OneCallMoves
-----------------------------------------------------------------------------
(* The theorems.                                                           *)

LEMMA PluginsStart == PluginsInit => PluginsInv
  <1> SUFFICES ASSUME PluginsInit PROVE PluginsInv
    OBVIOUS
  <1>1. <<>> \in Seq(Message) /\ {} \in SUBSET Nat /\ 0 \in Nat
    OBVIOUS
  <1>2. Request("none", <<>>) \in Posted
    BY <1>1, RequestType DEF Operations
  <1>3. Idle \in CallRecords
    BY <1>1, <1>2 DEF Idle, CallRecords
  <1>4. PluginsTyped
    <2>1. <<>> \in Seq(NoteRecords) /\ <<>> \in Seq(TaskRecords)
      OBVIOUS
    <2> QED BY <1>1, <1>3, <2>1 DEF PluginsInit, IngestionInit, PluginsTyped
  <1>5. ASSUME NEW c \in CallIds PROVE Accounted(memory, c, calls[c], NotesOf(c), TasksOf(c))
    <2>1. calls[c] = Idle
      BY DEF PluginsInit, IngestionInit
    <2>2. Left = <<>>
      <3>1. Left \in Seq(Lefts) /\ Len(Left) = Len(notes) /\ notes = <<>>
        BY <1>4, LeftShows DEF PluginsTyped, PluginsInit, IngestionInit
      <3> QED BY <3>1
    <2>3. NotesOf(c) = <<>>
      BY <2>2, KeepEmpty DEF NotesOf
    <2>4. stored \o queue = <<>>
      BY DEF PluginsInit, IngestionInit
    <2>5. TasksOf(c) = <<>>
      BY <2>4, KeepEmpty DEF TasksOf
    <2>6. NotBlank(<<>>) = <<>> /\ LeftBy(c, <<>>) = <<>> /\ LeftBy(c, <<>>) \in Seq(Lefts)
      BY <1>1, NothingSent, LeftByStep
    <2>7. IsPrefix(<<>>, <<>>)
      BY <2>6, EmptyPrefix
    <2>8. /\ Idle.client = "idle" /\ Idle.stage = "unused" /\ Idle.ltm = <<>>
          /\ Idle.request.messages = <<>>
      BY DEF Idle, Request
    <2> QED BY <2>1, <2>3, <2>5, <2>6, <2>7, <2>8 DEF Accounted, WritesOf, TaskOf, CutOf
  <1> QED BY <1>4, <1>5 DEF PluginsInv

LEMMA PluginsStep ==
    ASSUME PluginsInv, [PluginsNext]_pluginsVars
    PROVE  PluginsInv'
  <1>1. ASSUME NEW c \in CallIds, ClientCall(c) PROVE PluginsInv'
    BY <1>1, ClientCallStep
  <1>2. ASSUME NEW c \in CallIds, Service(c) PROVE PluginsInv'
    BY <1>2, ReceiveStep, WriteNextStep, WriteFailsStep, EnqueueStep DEF Service, ServiceStep, IngestionStep
  <1>3. ASSUME NEW c \in CallIds, AnswerArrives(c) PROVE PluginsInv'
    BY <1>3, AnswerArrivesStep
  <1>4. ASSUME NEW c \in CallIds, Rejected(c) \/ TimesOut(c) PROVE PluginsInv'
    BY <1>4, RejectedStep
  <1>5. ASSUME NEW c \in CallIds, Lost(c) PROVE PluginsInv'
    BY <1>5, LostStep
  <1>6. CASE Dispose
    BY <1>6, DisposeStep
  <1>7. CASE Work
    BY <1>7, WorkStep
  <1>8. CASE UNCHANGED pluginsVars
    <2>1. UNCHANGED <<memory, notes, queue, stored, calls, pending>>
      BY <1>8 DEF pluginsVars
    <2>2. \A c : NotesOf(c)' = NotesOf(c) /\ TasksOf(c)' = TasksOf(c)
      BY <2>1, SameTasks, SameNotes DEF Left
    <2> QED BY <2>1, <2>2 DEF PluginsInv, PluginsTyped
  <1> QED BY <1>1, <1>2, <1>3, <1>4, <1>5, <1>6, <1>7, <1>8 DEF PluginsNext

\* At every moment the accounts of all calls are balanced.
THEOREM PluginsInvariant == PluginsSpec => []PluginsInv
  <1>1. PluginsInit => PluginsInv
    BY PluginsStart
  <1>2. PluginsInv /\ [PluginsNext]_pluginsVars => PluginsInv'
    BY PluginsStep
  <1> QED BY <1>1, <1>2, PTL DEF PluginsSpec

LEMMA InvariantAnswers == PluginsInv => AnsweredIsKept
  <1> SUFFICES ASSUME PluginsInv, NEW c \in CallIds
               PROVE  LET sent == NotBlank(calls[c].request.messages)
                          worth == WorthKeeping(sent, calls[c].request.op # "bootstrap")
                      IN /\ IsPrefix(NotesOf(c), LeftBy(c, sent))
                         /\ calls[c].stage # "answered" => TasksOf(c) = <<>>
                         /\ (calls[c].stage = "answered" /\ calls[c].request.op \in Ingestions
                              /\ memory \notin {"none", "absent"}) =>
                              /\ NotesOf(c) = LeftBy(c, sent)
                              /\ TasksOf(c) = IF memory = "orchestrated" /\ worth # <<>>
                                              THEN <<[call |-> c, messages |-> worth]>> ELSE <<>>
    BY DEF AnsweredIsKept
  <1>1. WritesOf(memory, c, calls[c], NotesOf(c)) /\ TaskOf(memory, c, calls[c], TasksOf(c))
    BY DEF PluginsInv, Accounted
  <1> QED BY <1>1 DEF WritesOf, TaskOf

\* A call leaves a beginning of its messages in the session, once and in order; an answered one
\* all of them, and what is worth keeping in one task.
THEOREM AnsweredIsKeptHolds == PluginsSpec => []AnsweredIsKept
  BY PluginsInvariant, InvariantAnswers, PTL

LEMMA InvariantTruncates == PluginsInv => TruncationKeepsTheEnd
  <1> SUFFICES ASSUME PluginsInv, NEW c \in CallIds,
                      calls[c].request.op = "compact", memory = "absent", calls[c].stage = "answered"
               PROVE  LET sent == calls[c].request.messages
                          end(n) == SubSeq(sent, Len(sent) - n + 1, Len(sent))
                      IN /\ Costs(calls[c].todo) <= calls[c].request.limit
                         /\ calls[c].todo = end(Len(calls[c].todo))
                         /\ Len(calls[c].todo) < Len(sent) =>
                              Costs(end(Len(calls[c].todo) + 1)) > calls[c].request.limit
    BY DEF TruncationKeepsTheEnd
  <1>1. PICK sent \in Seq(Message), limit \in Nat :
             sent = calls[c].request.messages /\ limit = calls[c].request.limit
    <2>1. calls[c].request \in Posted
      BY DEF PluginsInv, PluginsTyped, CallRecords
    <2> QED BY <2>1 DEF Posted
  <1>2. PICK kept : kept = calls[c].todo
    OBVIOUS
  <1>3. kept = TruncateToBudget(sent, limit)
    BY <1>1, <1>2 DEF PluginsInv, Accounted, CutOf
  <1>4. /\ Costs(kept) <= limit /\ kept = End(sent, Len(kept))
        /\ Len(kept) < Len(sent) => Costs(End(sent, Len(kept) + 1)) > limit
    BY <1>3, TruncationTakesTheEnd
  <1> QED BY <1>1, <1>2, <1>4 DEF End

\* The truncation of compact() keeps the longest end of the conversation within the limit.
THEOREM TruncationKeepsTheEndHolds == PluginsSpec => []TruncationKeepsTheEnd
  BY PluginsInvariant, InvariantTruncates, PTL
=============================================================================
