----------------------- MODULE SequenceFilters_proofs -----------------------
(***************************************************************************)
(* Induction over numbers and sequences, and what Keep, First and           *)
(* StableSort do.                                                          *)
(*                                                                         *)
(* The induction principles are about sets: the provers cannot instantiate *)
(* the operator that the library's theorems take, but a property can be    *)
(* given as the set of the numbers, or of the sequences, that have it.     *)
(***************************************************************************)
EXTENDS SequenceFilters, SequencesExt, WellFoundedInduction, FiniteSetTheorems, SequenceTheorems, TLAPS

\* A set of natural numbers has a least element: 0..n grows with n, and strict
\* inclusion of finite sets is well-founded.
LEMMA LeastElement ==
    ASSUME NEW T \in SUBSET Nat, T # {}
    PROVE  \E n \in T : \A m \in T : n <= m
  <1> DEFINE Below == {0..n : n \in T}
             R == StrictSubsetOrdering(Nat)
  <1>1. Below \subseteq FiniteSubsetsOf(Nat) /\ Below # {}
    <2>1. \A n \in T : IsFiniteSet(0..n) /\ 0..n \in SUBSET Nat
      BY FS_Interval
    <2> QED BY <2>1 DEF FiniteSubsetsOf
  <1>2. PICK x \in Below : \A y \in Below : ~(<<y, x>> \in R)
    <2> HIDE DEF Below, R
    <2>1. IsWellFoundedOn(R, FiniteSubsetsOf(Nat))
      BY FS_StrictSubsetOrderingWellFounded DEF R
    <2> QED BY <1>1, <2>1, WFMin
  <1>3. PICK n \in T : x = 0..n
    BY <1>2
  <1>4. ASSUME NEW m \in T, m < n PROVE FALSE
    <2>1. 0..m \in Below /\ 0..m \subseteq 0..n /\ n \notin 0..m /\ n \in 0..n
      BY <1>4
    <2>2. <<0..m, 0..n>> \in R
      BY <2>1 DEF StrictSubsetOrdering
    <2> QED BY <1>2, <1>3, <2>1, <2>2
  <1> QED BY <1>4

\* Induction over the natural numbers: Good is the set of the good ones.
LEMMA NumberInduction ==
    ASSUME NEW Good, 0 \in Good, \A n \in Nat : n \in Good => n + 1 \in Good
    PROVE  \A n \in Nat : n \in Good
  <1> SUFFICES ASSUME Nat \ Good # {} PROVE FALSE
    OBVIOUS
  <1>1. PICK n \in Nat \ Good : \A m \in Nat \ Good : n <= m
    BY LeastElement
  <1>2. n # 0 /\ n - 1 \in Nat
    BY <1>1
  <1>3. n - 1 \in Good
    BY <1>1, <1>2
  <1>4. (n - 1) + 1 \in Good
    BY <1>2, <1>3
  <1> QED BY <1>1, <1>4

\* A set of numbers with a bound has a greatest one.
LEMMA GreatestElement ==
    ASSUME NEW b \in Nat, NEW T \in SUBSET (0..b), T # {}
    PROVE  Max(T) \in T /\ \A m \in T : m <= Max(T)
  <1> DEFINE D == {b - m : m \in T}
  <1>1. D \in SUBSET Nat /\ D # {}
    OBVIOUS
  <1> HIDE DEF D
  <1>2. PICK d \in D : \A e \in D : d <= e
    BY <1>1, LeastElement
  <1>3. PICK n \in T : d = b - n
    BY <1>2 DEF D
  <1>4. ASSUME NEW m \in T PROVE n >= m
    <2>1. b - m \in D
      BY DEF D
    <2>2. m \in 0..b /\ n \in 0..b
      BY <1>3
    <2>3. b - n <= b - m
      BY <1>2, <1>3, <2>1
    <2> QED BY <2>2, <2>3
  <1>5. Max(T) \in T /\ \A m \in T : Max(T) >= m
    BY <1>3, <1>4 DEF Max
  <1>6. \A m \in T : m \in Int
    OBVIOUS
  <1> QED BY <1>5, <1>6

\* The lesser of two numbers, as the code's min().
LEMMA MinOfTwo ==
    ASSUME NEW a \in Int, NEW b \in Int
    PROVE  Min({a, b}) \in Int /\ Min({a, b}) = (IF a <= b THEN a ELSE b)
  <1>1. \E x \in {a, b} : \A y \in {a, b} : x <= y
    OBVIOUS
  <1>2. Min({a, b}) \in {a, b} /\ \A y \in {a, b} : Min({a, b}) <= y
    BY <1>1 DEF Min
  <1> QED
    BY <1>2

\* The greater of two numbers.
LEMMA MaxOfTwo ==
    ASSUME NEW a \in Int, NEW b \in Int
    PROVE  Max({a, b}) \in Int /\ a <= Max({a, b}) /\ b <= Max({a, b})
  <1>1. \E x \in {a, b} : \A y \in {a, b} : x >= y
    OBVIOUS
  <1>2. Max({a, b}) \in {a, b} /\ \A y \in {a, b} : Max({a, b}) >= y
    BY <1>1 DEF Max
  <1> QED
    BY <1>2

\* Induction over sequences, from their beginning.
LEMMA SequenceInduction ==
    ASSUME NEW S, NEW Good, <<>> \in Good,
           \A s \in Seq(S), e \in S : s \in Good => Append(s, e) \in Good
    PROVE  \A s \in Seq(S) : s \in Good
  <1> DEFINE N == {n \in Nat : \A s \in Seq(S) : Len(s) = n => s \in Good}
  <1>1. 0 \in N
    <2>1. \A s \in Seq(S) : Len(s) = 0 => s = <<>>
      OBVIOUS
    <2> QED BY <2>1
  <1>2. ASSUME NEW n \in Nat, n \in N PROVE n + 1 \in N
    <2> SUFFICES ASSUME NEW s \in Seq(S), Len(s) = n + 1 PROVE s \in Good
      OBVIOUS
    <2>1. s # <<>>
      OBVIOUS
    <2>2. PICK t \in Seq(S), e \in S : s = Append(t, e)
      BY <2>1, SequenceEmptyOrAppend
    <2>3. Len(t) = n
      BY <2>2
    <2> QED BY <1>2, <2>2, <2>3
  <1>3. \A n \in Nat : n \in N
    <2> HIDE DEF N
    <2> QED BY <1>1, <1>2, NumberInduction
  <1>4. \A s \in Seq(S) : Len(s) \in Nat
    OBVIOUS
  <1> QED BY <1>3, <1>4

-----------------------------------------------------------------------------
(* Keep, one element after the other.                                      *)

\* The recursive function of Keep(s, Good), up to n.
IsKept(f, s, n, Good) ==
    f = [i \in 0..n |->
           IF i = 0 THEN <<>>
           ELSE IF s[i] \in Good THEN Append(f[i - 1], s[i]) ELSE f[i - 1]]

LEMMA KeptExists ==
    ASSUME NEW s, NEW Good
    PROVE  \A n \in Nat : \E f : IsKept(f, s, n, Good)
  <1> DEFINE N == {n \in Nat : \E f : IsKept(f, s, n, Good)}
  <1>1. 0 \in N
    <2>1. IsKept([i \in 0..0 |-> <<>>], s, 0, Good)
      BY DEF IsKept
    <2> QED BY <2>1
  <1>2. ASSUME NEW n \in Nat, n \in N PROVE n + 1 \in N
    <2>1. PICK f : IsKept(f, s, n, Good)
      BY <1>2
    <2> DEFINE last == IF s[n + 1] \in Good THEN Append(f[n], s[n + 1]) ELSE f[n]
               g == [i \in 0..(n + 1) |-> IF i <= n THEN f[i] ELSE last]
    <2>2. \A i \in 0..n : g[i] = f[i]
      OBVIOUS
    <2>3. g[n + 1] = last
      OBVIOUS
    <2>4. ASSUME NEW i \in 0..(n + 1)
          PROVE  g[i] = IF i = 0 THEN <<>>
                        ELSE IF s[i] \in Good THEN Append(g[i - 1], s[i]) ELSE g[i - 1]
      <3>1. CASE i <= n
        <4>1. i \in 0..n /\ (i # 0 => i - 1 \in 0..n)
          BY <3>1
        <4>2. f[i] = IF i = 0 THEN <<>>
                     ELSE IF s[i] \in Good THEN Append(f[i - 1], s[i]) ELSE f[i - 1]
          BY <2>1, <4>1 DEF IsKept
        <4> HIDE DEF g
        <4> QED BY <2>2, <4>1, <4>2
      <3>2. CASE i = n + 1
        <4>1. n \in 0..n /\ i # 0 /\ i - 1 = n
          BY <3>2
        <4> HIDE DEF g
        <4> QED BY <2>2, <2>3, <3>2, <4>1
      <3> QED BY <3>1, <3>2
    <2>5. IsKept(g, s, n + 1, Good)
      BY <2>4 DEF IsKept
    <2> QED BY <2>5
  <1> HIDE DEF N
  <1>3. \A n \in Nat : n \in N
    BY <1>1, <1>2, NumberInduction
  <1> QED BY <1>3 DEF N

LEMMA KeptStep ==
    ASSUME NEW s, NEW Good, NEW n \in Nat, NEW f, IsKept(f, s, n, Good),
           NEW k \in Nat, k + 1 <= n
    PROVE  f[k + 1] = IF s[k + 1] \in Good THEN Append(f[k], s[k + 1]) ELSE f[k]
  <1>1. k + 1 \in 0..n /\ k + 1 # 0 /\ (k + 1) - 1 = k
    OBVIOUS
  <1>2. \A i \in 0..n : f[i] = IF i = 0 THEN <<>>
                               ELSE IF s[i] \in Good THEN Append(f[i - 1], s[i]) ELSE f[i - 1]
    BY Zenon DEF IsKept
  <1> QED BY <1>1, <1>2

\* Its value at k depends on the first k elements only.
LEMMA KeptAgree ==
    ASSUME NEW s, NEW t, NEW Good, NEW n \in Nat, NEW f, NEW g, NEW m \in Nat, n <= m,
           IsKept(f, s, n, Good), IsKept(g, t, m, Good), \A i \in 1..n : s[i] = t[i]
    PROVE  f[n] = g[n]
  <1> DEFINE N == {k \in Nat : k <= n => f[k] = g[k]}
  <1>1. 0 \in N
    BY DEF IsKept
  <1>2. ASSUME NEW k \in Nat, k \in N PROVE k + 1 \in N
    <2> SUFFICES ASSUME k + 1 <= n PROVE f[k + 1] = g[k + 1]
      OBVIOUS
    <2>1. f[k] = g[k] /\ s[k + 1] = t[k + 1] /\ (k + 1) - 1 = k
      BY <1>2
    <2>2. f[k + 1] = IF s[k + 1] \in Good THEN Append(f[k], s[k + 1]) ELSE f[k]
      BY KeptStep
    <2>3. g[k + 1] = IF t[k + 1] \in Good THEN Append(g[k], t[k + 1]) ELSE g[k]
      BY KeptStep
    <2> QED BY <2>1, <2>2, <2>3
  <1> HIDE DEF N
  <1>3. \A k \in Nat : k \in N
    BY <1>1, <1>2, NumberInduction
  <1> QED BY <1>3 DEF N

LEMMA KeepIsKept ==
    ASSUME NEW S, NEW s \in Seq(S), NEW Good
    PROVE  \E f : IsKept(f, s, Len(s), Good) /\ Keep(s, Good) = f[Len(s)]
  <1>1. \E f : IsKept(f, s, Len(s), Good)
    <2>1. Len(s) \in Nat
      OBVIOUS
    <2> QED BY <2>1, KeptExists
  <1> QED BY <1>1 DEF Keep, IsKept

LEMMA KeepEmpty ==
    ASSUME NEW Good
    PROVE  Keep(<<>>, Good) = <<>>
  <1>1. <<>> \in Seq({}) /\ Len(<<>>) = 0
    OBVIOUS
  <1>2. PICK f : IsKept(f, <<>>, 0, Good) /\ Keep(<<>>, Good) = f[0]
    BY <1>1, KeepIsKept
  <1> QED BY <1>2 DEF IsKept

LEMMA KeepAppend ==
    ASSUME NEW S, NEW s \in Seq(S), NEW e \in S, NEW Good
    PROVE  Keep(Append(s, e), Good) =
             IF e \in Good THEN Append(Keep(s, Good), e) ELSE Keep(s, Good)
  <1> DEFINE t == Append(s, e)
             n == Len(s)
  <1>1. n \in Nat /\ t \in Seq(S) /\ Len(t) = n + 1 /\ t[n + 1] = e
        /\ \A i \in 1..n : s[i] = t[i]
    OBVIOUS
  <1> HIDE DEF t, n
  <1>2. PICK f : IsKept(f, s, n, Good) /\ Keep(s, Good) = f[n]
    BY KeepIsKept DEF n
  <1>3. PICK g : IsKept(g, t, n + 1, Good) /\ Keep(t, Good) = g[n + 1]
    BY <1>1, KeepIsKept
  <1>4. f[n] = g[n]
    BY <1>1, <1>2, <1>3, KeptAgree
  <1>5. g[n + 1] = IF t[n + 1] \in Good THEN Append(g[n], t[n + 1]) ELSE g[n]
    BY <1>1, <1>3, KeptStep
  <1> QED BY <1>1, <1>2, <1>3, <1>4, <1>5 DEF t

-----------------------------------------------------------------------------
(* What Keep returns.                                                      *)

\* A sequence of good elements, no longer than the one it comes from.
LEMMA KeepType ==
    ASSUME NEW S, NEW Good
    PROVE  \A s \in Seq(S) : Keep(s, Good) \in Seq(S \cap Good) /\ Len(Keep(s, Good)) <= Len(s)
  <1> DEFINE P == {s \in Seq(S) : Keep(s, Good) \in Seq(S \cap Good)
                                  /\ Len(Keep(s, Good)) <= Len(s)}
  <1>1. <<>> \in P
    <2>1. <<>> \in Seq(S) /\ <<>> \in Seq(S \cap Good) /\ Len(<<>>) <= Len(<<>>)
      OBVIOUS
    <2> QED BY <2>1, KeepEmpty
  <1>2. ASSUME NEW s \in Seq(S), NEW e \in S, s \in P PROVE Append(s, e) \in P
    <2>1. Append(s, e) \in Seq(S) /\ Len(Append(s, e)) = Len(s) + 1 /\ Len(s) \in Nat
      OBVIOUS
    <2>2. CASE e \in Good
      <3>1. Keep(Append(s, e), Good) = Append(Keep(s, Good), e)
        BY <2>2, KeepAppend
      <3>2. Append(Keep(s, Good), e) \in Seq(S \cap Good)
            /\ Len(Append(Keep(s, Good), e)) = Len(Keep(s, Good)) + 1
            /\ Len(Keep(s, Good)) \in Nat
        BY <1>2, <2>2
      <3> QED BY <1>2, <2>1, <3>1, <3>2
    <2>3. CASE e \notin Good
      <3>1. Keep(Append(s, e), Good) = Keep(s, Good)
        BY <2>3, KeepAppend
      <3> QED BY <1>2, <2>1, <3>1
    <2> QED BY <2>2, <2>3
  <1> HIDE DEF P
  <1>3. \A s \in Seq(S) : s \in P
    BY <1>1, <1>2, SequenceInduction
  <1> QED BY <1>3 DEF P

LEMMA KeepSequence ==
    ASSUME NEW S, NEW s \in Seq(S), NEW Good
    PROVE  Keep(s, Good) \in Seq(S) /\ Len(Keep(s, Good)) \in Nat
  <1> DEFINE r == Keep(s, Good)
  <1>1. r \in Seq(S \cap Good)
    BY KeepType
  <1> HIDE DEF r
  <1>2. r \in Seq(S) /\ Len(r) \in Nat
    BY <1>1
  <1> QED BY <1>2 DEF r

\* Keep distributes over concatenation.
LEMMA KeepConcat ==
    ASSUME NEW S, NEW s \in Seq(S), NEW Good
    PROVE  \A t \in Seq(S) : Keep(s \o t, Good) = Keep(s, Good) \o Keep(t, Good)
  <1> DEFINE P == {t \in Seq(S) : Keep(s \o t, Good) = Keep(s, Good) \o Keep(t, Good)}
  <1>1. \A t \in Seq(S) : Keep(t, Good) \in Seq(S)
    BY KeepSequence
  <1>2. <<>> \in P
    <2>1. <<>> \in Seq(S) /\ s \o <<>> = s /\ Keep(s, Good) \o <<>> = Keep(s, Good)
      BY <1>1
    <2> QED BY <2>1, KeepEmpty
  <1>3. ASSUME NEW t \in Seq(S), NEW e \in S, t \in P PROVE Append(t, e) \in P
    <2>1. Append(t, e) \in Seq(S) /\ s \o t \in Seq(S)
      OBVIOUS
    <2>2. s \o Append(t, e) = Append(s \o t, e)
      OBVIOUS
    <2>3. Keep(s, Good) \o Append(Keep(t, Good), e) = Append(Keep(s, Good) \o Keep(t, Good), e)
      BY <1>1
    <2>4. Keep(s \o t, Good) = Keep(s, Good) \o Keep(t, Good)
      BY <1>3
    <2>5. CASE e \in Good
      <3>1. Keep(Append(s \o t, e), Good) = Append(Keep(s \o t, Good), e)
        <4> DEFINE u == s \o t
        <4> HIDE DEF u
        <4>1. Keep(Append(u, e), Good) = Append(Keep(u, Good), e)
          <5>1. u \in Seq(S)
            BY <2>1 DEF u
          <5> QED BY <2>5, <5>1, KeepAppend
        <4> QED BY <4>1 DEF u
      <3>2. Keep(Append(t, e), Good) = Append(Keep(t, Good), e)
        BY <2>5, KeepAppend
      <3> QED BY <2>1, <2>2, <2>3, <2>4, <3>1, <3>2
    <2>6. CASE e \notin Good
      <3>1. Keep(Append(s \o t, e), Good) = Keep(s \o t, Good)
            /\ Keep(Append(t, e), Good) = Keep(t, Good)
        BY <2>1, <2>6, KeepAppend
      <3> QED BY <2>1, <2>2, <2>4, <3>1
    <2> QED BY <2>5, <2>6
  <1> HIDE DEF P
  <1>4. \A t \in Seq(S) : t \in P
    BY <1>2, <1>3, SequenceInduction
  <1> QED BY <1>4 DEF P

\* Keep, from the head of the sequence.
LEMMA KeepHead ==
    ASSUME NEW S, NEW s \in Seq(S), s # <<>>, NEW Good
    PROVE  /\ Head(s) \in Good =>
                /\ Keep(s, Good) # <<>> /\ Head(Keep(s, Good)) = Head(s)
                /\ Keep(Tail(s), Good) = Tail(Keep(s, Good))
           /\ Head(s) \notin Good => Keep(Tail(s), Good) = Keep(s, Good)
  <1> DEFINE e == Head(s)
             rest == Tail(s)
             r == Keep(rest, Good)
             none == <<>>
             one == Append(none, e)
  <1>1. e \in S /\ rest \in Seq(S) /\ one \in Seq(S) /\ s = one \o rest
        /\ one = <<e>> /\ none \in Seq(S)
    OBVIOUS
  <1>2. r \in Seq(S)
    BY <1>1, KeepSequence
  <1> HIDE DEF e, rest, r, one, none
  <1>3. Keep(one \o rest, Good) = Keep(one, Good) \o r
    <2>1. one \in Seq(S) /\ rest \in Seq(S)
      BY <1>1
    <2>2. PICK a \in Seq(S), b \in Seq(S) : a = one /\ b = rest
      BY <2>1
    <2>3. Keep(a \o b, Good) = Keep(a, Good) \o Keep(b, Good)
      BY KeepConcat
    <2> QED BY <2>2, <2>3 DEF r
  <1>4. Keep(one, Good) = IF e \in Good THEN <<e>> ELSE <<>>
    <2>1. Keep(one, Good) = IF e \in Good THEN Append(Keep(none, Good), e) ELSE Keep(none, Good)
      BY <1>1, KeepAppend DEF one
    <2>2. Keep(none, Good) = none
      BY KeepEmpty DEF none
    <2> QED BY <1>1, <2>1, <2>2 DEF none, one
  <1>5. CASE e \in Good
    <2>1. Keep(s, Good) = <<e>> \o r
      BY <1>1, <1>3, <1>4, <1>5
    <2>2. <<e>> \o r # <<>> /\ Head(<<e>> \o r) = e /\ Tail(<<e>> \o r) = r
      BY <1>1, <1>2
    <2> QED BY <1>5, <2>1, <2>2 DEF e, r, rest
  <1>6. CASE e \notin Good
    <2>1. Keep(s, Good) = <<>> \o r
      BY <1>1, <1>3, <1>4, <1>6
    <2>2. <<>> \o r = r
      BY <1>2
    <2> QED BY <1>6, <2>1, <2>2 DEF e, r, rest
  <1> QED BY <1>5, <1>6

\* Keep picks the places of the good elements, in their order.
Picks(place, s, Good) ==
    LET r == Keep(s, Good) IN
    /\ place \in [1..Len(r) -> 1..Len(s)]
    /\ \A k \in 1..Len(r) : r[k] = s[place[k]] /\ r[k] \in Good
    /\ \A k, l \in 1..Len(r) : k < l => place[k] < place[l]
    /\ \A i \in 1..Len(s) : s[i] \in Good => \E k \in 1..Len(r) : place[k] = i

LEMMA KeepPicks ==
    ASSUME NEW S, NEW Good
    PROVE  \A s \in Seq(S) : \E place : Picks(place, s, Good)
  <1> DEFINE P == {s \in Seq(S) : \E place : Picks(place, s, Good)}
  <1>1. <<>> \in P
    <2>1. <<>> \in Seq(S) /\ Len(<<>>) = 0
      OBVIOUS
    <2>2. Picks([k \in 1..0 |-> k], <<>>, Good)
      BY <2>1, KeepEmpty DEF Picks
    <2> QED BY <2>1, <2>2
  <1>2. ASSUME NEW s \in Seq(S), NEW e \in S, s \in P PROVE Append(s, e) \in P
    <2> DEFINE t == Append(s, e)
               r == Keep(s, Good)
    <2>1. t \in Seq(S) /\ Len(t) = Len(s) + 1 /\ Len(s) \in Nat /\ t[Len(s) + 1] = e
          /\ \A i \in 1..Len(s) : t[i] = s[i]
      OBVIOUS
    <2>2. r \in Seq(S) /\ Len(r) \in Nat
      BY KeepSequence
    <2>3. PICK place : Picks(place, s, Good)
      BY <1>2
    <2>4. /\ place \in [1..Len(r) -> 1..Len(s)]
          /\ \A k \in 1..Len(r) : r[k] = s[place[k]] /\ r[k] \in Good
          /\ \A k, l \in 1..Len(r) : k < l => place[k] < place[l]
          /\ \A i \in 1..Len(s) : s[i] \in Good => \E k \in 1..Len(r) : place[k] = i
      BY <2>3 DEF Picks
    <2>5. CASE e \in Good
      <3> DEFINE q == [k \in 1..(Len(r) + 1) |-> IF k <= Len(r) THEN place[k] ELSE Len(s) + 1]
                 u == Append(r, e)
      <3>1. Keep(t, Good) = u
        BY <2>5, KeepAppend
      <3>2. Len(u) = Len(r) + 1 /\ u[Len(r) + 1] = e /\ \A k \in 1..Len(r) : u[k] = r[k]
        BY <2>2
      <3>3. \A k \in 1..Len(r) : q[k] = place[k] /\ q[k] \in 1..Len(s)
        BY <2>2, <2>4
      <3>4. q[Len(r) + 1] = Len(s) + 1 /\ DOMAIN q = 1..(Len(r) + 1)
        BY <2>2
      <3>5. \A k \in 1..(Len(r) + 1) : k \in 1..Len(r) \/ k = Len(r) + 1
        BY <2>2
      <3>6. q \in [1..Len(u) -> 1..Len(t)]
        BY <2>1, <2>2, <2>4, <3>2
      <3> HIDE DEF t, r, q, u
      <3>7. ASSUME NEW k \in 1..Len(u) PROVE u[k] = t[q[k]] /\ u[k] \in Good
        <4>1. CASE k \in 1..Len(r)
          <5>1. q[k] \in 1..Len(s) /\ q[k] = place[k] /\ r[k] = s[place[k]] /\ r[k] \in Good
            BY <2>4, <3>3, <4>1
          <5> QED BY <2>1, <3>2, <4>1, <5>1
        <4>2. CASE k = Len(r) + 1
          BY <2>1, <2>5, <3>2, <3>4, <4>2
        <4> QED BY <3>2, <3>5, <4>1, <4>2
      <3>8. ASSUME NEW k \in 1..Len(u), NEW l \in 1..Len(u), k < l PROVE q[k] < q[l]
        <4>1. k \in 1..Len(r) /\ q[k] = place[k] /\ q[k] \in 1..Len(s)
          BY <2>2, <3>2, <3>3, <3>8
        <4>2. CASE l \in 1..Len(r)
          BY <2>4, <3>3, <3>8, <4>1, <4>2
        <4>3. CASE l = Len(r) + 1
          BY <2>1, <3>4, <4>1, <4>3
        <4> QED BY <3>2, <3>5, <4>2, <4>3
      <3>9. \A i \in 1..Len(t) : t[i] \in Good => \E k \in 1..Len(u) : q[k] = i
        <4> SUFFICES ASSUME NEW i \in 1..Len(t), t[i] \in Good PROVE \E k \in 1..Len(u) : q[k] = i
          OBVIOUS
        <4>1. CASE i = Len(s) + 1
          BY <2>2, <3>2, <3>4, <4>1
        <4>2. CASE i \in 1..Len(s)
          <5>1. PICK k \in 1..Len(r) : place[k] = i
            BY <2>1, <2>4, <4>2
          <5>2. k \in 1..Len(u) /\ q[k] = i
            BY <2>2, <3>2, <3>3, <5>1
          <5> QED BY <5>2
        <4> QED BY <2>1, <4>1, <4>2
      <3>10. Picks(q, t, Good)
        BY <3>1, <3>6, <3>7, <3>8, <3>9 DEF Picks
      <3> QED BY <2>1, <3>10 DEF t
    <2>6. CASE e \notin Good
      <3>1. Keep(t, Good) = r
        BY <2>6, KeepAppend
      <3> HIDE DEF t, r
      <3>2. place \in [1..Len(r) -> 1..Len(t)] /\ \A k \in 1..Len(r) : place[k] \in 1..Len(s)
        <4>1. 1..Len(s) \subseteq 1..Len(t)
          BY <2>1
        <4> QED BY <2>4, <4>1
      <3>3. \A i \in 1..Len(t) : t[i] \in Good => i \in 1..Len(s)
        BY <2>1, <2>6
      <3>4. Picks(place, t, Good)
        BY <2>1, <2>4, <3>1, <3>2, <3>3 DEF Picks
      <3> QED BY <2>1, <3>4 DEF t
    <2> QED BY <2>5, <2>6
  <1> HIDE DEF P
  <1>3. \A s \in Seq(S) : s \in P
    BY <1>1, <1>2, SequenceInduction
  <1> QED BY <1>3 DEF P

\* Its elements are the good ones, and none is there twice when none was.
Elements(s) == {s[i] : i \in 1..Len(s)}

Distinguished(s) == \A i, j \in 1..Len(s) : s[i] = s[j] => i = j

LEMMA KeepElements ==
    ASSUME NEW S, NEW s \in Seq(S), NEW Good
    PROVE  /\ Elements(Keep(s, Good)) = Elements(s) \cap Good
           /\ Distinguished(s) => Distinguished(Keep(s, Good))
  <1>1. PICK r : r = Keep(s, Good)
    OBVIOUS
  <1>2. r \in Seq(S) /\ Len(r) \in Nat
    BY <1>1, KeepSequence
  <1>3. PICK place : Picks(place, s, Good)
    BY KeepPicks
  <1>4. /\ place \in [1..Len(r) -> 1..Len(s)]
        /\ \A k \in 1..Len(r) : r[k] = s[place[k]] /\ r[k] \in Good
        /\ \A k, l \in 1..Len(r) : k < l => place[k] < place[l]
        /\ \A i \in 1..Len(s) : s[i] \in Good => \E k \in 1..Len(r) : place[k] = i
    BY <1>1, <1>3 DEF Picks
  <1>5. Elements(r) = Elements(s) \cap Good
    <2>1. ASSUME NEW k \in 1..Len(r) PROVE r[k] \in {s[i] : i \in 1..Len(s)} \cap Good
      BY <1>4
    <2>2. ASSUME NEW i \in 1..Len(s), s[i] \in Good PROVE s[i] \in {r[k] : k \in 1..Len(r)}
      BY <1>4, <2>2
    <2> QED BY <2>1, <2>2 DEF Elements
  <1>6. ASSUME Distinguished(s), NEW k \in 1..Len(r), NEW l \in 1..Len(r), r[k] = r[l] PROVE k = l
    <2>1. place[k] \in 1..Len(s) /\ place[l] \in 1..Len(s) /\ s[place[k]] = s[place[l]]
      BY <1>4, <1>6
    <2>2. place[k] = place[l]
      BY <1>6, <2>1 DEF Distinguished
    <2>3. k < l \/ l < k \/ k = l
      BY <1>2
    <2> QED BY <1>4, <2>1, <2>2, <2>3
  <1> QED BY <1>1, <1>5, <1>6 DEF Distinguished

-----------------------------------------------------------------------------
(* First.                                                                  *)

LEMMA FirstOf ==
    ASSUME NEW S, NEW n \in Nat, NEW s \in Seq(S)
    PROVE  /\ First(n, s) \in Seq(S)
           /\ Len(First(n, s)) = (IF n <= Len(s) THEN n ELSE Len(s))
           /\ \A i \in 1..Len(First(n, s)) : First(n, s)[i] = s[i]
           /\ Len(s) <= n => First(n, s) = s
  <1>1. PICK m \in Nat : m = (IF n <= Len(s) THEN n ELSE Len(s))
    OBVIOUS
  <1>2. PICK r : r = SubSeq(s, 1, m)
    OBVIOUS
  <1>3. First(n, s) = r
    BY <1>1, <1>2 DEF First
  <1>4. r \in Seq(S) /\ Len(r) = m /\ \A i \in 1..m : r[i] = s[i]
    BY <1>1, <1>2
  <1>5. Len(s) <= n => r = s
    BY <1>1, <1>4
  <1> QED BY <1>1, <1>3, <1>4, <1>5

LEMMA FirstOfNothing ==
    ASSUME NEW n \in Nat
    PROVE  First(n, <<>>) = <<>>
  <1>1. <<>> \in Seq({}) /\ Len(<<>>) = 0 /\ Len(<<>>) <= n
    OBVIOUS
  <1>2. \A s \in Seq({}) : Len(s) <= n => First(n, s) = s
    BY FirstOf
  <1> QED BY <1>1, <1>2

\* The first elements are still there after a cut.
LEMMA FirstHolds ==
    ASSUME NEW S, NEW s \in Seq(S), NEW n \in Nat, NEW k \in 1..Len(s), k <= n
    PROVE  s[k] \in ToSet(First(n, s))
  <1>1. PICK r : r = First(n, s)
    OBVIOUS
  <1>2. r \in Seq(S) /\ Len(r) = (IF n <= Len(s) THEN n ELSE Len(s)) /\ \A i \in 1..Len(r) : r[i] = s[i]
    BY <1>1, FirstOf
  <1>3. DOMAIN r = 1..Len(r) /\ Len(s) \in Nat
    BY <1>2
  <1>4. k \in 1..Len(r)
    BY <1>2, <1>3
  <1> QED BY <1>1, <1>2, <1>3, <1>4 DEF ToSet

\* Cutting what comes first does not change the beginning of the whole.
LEMMA FirstOfFirst ==
    ASSUME NEW S, NEW n \in Nat, NEW a \in Seq(S), NEW b \in Seq(S)
    PROVE  First(n, First(n, a) \o b) = First(n, a \o b)
  <1>1. CASE Len(a) <= n
    BY <1>1, FirstOf
  <1>2. CASE Len(a) > n
    <2>1. PICK c : c = First(n, a)
      OBVIOUS
    <2>2. c \in Seq(S) /\ Len(c) = n /\ \A i \in 1..n : c[i] = a[i]
      BY <1>2, <2>1, FirstOf
    <2>3. PICK p : p = c \o b
      OBVIOUS
    <2>4. PICK q : q = a \o b
      OBVIOUS
    <2>5. p \in Seq(S) /\ q \in Seq(S)
      BY <2>2, <2>3, <2>4
    <2>6. n <= Len(p) /\ n <= Len(q) /\ \A i \in 1..n : p[i] = a[i] /\ q[i] = a[i]
      BY <1>2, <2>2, <2>3, <2>4
    <2>7. /\ First(n, p) \in Seq(S) /\ Len(First(n, p)) = n
          /\ \A i \in 1..n : First(n, p)[i] = a[i]
      BY <2>5, <2>6, FirstOf
    <2>8. /\ First(n, q) \in Seq(S) /\ Len(First(n, q)) = n
          /\ \A i \in 1..n : First(n, q)[i] = a[i]
      BY <2>5, <2>6, FirstOf
    <2>9. First(n, p) = First(n, q)
      BY <2>7, <2>8
    <2> QED BY <2>1, <2>3, <2>4, <2>9
  <1> QED BY <1>1, <1>2

-----------------------------------------------------------------------------
(* StableSort, for an order of S in which every two elements can be        *)
(* compared.                                                               *)

Ordering(S, Order) ==
    /\ \A x, y \in S : <<x, y>> \in Order \/ <<y, x>> \in Order
    /\ \A x, y, z \in S : <<x, y>> \in Order /\ <<y, z>> \in Order => <<x, z>> \in Order

Sorted(s, Order) == \A i, j \in 1..Len(s) : i < j => <<s[i], s[j]>> \in Order

\* A filtered sequence is as sorted as the whole one.
LEMMA KeepSorts ==
    ASSUME NEW S, NEW s \in Seq(S), NEW Order, Sorted(s, Order), NEW Good
    PROVE  Sorted(Keep(s, Good), Order)
  <1>1. PICK r : r = Keep(s, Good)
    OBVIOUS
  <1>2. PICK place : Picks(place, s, Good)
    BY KeepPicks
  <1>3. /\ place \in [1..Len(r) -> 1..Len(s)]
        /\ \A k \in 1..Len(r) : r[k] = s[place[k]]
        /\ \A k, l \in 1..Len(r) : k < l => place[k] < place[l]
    BY <1>1, <1>2 DEF Picks
  <1>4. Sorted(r, Order)
    BY <1>3 DEF Sorted
  <1> QED BY <1>1, <1>4

\* An element that is inserted gets its place, and nobody loses one.
LEMMA InsertedSorts ==
    ASSUME NEW S, NEW Order, Ordering(S, Order),
           NEW s \in Seq(S), Sorted(s, Order), NEW e \in S
    PROVE  /\ Inserted(s, e, Order) \in Seq(S) /\ Sorted(Inserted(s, e, Order), Order)
           /\ Elements(Inserted(s, e, Order)) = Elements(s) \cup {e}
           /\ Distinguished(s) /\ e \notin Elements(s) => Distinguished(Inserted(s, e, Order))
  <1>1. PICK before : before = {s[i] : i \in {j \in DOMAIN s : <<s[j], e>> \in Order}}
    OBVIOUS
  <1>2. PICK behind : behind = {s[i] : i \in {j \in DOMAIN s : <<s[j], e>> \notin Order}}
    OBVIOUS
  <1>3. /\ before \cup behind = Elements(s)
        /\ \A x \in before : x \in S /\ <<x, e>> \in Order
        /\ \A x \in behind : x \in S /\ <<x, e>> \notin Order
    <2>1. DOMAIN s = 1..Len(s) /\ \A i \in 1..Len(s) : s[i] \in S
      OBVIOUS
    <2> QED BY <1>1, <1>2, <2>1 DEF Elements
  <1>4. PICK a : a = Keep(s, before)
    OBVIOUS
  <1>5. PICK b : b = Keep(s, behind)
    OBVIOUS
  <1>6. PICK r : r = a \o <<e>> \o b
    OBVIOUS
  <1>7. Inserted(s, e, Order) = r
    BY <1>1, <1>2, <1>4, <1>5, <1>6 DEF Inserted
  <1>8. /\ a \in Seq(S) /\ Sorted(a, Order) /\ Elements(a) = before
        /\ Distinguished(s) => Distinguished(a)
    BY <1>3, <1>4, KeepSequence, KeepSorts, KeepElements
  <1>9. /\ b \in Seq(S) /\ Sorted(b, Order) /\ Elements(b) = behind
        /\ Distinguished(s) => Distinguished(b)
    BY <1>3, <1>5, KeepSequence, KeepSorts, KeepElements
  <1>10. /\ r \in Seq(S) /\ Len(a) \in Nat /\ Len(b) \in Nat /\ Len(r) = Len(a) + 1 + Len(b)
         /\ \A i \in 1..Len(a) : r[i] = a[i]
         /\ r[Len(a) + 1] = e
         /\ \A i \in 1..Len(b) : r[Len(a) + 1 + i] = b[i]
    BY <1>6, <1>8, <1>9
  <1>11. /\ \A i \in 1..Len(a) : a[i] \in before
         /\ \A i \in 1..Len(b) : b[i] \in behind
         /\ \A x \in before : \E i \in 1..Len(a) : a[i] = x
         /\ \A x \in behind : \E i \in 1..Len(b) : b[i] = x
    BY <1>8, <1>9 DEF Elements
  <1>12. \A i \in 1..Len(r) : \/ i \in 1..Len(a)
                              \/ i = Len(a) + 1
                              \/ i - (Len(a) + 1) \in 1..Len(b) /\ r[i] = b[i - (Len(a) + 1)]
    <2> SUFFICES ASSUME NEW i \in 1..Len(r), i > Len(a) + 1
                 PROVE  i - (Len(a) + 1) \in 1..Len(b) /\ r[i] = b[i - (Len(a) + 1)]
      BY <1>10
    <2>1. i - (Len(a) + 1) \in 1..Len(b) /\ Len(a) + 1 + (i - (Len(a) + 1)) = i
      BY <1>10
    <2> QED BY <1>10, <2>1
  <1>13. \A x \in behind : <<e, x>> \in Order
    BY <1>3 DEF Ordering
  <1>14. \A x \in before, y \in behind : <<x, y>> \in Order
    BY <1>3, <1>13 DEF Ordering
  <1>15. Sorted(r, Order)
    <2> SUFFICES ASSUME NEW i \in 1..Len(r), NEW j \in 1..Len(r), i < j
                 PROVE  <<r[i], r[j]>> \in Order
      BY DEF Sorted
    <2>1. CASE i \in 1..Len(a)
      <3>1. CASE j \in 1..Len(a)
        BY <1>8, <1>10, <2>1, <3>1 DEF Sorted
      <3>2. CASE j = Len(a) + 1
        BY <1>3, <1>10, <1>11, <2>1, <3>2
      <3>3. CASE j - (Len(a) + 1) \in 1..Len(b) /\ r[j] = b[j - (Len(a) + 1)]
        BY <1>10, <1>11, <1>14, <2>1, <3>3
      <3> QED BY <1>12, <3>1, <3>2, <3>3
    <2>2. CASE i = Len(a) + 1
      <3>1. j - (Len(a) + 1) \in 1..Len(b) /\ r[j] = b[j - (Len(a) + 1)]
        <4>1. j \notin 1..Len(a) /\ j # Len(a) + 1
          BY <1>10, <2>2
        <4> QED BY <1>12, <4>1
      <3> QED BY <1>10, <1>11, <1>13, <2>2, <3>1
    <2>3. CASE i - (Len(a) + 1) \in 1..Len(b) /\ r[i] = b[i - (Len(a) + 1)]
      <3>1. j - (Len(a) + 1) \in 1..Len(b) /\ r[j] = b[j - (Len(a) + 1)]
        <4>1. j \notin 1..Len(a) /\ j # Len(a) + 1
          BY <1>10, <2>3
        <4> QED BY <1>12, <4>1
      <3>2. i - (Len(a) + 1) < j - (Len(a) + 1)
        BY <1>10
      <3> QED BY <1>9, <2>3, <3>1, <3>2 DEF Sorted
    <2> QED BY <1>12, <2>1, <2>2, <2>3
  <1>16. ASSUME NEW x PROVE x \in Elements(r) <=> x \in Elements(s) \/ x = e
    <2>1. x \in Elements(r) => x \in before \/ x = e \/ x \in behind
      <3> SUFFICES ASSUME NEW i \in 1..Len(r), x = r[i] PROVE x \in before \/ x = e \/ x \in behind
        BY DEF Elements
      <3> QED BY <1>10, <1>11, <1>12
    <2>2. x \in before \/ x \in behind \/ x = e => x \in Elements(r)
      <3>1. \A i \in 1..Len(a) : i \in 1..Len(r)
        BY <1>10
      <3>2. Len(a) + 1 \in 1..Len(r)
        BY <1>10
      <3>3. \A i \in 1..Len(b) : Len(a) + 1 + i \in 1..Len(r)
        BY <1>10
      <3> QED BY <1>10, <1>11, <3>1, <3>2, <3>3 DEF Elements
    <2> QED BY <1>3, <2>1, <2>2
  <1>17. ASSUME Distinguished(s), e \notin Elements(s), NEW i \in 1..Len(r), NEW j \in 1..Len(r),
                r[i] = r[j]
         PROVE  i = j
    <2>1. Distinguished(a) /\ Distinguished(b)
      BY <1>8, <1>9, <1>17
    <2>2. e \notin before /\ e \notin behind /\ \A x \in before : x \notin behind
      BY <1>3, <1>17
    <2>3. CASE i \in 1..Len(a)
      <3>1. j \in 1..Len(a)
        BY <1>10, <1>11, <1>12, <1>17, <2>2, <2>3
      <3> QED BY <1>10, <1>17, <2>1, <2>3, <3>1 DEF Distinguished
    <2>4. CASE i = Len(a) + 1
      BY <1>10, <1>11, <1>12, <1>17, <2>2, <2>4
    <2>5. CASE i - (Len(a) + 1) \in 1..Len(b) /\ r[i] = b[i - (Len(a) + 1)]
      <3>1. j - (Len(a) + 1) \in 1..Len(b) /\ r[j] = b[j - (Len(a) + 1)]
        <4>1. r[i] \in behind
          BY <1>11, <2>5
        <4>2. j \notin 1..Len(a) /\ j # Len(a) + 1
          BY <1>10, <1>11, <1>17, <2>2, <4>1
        <4> QED BY <1>12, <4>2
      <3>2. i - (Len(a) + 1) = j - (Len(a) + 1)
        BY <1>17, <2>1, <2>5, <3>1 DEF Distinguished
      <3> QED BY <1>10, <3>2
    <2> QED BY <1>12, <2>3, <2>4, <2>5
  <1> QED BY <1>7, <1>10, <1>15, <1>16, <1>17 DEF Distinguished

\* The recursive function of StableSort(s, Order), up to n.
IsSorting(f, s, n, Order) ==
    f = [i \in 0..n |-> IF i = 0 THEN <<>> ELSE Inserted(f[i - 1], s[i], Order)]

LEMMA SortingExists ==
    ASSUME NEW s, NEW Order
    PROVE  \A n \in Nat : \E f : IsSorting(f, s, n, Order)
  <1> DEFINE N == {n \in Nat : \E f : IsSorting(f, s, n, Order)}
  <1>1. 0 \in N
    <2>1. IsSorting([i \in 0..0 |-> <<>>], s, 0, Order)
      BY DEF IsSorting
    <2> QED BY <2>1
  <1>2. ASSUME NEW n \in Nat, n \in N PROVE n + 1 \in N
    <2>1. PICK f : IsSorting(f, s, n, Order)
      BY <1>2
    <2> DEFINE last == Inserted(f[n], s[n + 1], Order)
               g == [i \in 0..(n + 1) |-> IF i <= n THEN f[i] ELSE last]
    <2>2. \A i \in 0..n : g[i] = f[i]
      OBVIOUS
    <2>3. g[n + 1] = last
      OBVIOUS
    <2>4. ASSUME NEW i \in 0..(n + 1)
          PROVE  g[i] = IF i = 0 THEN <<>> ELSE Inserted(g[i - 1], s[i], Order)
      <3>1. CASE i <= n
        <4>1. i \in 0..n /\ (i # 0 => i - 1 \in 0..n)
          BY <3>1
        <4>2. f[i] = IF i = 0 THEN <<>> ELSE Inserted(f[i - 1], s[i], Order)
          BY <2>1, <4>1 DEF IsSorting
        <4> HIDE DEF g
        <4> QED BY <2>2, <4>1, <4>2
      <3>2. CASE i = n + 1
        <4>1. n \in 0..n /\ i # 0 /\ i - 1 = n
          BY <3>2
        <4> HIDE DEF g
        <4> QED BY <2>2, <2>3, <3>2, <4>1
      <3> QED BY <3>1, <3>2
    <2>5. IsSorting(g, s, n + 1, Order)
      BY <2>4 DEF IsSorting
    <2> QED BY <2>5
  <1> HIDE DEF N
  <1>3. \A n \in Nat : n \in N
    BY <1>1, <1>2, NumberInduction
  <1> QED BY <1>3 DEF N

\* StableSort returns the elements it is given, sorted.
LEMMA StableSortSorts ==
    ASSUME NEW S, NEW Order, Ordering(S, Order), NEW s \in Seq(S)
    PROVE  /\ StableSort(s, Order) \in Seq(S) /\ Sorted(StableSort(s, Order), Order)
           /\ Elements(StableSort(s, Order)) = Elements(s)
           /\ Distinguished(s) => Distinguished(StableSort(s, Order))
  <1>1. Len(s) \in Nat
    OBVIOUS
  <1>2. PICK f : IsSorting(f, s, Len(s), Order) /\ StableSort(s, Order) = f[Len(s)]
    <2>1. \E f : IsSorting(f, s, Len(s), Order)
      BY <1>1, SortingExists
    <2> QED BY <2>1 DEF StableSort, IsSorting
  <1>3. \A i \in 0..Len(s) : f[i] = IF i = 0 THEN <<>> ELSE Inserted(f[i - 1], s[i], Order)
    BY <1>2, Zenon DEF IsSorting
  <1> DEFINE N == {k \in Nat : k <= Len(s) =>
                      /\ f[k] \in Seq(S) /\ Sorted(f[k], Order)
                      /\ Elements(f[k]) = {s[i] : i \in 1..k}
                      /\ Distinguished(s) => Distinguished(f[k])}
  <1>4. 0 \in N
    <2>1. f[0] = <<>>
      BY <1>1, <1>3
    <2>2. <<>> \in Seq(S) /\ Len(<<>>) = 0
      OBVIOUS
    <2>3. Sorted(<<>>, Order) /\ Distinguished(<<>>)
      BY <2>2 DEF Sorted, Distinguished
    <2>4. Elements(<<>>) = {}
      BY <2>2 DEF Elements
    <2>5. {s[i] : i \in 1..0} = {}
      OBVIOUS
    <2> QED BY <2>1, <2>2, <2>3, <2>4, <2>5
  <1>5. ASSUME NEW k \in Nat, k \in N PROVE k + 1 \in N
    <2> SUFFICES ASSUME k + 1 <= Len(s)
                 PROVE  /\ f[k + 1] \in Seq(S) /\ Sorted(f[k + 1], Order)
                        /\ Elements(f[k + 1]) = {s[i] : i \in 1..(k + 1)}
                        /\ Distinguished(s) => Distinguished(f[k + 1])
      OBVIOUS
    <2>1. /\ f[k] \in Seq(S) /\ Sorted(f[k], Order) /\ Elements(f[k]) = {s[i] : i \in 1..k}
          /\ Distinguished(s) => Distinguished(f[k])
      BY <1>5
    <2>2. k + 1 \in 0..Len(s) /\ k + 1 # 0 /\ (k + 1) - 1 = k
      OBVIOUS
    <2>3. PICK g : g = f[k]
      OBVIOUS
    <2>4. PICK e \in S : e = s[k + 1]
      OBVIOUS
    <2>5. f[k + 1] = Inserted(g, e, Order)
      BY <1>3, <2>2, <2>3, <2>4
    <2>6. g \in Seq(S) /\ Sorted(g, Order)
      BY <2>1, <2>3
    <2>7. /\ f[k + 1] \in Seq(S) /\ Sorted(f[k + 1], Order)
          /\ Elements(f[k + 1]) = Elements(g) \cup {e}
          /\ Distinguished(g) /\ e \notin Elements(g) => Distinguished(f[k + 1])
      BY <2>5, <2>6, InsertedSorts
    <2>8. {s[i] : i \in 1..(k + 1)} = {s[i] : i \in 1..k} \cup {e}
      BY <2>4
    <2>9. Distinguished(s) => e \notin {s[i] : i \in 1..k}
      BY <2>4 DEF Distinguished
    <2> QED BY <2>1, <2>3, <2>7, <2>8, <2>9
  <1> HIDE DEF N
  <1>6. \A k \in Nat : k \in N
    BY <1>4, <1>5, NumberInduction
  <1>7. Len(s) \in N /\ Len(s) <= Len(s)
    BY <1>1, <1>6
  <1> QED BY <1>2, <1>7 DEF N, Elements

-----------------------------------------------------------------------------
(* Sums.                                                                   *)

\* Each value of f, up to n, comes from the one before.
Recurs(f, n, V, start, Step) ==
    f \in [0..n -> V] /\ f[0] = start /\ \A i \in 1..n : f[i] = Step[<<i, f[i - 1]>>]

\* Functions can be defined by recursion over the first numbers.
LEMMA Recursion ==
    ASSUME NEW V, NEW start \in V, NEW Step \in [Nat \X V -> V]
    PROVE  \A n \in Nat : \E f : Recurs(f, n, V, start, Step)
  <1> DEFINE N == {n \in Nat : \E f : Recurs(f, n, V, start, Step)}
  <1>1. 0 \in N
    <2>1. Recurs([i \in 0..0 |-> start], 0, V, start, Step)
      BY DEF Recurs
    <2> QED BY <2>1
  <1>2. ASSUME NEW n \in Nat, n \in N PROVE n + 1 \in N
    <2>1. PICK f : Recurs(f, n, V, start, Step)
      BY <1>2
    <2>2. PICK m \in Nat : m = n + 1
      OBVIOUS
    <2>3. f \in [0..n -> V] /\ f[n] \in V /\ <<m, f[n]>> \in Nat \X V
      BY <2>1 DEF Recurs
    <2>4. PICK last \in V : last = Step[<<m, f[n]>>]
      BY <2>3
    <2>5. PICK g : g = [i \in 0..m |-> IF i <= n THEN f[i] ELSE last]
      OBVIOUS
    <2>6. g \in [0..m -> V] /\ g[m] = last /\ \A i \in 0..n : g[i] = f[i]
      BY <2>2, <2>3, <2>5
    <2>7. ASSUME NEW i \in 1..m PROVE g[i] = Step[<<i, g[i - 1]>>]
      <3>1. CASE i = m
        <4>1. i - 1 = n /\ n \in 0..n
          BY <2>2, <3>1
        <4> QED BY <2>4, <2>6, <3>1, <4>1
      <3>2. CASE i # m
        <4>1. i \in 1..n /\ i \in 0..n /\ i - 1 \in 0..n
          BY <2>2, <3>2
        <4> QED BY <2>1, <2>6, <4>1 DEF Recurs
      <3> QED BY <3>1, <3>2
    <2>8. g[0] = start
      BY <2>1, <2>6 DEF Recurs
    <2>9. Recurs(g, m, V, start, Step)
      BY <2>6, <2>7, <2>8 DEF Recurs
    <2> QED BY <2>2, <2>9
  <1> HIDE DEF N
  <1>3. \A n \in Nat : n \in N
    BY <1>1, <1>2, NumberInduction
  <1> QED BY <1>3 DEF N

\* The sums of the beginnings of a sequence of numbers.
Sums(f, s, n) == f[0] = 0 /\ \A i \in 1..n : f[i] = f[i - 1] + s[i]

LEMMA TotalIsSum ==
    ASSUME NEW s \in Seq(Int)
    PROVE  \E f \in [0..Len(s) -> Int] : Sums(f, s, Len(s)) /\ Total(s) = f[Len(s)]
  <1>1. PICK n \in Nat : n = Len(s) /\ \A i \in 1..n : s[i] \in Int
    OBVIOUS
  <1>2. PICK Step : Step = [p \in Nat \X Int |-> p[2] + (IF p[1] \in 1..n THEN s[p[1]] ELSE 0)]
    OBVIOUS
  <1>3. Step \in [Nat \X Int -> Int]
    BY <1>1, <1>2
  <1>4. PICK f : Recurs(f, n, Int, 0, Step)
    <2>1. 0 \in Int
      OBVIOUS
    <2>2. \A m \in Nat : \E f : Recurs(f, m, Int, 0, Step)
      BY <1>3, <2>1, Recursion
    <2> QED BY <2>2
  <1>a. f \in [0..n -> Int] /\ f[0] = 0 /\ \A i \in 1..n : f[i] = Step[<<i, f[i - 1]>>]
    BY <1>4 DEF Recurs
  <1>5. ASSUME NEW i \in 1..n PROVE f[i] = f[i - 1] + s[i]
    <2>1. i \in Nat /\ i - 1 \in 0..n
      OBVIOUS
    <2>2. f[i - 1] \in Int
      BY <1>a, <2>1
    <2>3. Step[<<i, f[i - 1]>>] = f[i - 1] + s[i]
      BY <1>2, <2>1, <2>2
    <2> QED BY <1>a, <2>3
  <1>6. f = [i \in 0..n |-> IF i = 0 THEN 0 ELSE f[i - 1] + s[i]]
    <2>1. ASSUME NEW i \in 0..n PROVE f[i] = IF i = 0 THEN 0 ELSE f[i - 1] + s[i]
      <3>1. i = 0 \/ i \in 1..n
        OBVIOUS
      <3> QED BY <1>a, <1>5, <3>1
    <2> QED BY <1>a, <2>1
  <1> DEFINE sum == CHOOSE g : g = [i \in 0..n |-> IF i = 0 THEN 0 ELSE g[i - 1] + s[i]]
  <1>7. sum = [i \in 0..n |-> IF i = 0 THEN 0 ELSE sum[i - 1] + s[i]]
    BY <1>6
  <1>8. Total(s) = sum[n]
    BY <1>1 DEF Total
  <1> HIDE DEF sum
  <1>9. \A i \in 0..n : sum[i] = IF i = 0 THEN 0 ELSE sum[i - 1] + s[i]
    BY <1>7, Zenon
  <1> DEFINE N == {i \in Nat : i <= n => sum[i] = f[i]}
  <1>10. 0 \in N
    BY <1>a, <1>9
  <1>11. ASSUME NEW i \in Nat, i \in N PROVE i + 1 \in N
    <2> SUFFICES ASSUME i + 1 <= n PROVE sum[i + 1] = f[i + 1]
      OBVIOUS
    <2>1. PICK j \in 1..n : j = i + 1 /\ j - 1 = i /\ j # 0 /\ j \in 0..n
      OBVIOUS
    <2>2. sum[j] = sum[j - 1] + s[j] /\ f[j] = f[j - 1] + s[j]
      BY <1>5, <1>9, <2>1
    <2>3. sum[i] = f[i]
      BY <1>11, <2>1
    <2> QED BY <2>1, <2>2, <2>3
  <1> HIDE DEF N
  <1>12. n \in N
    BY <1>10, <1>11, NumberInduction
  <1>13. Total(s) = f[n]
    BY <1>8, <1>12 DEF N
  <1> QED BY <1>1, <1>a, <1>5, <1>13 DEF Sums

LEMMA TotalEmpty == Total(<<>>) = 0
  <1>1. <<>> \in Seq(Int) /\ Len(<<>>) = 0
    OBVIOUS
  <1> QED BY <1>1, TotalIsSum DEF Sums

LEMMA TotalAppend ==
    ASSUME NEW s \in Seq(Int), NEW e \in Int
    PROVE  Total(s) \in Int /\ Total(Append(s, e)) = Total(s) + e
  <1>1. PICK n \in Nat : n = Len(s)
    OBVIOUS
  <1>2. PICK t : t = Append(s, e)
    OBVIOUS
  <1>3. t \in Seq(Int) /\ Len(t) = n + 1 /\ t[n + 1] = e /\ \A i \in 1..n : t[i] = s[i]
    BY <1>1, <1>2
  <1>4. PICK f \in [0..n -> Int] : Sums(f, s, n) /\ Total(s) = f[n]
    BY <1>1, TotalIsSum
  <1>5. PICK g \in [0..(n + 1) -> Int] : Sums(g, t, n + 1) /\ Total(t) = g[n + 1]
    BY <1>3, TotalIsSum
  <1> DEFINE N == {i \in Nat : i <= n => f[i] = g[i]}
  <1>6. 0 \in N
    BY <1>4, <1>5 DEF Sums
  <1>7. ASSUME NEW i \in Nat, i \in N PROVE i + 1 \in N
    <2> SUFFICES ASSUME i + 1 <= n PROVE f[i + 1] = g[i + 1]
      OBVIOUS
    <2>1. PICK j \in 1..n : j = i + 1 /\ j - 1 = i /\ j \in 1..(n + 1)
      OBVIOUS
    <2>2. f[j] = f[j - 1] + s[j] /\ g[j] = g[j - 1] + t[j]
      BY <1>4, <1>5, <2>1 DEF Sums
    <2>3. f[i] = g[i]
      BY <1>7, <2>1
    <2> QED BY <1>3, <2>1, <2>2, <2>3
  <1> HIDE DEF N
  <1>8. n \in N
    BY <1>6, <1>7, NumberInduction
  <1>9. f[n] = g[n]
    BY <1>8 DEF N
  <1>10. g[n + 1] = g[n] + e
    <2>1. PICK j \in 1..(n + 1) : j = n + 1 /\ j - 1 = n
      OBVIOUS
    <2> QED BY <1>3, <1>5, <2>1 DEF Sums
  <1> QED BY <1>2, <1>4, <1>5, <1>9, <1>10

\* The sum of integers is one, that of numbers that are not negative is not negative.
LEMMA TotalType ==
    /\ \A s \in Seq(Int) : Total(s) \in Int
    /\ \A s \in Seq(Nat) : Total(s) \in Nat
  <1>1. \A s \in Seq(Int) : Total(s) \in Int
    <2>1. 0 \in Int
      OBVIOUS
    <2> QED BY <2>1, TotalAppend
  <1> DEFINE P == {s \in Seq(Nat) : Total(s) \in Nat}
  <1>2. <<>> \in P
    <2>1. <<>> \in Seq(Nat)
      OBVIOUS
    <2> QED BY <2>1, TotalEmpty
  <1>3. ASSUME NEW s \in Seq(Nat), NEW e \in Nat, s \in P PROVE Append(s, e) \in P
    <2>1. s \in Seq(Int) /\ e \in Int /\ Append(s, e) \in Seq(Nat)
      OBVIOUS
    <2>2. Total(Append(s, e)) = Total(s) + e
      BY <2>1, TotalAppend
    <2> QED BY <1>3, <2>1, <2>2
  <1> HIDE DEF P
  <1>4. \A s \in Seq(Nat) : s \in P
    BY <1>2, <1>3, SequenceInduction
  <1> QED BY <1>1, <1>4 DEF P

\* The sum of numbers of which one at most is not zero.
LEMMA SingleTotal ==
    ASSUME NEW s \in Seq(Int), NEW k \in 1..Len(s), \A i \in 1..Len(s) : i # k => s[i] = 0
    PROVE  Total(s) = s[k]
  <1>1. PICK n \in Nat : n = Len(s) /\ \A i \in 1..n : s[i] \in Int
    OBVIOUS
  <1>2. PICK f \in [0..n -> Int] : Sums(f, s, n) /\ Total(s) = f[n]
    BY <1>1, TotalIsSum
  <1> DEFINE N == {i \in Nat : i <= n => f[i] = IF i < k THEN 0 ELSE s[k]}
  <1>3. 0 \in N
    BY <1>2 DEF Sums
  <1>4. ASSUME NEW i \in Nat, i \in N PROVE i + 1 \in N
    <2> SUFFICES ASSUME i + 1 <= n PROVE f[i + 1] = IF i + 1 < k THEN 0 ELSE s[k]
      OBVIOUS
    <2>1. PICK j \in 1..n : j = i + 1 /\ j - 1 = i
      OBVIOUS
    <2>2. f[j] = f[j - 1] + s[j]
      BY <1>2, <2>1 DEF Sums
    <2>3. f[i] = IF i < k THEN 0 ELSE s[k]
      BY <1>4, <2>1
    <2>4. j # k => s[j] = 0
      BY <1>1
    <2> QED BY <1>1, <2>1, <2>2, <2>3, <2>4
  <1> HIDE DEF N
  <1>5. n \in N
    BY <1>3, <1>4, NumberInduction
  <1> QED BY <1>1, <1>2, <1>5 DEF N

\* Two sets with the same elements of a sequence keep the same of it.
LEMMA KeepSame ==
    ASSUME NEW S, NEW A, NEW B, \A x \in S : x \in A <=> x \in B
    PROVE  \A s \in Seq(S) : Keep(s, A) = Keep(s, B)
  <1> DEFINE P == {s \in Seq(S) : Keep(s, A) = Keep(s, B)}
  <1>1. <<>> \in P
    <2>1. <<>> \in Seq(S)
      OBVIOUS
    <2> QED BY <2>1, KeepEmpty
  <1>2. ASSUME NEW s \in Seq(S), NEW e \in S, s \in P PROVE Append(s, e) \in P
    <2>1. Append(s, e) \in Seq(S) /\ Keep(s, A) = Keep(s, B) /\ (e \in A <=> e \in B)
      BY <1>2
    <2>2. /\ Keep(Append(s, e), A) = IF e \in A THEN Append(Keep(s, A), e) ELSE Keep(s, A)
          /\ Keep(Append(s, e), B) = IF e \in B THEN Append(Keep(s, B), e) ELSE Keep(s, B)
      BY KeepAppend
    <2> QED BY <2>1, <2>2
  <1> HIDE DEF P
  <1>3. \A s \in Seq(S) : s \in P
    BY <1>1, <1>2, SequenceInduction
  <1> QED BY <1>3 DEF P

LEMMA PrefixOfConcat ==
    ASSUME NEW S, NEW s \in Seq(S), NEW t \in Seq(S)
    PROVE  IsPrefix(s, s \o t)
  <1>1. PICK r : r = s \o t
    OBVIOUS
  <1>2. r \in Seq(S) /\ Len(r) = Len(s) + Len(t) /\ Len(s) \in Nat /\ Len(t) \in Nat
        /\ \A i \in 1..Len(s) : r[i] = s[i]
    BY <1>1
  <1>3. SubSeq(r, 1, Len(s)) = SubSeq(s, 1, Len(s))
    <2>1. SubSeq(r, 1, Len(s)) \in Seq(S) /\ Len(SubSeq(r, 1, Len(s))) = Len(s)
          /\ \A i \in 1..Len(s) : SubSeq(r, 1, Len(s))[i] = s[i]
      BY <1>2
    <2>2. SubSeq(s, 1, Len(s)) = s
      OBVIOUS
    <2> QED BY <2>1, <2>2
  <1> QED BY <1>1, <1>2, <1>3 DEF IsPrefix

\* A sum, from the first number.
LEMMA TotalHead ==
    ASSUME NEW e \in Int
    PROVE  \A s \in Seq(Int) : Total(<<e>> \o s) = e + Total(s)
  <1> DEFINE P == {s \in Seq(Int) : Total(<<e>> \o s) = e + Total(s)}
  <1>1. <<>> \in P
    <2>1. <<>> \in Seq(Int) /\ <<e>> \o <<>> = Append(<<>>, e)
      OBVIOUS
    <2>2. Total(Append(<<>>, e)) = Total(<<>>) + e
      BY <2>1, TotalAppend
    <2> QED BY <2>1, <2>2, TotalEmpty
  <1>2. ASSUME NEW s \in Seq(Int), NEW d \in Int, s \in P PROVE Append(s, d) \in P
    <2>1. PICK r : r = <<e>> \o s
      OBVIOUS
    <2>2. r \in Seq(Int) /\ Append(s, d) \in Seq(Int) /\ <<e>> \o Append(s, d) = Append(r, d)
      BY <2>1
    <2>3. Total(r) \in Int /\ Total(Append(r, d)) = Total(r) + d
      BY <2>2, TotalAppend
    <2>4. Total(s) \in Int /\ Total(Append(s, d)) = Total(s) + d
      BY TotalAppend
    <2>5. Total(r) = e + Total(s)
      BY <1>2, <2>1
    <2>6. PICK q : q = Append(s, d)
      OBVIOUS
    <2>7. Total(<<e>> \o q) = Total(r) + d /\ Total(q) = Total(s) + d
      BY <2>2, <2>3, <2>4, <2>6
    <2> QED BY <2>2, <2>4, <2>5, <2>6, <2>7
  <1> HIDE DEF P
  <1>3. \A s \in Seq(Int) : s \in P
    BY <1>1, <1>2, SequenceInduction
  <1> QED BY <1>3 DEF P

LEMMA EmptyPrefix ==
    ASSUME NEW S, NEW s \in Seq(S)
    PROVE  IsPrefix(<<>>, s)
  <1>1. SubSeq(s, 1, 0) = <<>> /\ Len(<<>>) = 0 /\ Len(s) \in Nat /\ SubSeq(<<>>, 1, 0) = <<>>
    OBVIOUS
  <1> QED BY <1>1 DEF IsPrefix

LEMMA AppendConcat ==
    ASSUME NEW S, NEW s \in Seq(S), NEW e \in S, NEW t \in Seq(S)
    PROVE  Append(s, e) \in Seq(S) /\ s \o (<<e>> \o t) = Append(s, e) \o t
  <1>1. <<e>> \in Seq(S) /\ Append(s, e) \in Seq(S) /\ s \o <<e>> = Append(s, e)
    OBVIOUS
  <1>2. s \o (<<e>> \o t) = Append(s, e) \o t
    BY <1>1, ConcatAssociative
  <1> QED BY <1>1, <1>2

\* A sequence is one of its elements.
LEMMA OfItsElements ==
    ASSUME NEW S, NEW s \in Seq(S)
    PROVE  s \in Seq(ToSet(s))
  BY DEF ToSet
=============================================================================
