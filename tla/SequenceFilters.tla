-------------------------- MODULE SequenceFilters ---------------------------
(***************************************************************************)
(* Filtering, cutting, sorting and summing, as recursive functions:        *)
(* the provers can expand neither SelectSeq nor the folds.                 *)
(***************************************************************************)
EXTENDS Integers, Sequences

\* The elements of a sequence that are in a set, in their order.
Keep(s, Good) ==
    LET kept[i \in 0..Len(s)] ==
          IF i = 0 THEN <<>>
          ELSE IF s[i] \in Good THEN Append(kept[i - 1], s[i]) ELSE kept[i - 1]
    IN  kept[Len(s)]

\* A slice of the code: the first n elements, or all.
First(n, s) == SubSeq(s, 1, IF n <= Len(s) THEN n ELSE Len(s))

\* One element goes behind all that may stand before it.
Inserted(sorted, e, Order) ==
    LET before == {sorted[i] : i \in {j \in DOMAIN sorted : <<sorted[j], e>> \in Order}}
        behind == {sorted[i] : i \in {j \in DOMAIN sorted : <<sorted[j], e>> \notin Order}}
    IN  Keep(sorted, before) \o <<e>> \o Keep(sorted, behind)

\* sorted(): Order has the pairs of which the first may stand before the second;
\* elements that may stand in both orders stay in that of the sequence.
StableSort(s, Order) ==
    LET sorted[i \in 0..Len(s)] ==
          IF i = 0 THEN <<>> ELSE Inserted(sorted[i - 1], s[i], Order)
    IN  sorted[Len(s)]

Total(numbers) ==
    LET sum[i \in 0..Len(numbers)] == IF i = 0 THEN 0 ELSE sum[i - 1] + numbers[i]
    IN  sum[Len(numbers)]
=============================================================================
