----------------------------- MODULE MetricLog -----------------------------
(***************************************************************************)
(* What the collector of core/monitoring promises of the records it is     *)
(* given: each is delivered once, in the order of the calls of emit().     *)
(***************************************************************************)
EXTENDS Integers, Sequences, SequencesExt

CONSTANT Records

VARIABLES
    emitted,    \* every record given to emit(), in order
    delivered   \* every record a flush handed to the subscribers, in order

Init == emitted = <<>> /\ delivered = <<>>

Emit == \E r \in Records : emitted' = Append(emitted, r) /\ UNCHANGED delivered

Deliver ==
    /\ \E n \in Len(delivered) + 1 .. Len(emitted) : delivered' = SubSeq(emitted, 1, n)
    /\ UNCHANGED emitted

Spec == Init /\ [][Emit \/ Deliver]_<<emitted, delivered>>
=============================================================================
