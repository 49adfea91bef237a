-------------------------- MODULE MCWorkingMemory ---------------------------
(* Values of the constants of WorkingMemory for TLC.                       *)
EXTENDS WorkingMemory, TLC

CONSTANTS n1, n2, i1, i2

Overlapping == {{i1}, {i1, i2, n1}}

\* BOUND: clients that take turns have two notes, which reach the limit, one item and
\* the clock; those whose operations overlap have one note, two items and no clock.
Affordable ==
    IF shared
    THEN /\ now = 0 /\ n2 \notin used
         /\ \A c \in Clients : val[c] # NoNote => val[c].exp = Never
    ELSE i2 \notin used

Symmetric == Permutations(Clients)
=============================================================================
