--------------------------- MODULE MCJITResolver ---------------------------
(* Values of the constants of JITResolver for TLC.                         *)
EXTENDS JITResolver, TLC

CONSTANTS r1, r2, source, tool

LocOfRefs == r1 :> source @@ r2 :> tool

\* The reference to the tool result expires, the one to the source does not.
ExpiryOfRefs == [r \in Refs |-> IF r = r2 THEN 1 ELSE MaxTime]

Symmetric == Permutations(Resolvers)
=============================================================================
