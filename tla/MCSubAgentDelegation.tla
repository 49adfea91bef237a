------------------------ MODULE MCSubAgentDelegation ------------------------
(* Symmetry of SubAgentDelegation for TLC: no property is temporal.        *)
EXTENDS SubAgentDelegation, TLC

Symmetric == Permutations(Servers)
=============================================================================
