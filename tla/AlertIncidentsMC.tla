--------------------------- MODULE AlertIncidentsMC ---------------------------
(***************************************************************************)
(* One stack, two repositories and one node for TLC.                       *)
(***************************************************************************)
EXTENDS AlertIncidents, TLC

CONSTANTS s1, r1, r2, n1

MCStacks       == {s1}
MCRepositories == {r1, r2}
SwapRepositories == Permutations(MCRepositories)
================================================================================
