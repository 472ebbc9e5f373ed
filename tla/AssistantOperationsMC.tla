----------------------- MODULE AssistantOperationsMC -----------------------
(* The assistant's operations for TLC: two goroutine slots, two retained   *)
(* runs.                                                                   *)
EXTENDS AssistantOperations, TLC

CONSTANTS r1, r2, r3, k1, k2

MCRequests == {r1, r2, r3}

MCSlots == {k1, k2}

MCSymmetry == Permutations(MCRequests) \cup Permutations(MCSlots)

=============================================================================
