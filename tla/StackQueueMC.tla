---------------------------- MODULE StackQueueMC ----------------------------
(***************************************************************************)
(* The stack queue on its own for TLC: every call order of its methods.    *)
(***************************************************************************)
EXTENDS StackQueue, TLC

CONSTANTS s1, s2, s3, w1, w2

MCStacks    == {s1, s2, s3}
MCWorkers   == {w1, w2}
MCRevisions == {1}

Symmetry == Permutations(MCStacks) \cup Permutations(MCWorkers)
=============================================================================
