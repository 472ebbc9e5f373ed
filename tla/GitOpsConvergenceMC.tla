------------------------- MODULE GitOpsConvergenceMC -------------------------
(***************************************************************************)
(* Convergence of the control loop for TLC: one worker for two stacks, so  *)
(* that a stack can be overtaken; the second revision changes one of them. *)
(***************************************************************************)
EXTENDS GitOpsConvergence, TLC

CONSTANTS s1, s2, w1

MCStacks    == {s1, s2}
MCWorkers   == {w1}
MCRevisions == {1, 2}
MCConfig    == <<<<s1, s2>>, <<s2, s1>>>>
MCTouched   == <<{}, {s1}>>
MCRank      == [s \in MCStacks |-> 1]
==============================================================================
