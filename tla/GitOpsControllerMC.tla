-------------------------- MODULE GitOpsControllerMC --------------------------
(***************************************************************************)
(* The control loop for TLC: two revisions that configure different        *)
(* stacks, with a push that changes one of them.                           *)
(***************************************************************************)
EXTENDS GitOpsController, TLC

CONSTANTS s1, s2, w1

MCStacks    == {s1, s2}
MCWorkers   == {w1}
MCRevisions == {1, 2}

\* Revision 2 removes s2 and changes s1.
MCConfig  == <<<<s1, s2>>, <<s1>>>>
MCTouched == <<{}, {s1}>>
MCRank    == [s \in MCStacks |-> 1]
===============================================================================
