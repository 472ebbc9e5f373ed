----------------------- MODULE DeploymentLifecycleMC -----------------------
(***************************************************************************)
(* The deployment lifecycle for TLC: two processes, two definitions that   *)
(* share one service of two.                                               *)
(***************************************************************************)
EXTENDS DeploymentLifecycle, TLC

CONSTANTS p1, p2, x, y

MCServicesOf == (x :> {1, 2}) @@ (y :> {2})

Symmetry == Permutations({p1, p2})
=============================================================================
