-------------------------- MODULE StackReconcilerMC --------------------------
(***************************************************************************)
(* Two services: one scaled and repaired automatically, one that is not    *)
(* compared by count and not repaired.  The second definition drops the    *)
(* first service.                                                          *)
(***************************************************************************)
EXTENDS StackReconciler, TLC

CONSTANTS a, b

MCServices    == {a, b}
MCMissing     == 0
MCCounts      == (a :> {MCMissing, 1, 2}) @@ (b :> {MCMissing, 1})
MCDefinitions == {(a :> 1) @@ (b :> 1), (b :> 1)}
MCCompared    == {a}
MCSelfHeal    == {a}
===============================================================================
