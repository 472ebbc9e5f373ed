------------------------------- MODULE OutboxMC -------------------------------
(***************************************************************************)
(* The outbox for TLC: one DB-only subscription that relays and one        *)
(* external one, two workers that can take over each other's leases.       *)
(***************************************************************************)
EXTENDS Outbox, TLC

CONSTANTS db, ext, w1, w2

MCSubscriptions == {db, ext}
MCWorkers       == {w1, w2}

Symmetry == Permutations(MCWorkers)
===============================================================================
