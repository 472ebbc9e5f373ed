--------------------------- MODULE ServiceRolloutMC ---------------------------
EXTENDS ServiceRollout, TLC

CONSTANTS s1, s2

Def(t, e, m) == [tmpl |-> t, ep |-> e, meta |-> m, force |-> 0, replicas |-> 2]

MCSlots == {s1, s2}
MCDefinitions == {Def(1, 1, 1), Def(1, 2, 1), Def(1, 2, 2)}
MCDeployed == {Def(1, 1, 1)}
MCReplaced == {NoSpec, Def(1, 2, 1)}

\* No action and no property tells the slots apart.
SlotSymmetry == Permutations(MCSlots)
===============================================================================
