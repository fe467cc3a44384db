-------------------------- MODULE MCSimulatorStore --------------------------
(* Two gridctl processes over one registered and one built model.          *)
EXTENDS SimulatorStore, TLC

CONSTANTS g1, g2, m1, k1, p1, b1, b2, b3

\* The outage of b2 does not converge; the built model has no solution.
DivergingFlows == {<<m1, b2>>, <<k1, None>>}
BreakingFlows  == {<<m1, b3>>}
SomeStudies    == {<<b1, b2>>, <<b2>>, <<b1, b3>>}

Processes == Permutations(Process)
=============================================================================
