---------------------------- MODULE MCDAGEngine ----------------------------
EXTENDS DAGEngine, TLC

\* Every graph over the steps and one id that is missing, and those without cycle.
AllGraphs == [Steps -> SUBSET (Steps \cup Missing)]
Acyclic   == {g \in [Steps -> SUBSET Steps] : ~HasCycle(g)}

Symmetric == Permutations(Sessions)
=============================================================================
