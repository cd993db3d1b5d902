------------------------------ MODULE MC_Queue ------------------------------
EXTENDS Queue, TLC

CONSTANTS p1, p2, c1, c2, v1, v2

MCProducers == {p1, p2}
MCConsumers == {c1, c2}
MCVals      == {v1, v2}

ThreadSymmetry == Permutations(MCProducers) \cup Permutations(MCConsumers)
====
