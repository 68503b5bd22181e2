-------------------------- MODULE MCAnimateServer --------------------------
EXTENDS ServerInvariant

CONSTANTS p1, p2, a1, a2, w1, w2

Symmetry == Permutations(Pid) \cup Permutations(Addr) \cup Permutations(Worker)
=============================================================================
