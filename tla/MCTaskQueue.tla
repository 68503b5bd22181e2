---------------------------- MODULE MCTaskQueue ----------------------------
EXTENDS TaskQueueProperties

CONSTANTS w1, w2, w3, t1, t2, t3

Symmetry == Permutations(Worker) \cup Permutations(Task)
=============================================================================
