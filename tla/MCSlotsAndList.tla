--------------------------- MODULE MCSlotsAndList ---------------------------
EXTENDS SlotsAndListProperties, TLC

Symmetry == Permutations(Client) \cup Permutations(Fd)
=============================================================================
