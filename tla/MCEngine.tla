------------------------------ MODULE MCEngine ------------------------------
EXTENDS Engine, TLC
Symmetry == Permutations(Conns) \cup Permutations(Fds)
=============================================================================
