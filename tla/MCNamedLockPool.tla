-------------------------- MODULE MCNamedLockPool --------------------------
EXTENDS NamedLockPool, TLC

Symmetry == Permutations(Users) \cup Permutations(Names) \cup Permutations(Locks)
=============================================================================
