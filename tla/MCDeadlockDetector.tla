-------------------------- MODULE MCDeadlockDetector --------------------------
\* Threads that differ in name only, and locks too.
EXTENDS LockSearch, TLC

NameSymmetry == Permutations(Threads) \cup Permutations(Locks)
=============================================================================
