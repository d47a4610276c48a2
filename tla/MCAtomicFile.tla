---------------------------- MODULE MCAtomicFile ----------------------------
EXTENDS AtomicFile, TLC

CONSTANTS p1, p2, n1, n2, c1, c2

\* Processes, ids and contents are interchangeable.
Interchange == Permutations({p1, p2}) \cup Permutations({n1, n2})
               \cup Permutations({c1, c2})
=============================================================================
