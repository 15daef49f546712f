----------------------------- MODULE MCOwnership -----------------------------
\* Small instances of socket ownership for TLC: processes of one build, the
\* probing commands and the process ids are interchangeable.
EXTENDS Ownership, TLC

Symmetry == Permutations(Daemons) \cup Permutations(Legacy)
              \cup Permutations(Probers) \cup Permutations(Pids)
=============================================================================
