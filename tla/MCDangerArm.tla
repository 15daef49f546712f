---------------------------- MODULE MCDangerArm ----------------------------
\* Small instances of the permission-mode change for TLC: requests are
\* interchangeable.
EXTENDS DangerArm, TLC

Symmetry == Permutations(Requests)
=============================================================================
