--------------------------- MODULE MCMergeArchive ---------------------------
\* Small instances of the merge lifecycle for TLC.
EXTENDS MergeArchive

CONSTANTS c1, c2

TwoClaims == <<c1, c2>>
=============================================================================
