--------------------------- MODULE MCLeaseDaemon ---------------------------
\* Small instances of the handover for TLC.
EXTENDS LeaseDaemon, TLC
=============================================================================
