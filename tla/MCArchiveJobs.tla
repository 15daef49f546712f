--------------------------- MODULE MCArchiveJobs ---------------------------
(***************************************************************************)
(* Instances of ArchiveJobs for TLC.                                       *)
(***************************************************************************)
EXTENDS ArchiveJobs
=============================================================================
