------------------------------ MODULE MCFsJobs ------------------------------
(* Small instances of FsJobs for TLC. *)
EXTENDS FsJobs
=============================================================================
