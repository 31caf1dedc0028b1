---------------------------- MODULE MCServerJobs ----------------------------
(* Model values for TLC.  There is no symmetry: most runs check liveness. *)
EXTENDS ServerJobs

CONSTANTS r1, r2

=============================================================================
