---------------------------- MODULE MCConnPool ----------------------------
EXTENDS ConnPoolRefinement, TLC

CONSTANTS r1, r2, r3, pa, pb, q1, q2, q3

(* r1 and r2 are two names of one database, r3 has its own. *)
MCPathOf == (r1 :> pa) @@ (r2 :> pa) @@ (r3 :> pb)

MCSymmetry == Permutations(Queries \ Scanners) \cup Permutations({r1, r2})
=============================================================================
