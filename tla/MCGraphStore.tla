--------------------------- MODULE MCGraphStore ---------------------------
(***************************************************************************)
(* Small instances of GraphStore for TLC.                                  *)
(***************************************************************************)
EXTENDS GraphStoreRefinement, TLC

\* Model values of the configurations.
CONSTANTS main, dev, p1, p2, i1, i2, v1, v2

\* Processes and row contents are interchangeable.
Symmetry == Permutations(Procs) \cup Permutations(Values)

=============================================================================
