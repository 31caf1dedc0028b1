---------------------------- MODULE MCInspection ----------------------------
(***************************************************************************)
(* Small instances of Inspection for TLC.                                  *)
(***************************************************************************)
EXTENDS Inspection, TLC

\* Model values of the configurations: a symbol, a row of another table, an edge.
CONSTANTS main, dev, fn, file, edge, v1, v2

\* Row contents are interchangeable.
Symmetry == Permutations(Values)

=============================================================================
