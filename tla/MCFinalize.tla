----------------------------- MODULE MCFinalize -----------------------------
EXTENDS Finalize

Named(target) == [kind |-> "named", target |-> target, exported |-> TRUE]

(* Every graph of four files of which only the first may import itself. *)
Targets(f) == IF f = 1 THEN Files ELSE Files \ {f}
Graphs4 == {g \in [Files -> SUBSET Files] : \A f \in Files : g[f] \subseteq Targets(f)}
OfGraph(g) == [f \in Files |-> SetToSeq({Named(t) : t \in g[f]})]

(* Imports of every kind, to a leaf, to the file itself, out of the workspace
   and to nowhere, around a cycle of the other files. *)
Odd == {x \in Import : x.kind = "dynamic" => x.target = Nowhere}
OddImports == {x \in Odd : x.target \in {1, 2, Nowhere, Outside}}
OfOdd(x, y) == [f \in Files |->
  CASE f = 1 -> <<x, y>>
    [] f = 2 -> <<y>>
    [] f = 3 -> <<Named(4), x>>
    [] OTHER -> <<Named(3)>>]

MCInputs == {OfGraph(g) : g \in Graphs4} \cup {OfOdd(x, y) : x \in OddImports, y \in OddImports}
=============================================================================
