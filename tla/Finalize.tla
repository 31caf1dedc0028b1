------------------------------ MODULE Finalize ------------------------------
(***************************************************************************)
(* packages/shared, scope-resolution/finalize-algorithm: imports between   *)
(* files are linked to what the target files export.  Tarjan's algorithm,  *)
(* without recursion, cuts the graph of imports into strongly connected    *)
(* components, leaves first; in each the imports are linked by repeated    *)
(* passes, as many at most as the component has imports.                   *)
(*                                                                         *)
(* Files are numbered in the order of their paths.  Of an import the model *)
(* keeps its kind, the file it leads to and whether that file exports the  *)
(* name.  A file's imports are visited in any order.                       *)
(***************************************************************************)
EXTENDS Naturals, Sequences, FiniteSets, FiniteSetsExt, SequencesExt

CONSTANTS
  N,        \* the number of files
  Nowhere,  \* the target of an import that cannot be resolved
  Outside,  \* a target that is not among the files
  Inputs    \* the imports of each file

Files == 1..N
Kinds == {"named", "namespace", "wildcard", "dynamic"}
Import == [kind : Kinds, target : Files \cup {Nowhere, Outside}, exported : BOOLEAN]

ASSUME InputAssumption ==
  /\ N \in Nat
  /\ Nowhere \notin Files /\ Outside \notin Files /\ Nowhere # Outside
  /\ Inputs \subseteq [Files -> Seq(Import)]
  /\ \A imports \in Inputs : \A f \in Files : \A i \in DOMAIN imports[f] :
       imports[f][i].kind = "dynamic" => imports[f][i].target = Nowhere

VARIABLES
  imports,  \* the input
  pc,       \* "tarjan", "link" or "done"
  index,    \* when each file was entered, 0 for not yet
  low,      \* the lowlink of each file
  stack,    \* the files that have no component yet
  frames,   \* the path of the depth-first search
  sccs,     \* the components found so far
  now,      \* the component that is linked
  passes,   \* the passes over it, and whether the last made progress
  final     \* the status of each import: "none", "linked" or "unresolved"

vars == <<imports, pc, index, low, stack, frames, sccs, now, passes, final>>
search == <<index, low, stack, frames, sccs>>
linking == <<now, passes, final>>

-----------------------------------------------------------------------------
(* Drafts: a dynamic import, and one with no target, are final at once. *)
Draft(i) ==
  IF i.kind = "dynamic" THEN "linked" ELSE IF i.target = Nowhere THEN "unresolved" ELSE "none"

(* The import graph has the imports that lead to a file of the input. *)
Imported(f) == {imports[f][i].target : i \in DOMAIN imports[f]} \cap Files

(* tryFinalize.  A namespace or a wildcard links the module; another import
   needs its name, now or in no pass at all. *)
TryFinalize(i) ==
  IF i.target = Outside \/ i.kind \in {"wildcard", "namespace"} \/ i.exported THEN "linked"
  ELSE "none"

Init ==
  /\ imports \in Inputs
  /\ pc = "tarjan"
  /\ index = [f \in Files |-> 0]
  /\ low = [f \in Files |-> 0]
  /\ stack = <<>>
  /\ frames = <<>>
  /\ sccs = <<>>
  /\ now = 1
  /\ passes = [count |-> 0, progressed |-> TRUE]
  /\ final = [f \in Files |-> [i \in DOMAIN imports[f] |-> Draft(imports[f][i])]]

-----------------------------------------------------------------------------
(***************************************************************************)
(* tarjanSccs.                                                             *)
(***************************************************************************)

Entered == Cardinality({f \in Files : index[f] # 0})
OnStack(f) == f \in ToSet(stack)
Top == Last(frames)

Enter(f, path) ==
  /\ index' = [index EXCEPT ![f] = Entered + 1]
  /\ low' = [low EXCEPT ![f] = Entered + 1]
  /\ stack' = Append(stack, f)
  /\ frames' = Append(path, [node |-> f, children |-> Imported(f)])
  /\ UNCHANGED sccs

Root ==
  /\ pc = "tarjan"
  /\ frames = <<>>
  /\ \E f \in Files :
       /\ index[f] = 0
       /\ \A g \in Files : g < f => index[g] # 0
       /\ Enter(f, frames)
  /\ UNCHANGED <<imports, pc, linking>>

(* The next child of the file on top. *)
Rest(c) == [frames EXCEPT ![Len(frames)].children = @ \ {c}]
NewChild(c) ==
  /\ index[c] = 0
  /\ Enter(c, Rest(c))
OldChild(c) ==
  /\ index[c] # 0
  /\ low' = IF OnStack(c) THEN [low EXCEPT ![Top.node] = Min({@, index[c]})] ELSE low
  /\ frames' = Rest(c)
  /\ UNCHANGED <<index, stack, sccs>>

Child ==
  /\ pc = "tarjan"
  /\ frames # <<>>
  /\ \E c \in Top.children : NewChild(c) \/ OldChild(c)
  /\ UNCHANGED <<imports, pc, linking>>

(* All children are done: the stack from this file on is a component if no
   lower file is reached; the parent learns the lowlink. *)
From(f) == CHOOSE i \in DOMAIN stack : stack[i] = f
Component(f) == ToSet(SubSeq(stack, From(f), Len(stack)))
IsCycle(f) == Cardinality(Component(f)) > 1 \/ f \in Imported(f)
\* Changed: components are put in front.
EmitFirst(scc) == sccs' = <<scc>> \o sccs
Emit(scc) == sccs' = Append(sccs, scc)

Parent == frames[Len(frames) - 1].node
\* Changed: the parent does not learn the lowlink.
PropagateNothing(f) == low' = low
Propagate(f) ==
  low' = IF Len(frames) > 1 THEN [low EXCEPT ![Parent] = Min({@, low[f]})] ELSE low

Leave ==
  /\ pc = "tarjan"
  /\ frames # <<>>
  /\ Top.children = {}
  /\ LET f == Top.node
     IN  /\ IF low[f] = index[f]
            THEN /\ Emit([files |-> Component(f), isCycle |-> IsCycle(f)])
                 /\ stack' = SubSeq(stack, 1, From(f) - 1)
            ELSE UNCHANGED <<sccs, stack>>
         /\ Propagate(f)
  /\ frames' = Front(frames)
  /\ UNCHANGED <<imports, pc, index, linking>>

SearchDone ==
  /\ pc = "tarjan"
  /\ frames = <<>>
  /\ \A f \in Files : index[f] # 0
  /\ pc' = "link"
  /\ UNCHANGED <<imports, search, linking>>

-----------------------------------------------------------------------------
(***************************************************************************)
(* The passes over one component, then over the next.                      *)
(***************************************************************************)

(* countEdgesWithin: one pass at least. *)
Within(S) ==
  UNION {{f} \X {i \in DOMAIN imports[f] : imports[f][i].target \in S} : f \in S}
\* Changed: a component without imports inside gets no pass.
CapacityOfEdges(S) == Cardinality(Within(S))
Capacity(S) == Max({Cardinality(Within(S)), 1})

Scc == sccs[now].files
Open(f, i) == f \in Scc /\ final[f][i] = "none"
MorePasses == passes.progressed /\ passes.count < Capacity(Scc)

Linked ==
  [f \in Files |-> [i \in DOMAIN imports[f] |->
     IF Open(f, i) THEN TryFinalize(imports[f][i]) ELSE final[f][i]]]

Pass ==
  /\ pc = "link"
  /\ now <= Len(sccs)
  /\ MorePasses
  /\ final' = Linked
  /\ passes' = [count |-> passes.count + 1, progressed |-> Linked # final]
  /\ UNCHANGED <<imports, pc, search, now>>

GiveUp ==
  /\ pc = "link"
  /\ now <= Len(sccs)
  /\ ~MorePasses
  /\ final' = [f \in Files |-> [i \in DOMAIN imports[f] |->
                 IF Open(f, i) THEN "unresolved" ELSE final[f][i]]]
  /\ now' = now + 1
  /\ passes' = [count |-> 0, progressed |-> TRUE]
  /\ UNCHANGED <<imports, pc, search>>

LinkDone ==
  /\ pc = "link"
  /\ now > Len(sccs)
  /\ pc' = "done"
  /\ UNCHANGED <<imports, search, linking>>

(* finalize has returned. *)
Returned == pc = "done" /\ UNCHANGED vars

Next ==
  \/ Root \/ Child \/ Leave \/ SearchDone
  \/ Pass \/ GiveUp \/ LinkDone
  \/ Returned

Spec == Init /\ [][Next]_vars
-----------------------------------------------------------------------------
(***************************************************************************)
(* Properties.                                                             *)
(***************************************************************************)

TypeOK ==
  /\ imports \in [Files -> Seq(Import)]
  /\ pc \in {"tarjan", "link", "done"}
  /\ index \in [Files -> 0..N]
  /\ low \in [Files -> 0..N]
  /\ \A f \in Files : low[f] <= index[f] /\ (index[f] # 0 => low[f] # 0)
  /\ stack \in Seq(Files)
  /\ frames \in Seq([node : Files, children : SUBSET Files])
  /\ sccs \in Seq([files : SUBSET Files, isCycle : BOOLEAN])
  /\ now \in 1..(N + 1)
  /\ passes.count \in Nat /\ passes.progressed \in BOOLEAN
  /\ \A f \in Files :
       final[f] \in [DOMAIN imports[f] -> {"none", "linked", "unresolved"}]

(* The reference: a file and what it imports, directly or not, are the least
   set that has the file and what its members import. *)
Closed(S) == \A f \in S : Imported(f) \subseteq S
Reached(f) == {g \in Files : \A S \in SUBSET Files : f \in S /\ Closed(S) => g \in S}
Mutual(f) == {g \in Reached(f) : f \in Reached(g)}

(* The components of the search are the classes of files that import each
   other, each found once, and the cycles are told from the single files. *)
SccsExact ==
  pc = "link" /\ now = 1 /\ passes.count = 0 =>
    /\ {sccs[i].files : i \in DOMAIN sccs} = {Mutual(f) : f \in Files}
    /\ \A i, j \in DOMAIN sccs : sccs[i].files = sccs[j].files => i = j
    /\ \A i \in DOMAIN sccs :
         sccs[i].isCycle <=>
           \E f, g \in sccs[i].files : g \in Imported(f)

(* "Edges leaving the SCC are already resolved (their target SCC is already
   finalized)": at every point of the search, what a component imports is in
   it or in one found before. *)
LeavesFirst ==
  \A i \in DOMAIN sccs : \A f \in sccs[i].files :
    Imported(f) \subseteq UNION {sccs[j].files : j \in 1..i}

(* The cap on the passes leaves no import unresolved that could be linked, in
   whatever order the components come, and every import has an answer. *)
LinkExact ==
  pc = "done" =>
    \A f \in Files : \A i \in DOMAIN imports[f] :
      LET x == imports[f][i]
      IN  final[f][i] =
            IF \/ x.kind = "dynamic"
               \/ x.target = Outside
               \/ x.target \in Files /\ (x.kind = "named" => x.exported)
            THEN "linked" ELSE "unresolved"

=============================================================================
