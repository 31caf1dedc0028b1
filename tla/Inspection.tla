----------------------------- MODULE Inspection -----------------------------
(***************************************************************************)
(* What the read-only commands say about a history: diff (structural.ts    *)
(* and diffCommand) and blame, in the command line and in the MCP tool.    *)
(*                                                                         *)
(* The commands are functions of the commit graph; they are checked over   *)
(* every graph that History builds.                                        *)
(***************************************************************************)
EXTENDS History

CONSTANTS
  Symbols,  \* ids of the rows of Function, Method, Class and Interface
  Edges,    \* ids of edges; any other id is a row of some other table
  Limit     \* how many lines blame answers at most (20 unless it is given)

ASSUME InspectionConstants ==
  /\ Symbols \subseteq Ids /\ Edges \subseteq Ids /\ Symbols \cap Edges = {}
  /\ Limit \in Nat \ {0}

-----------------------------------------------------------------------------
(* diff *)

\* diffTable on the rows of one table.
DiffTable(from, to, table) ==
  [added    |-> {i \in table : from[i] = Null /\ to[i] # Null},
   removed  |-> {i \in table : from[i] # Null /\ to[i] = Null},
   modified |-> {i \in table : from[i] # Null /\ to[i] # Null /\ from[i] # to[i]}]

\* diffSnapshots: modified rows are listed for symbols only.
DiffSnapshots(from, to) ==
  LET nodes == DiffTable(from, to, Ids \ Edges)
      edges == DiffTable(from, to, Edges)
  IN [addedNodes |-> nodes.added, removedNodes |-> nodes.removed,
      addedEdges |-> edges.added, removedEdges |-> edges.removed,
      modifiedSymbols |-> nodes.modified \cap Symbols]

\* diffCommand prints "(no graph changes)".
NoGraphChanges(diff) ==
  /\ diff.addedNodes = {} /\ diff.removedNodes = {}
  /\ diff.addedEdges = {} /\ diff.removedEdges = {}
  /\ diff.modifiedSymbols = {}

-----------------------------------------------------------------------------
(* blame *)

RowAt(c, id) == dag[c].manifest[id]

\* A content other than the last one seen is a line of the answer; the last line
\* that the limit allows ends it.
Surface(state, c, row) ==
  LET changed == state.changed \cup {c} IN
  [state EXCEPT !.changed = changed, !.last = row,
                !.done = Cardinality(changed) >= Limit]

\* Mutant of BlameStep: the commit without the symbol is said to introduce it.
BlameStepLate(w, id, state, k) ==
  LET row == RowAt(w[k], id) IN
  IF state.done \/ row = state.last THEN state
  ELSE IF row = Null THEN [state EXCEPT !.done = TRUE, !.introduced = w[k]]
  ELSE Surface(state, w[k], row)

\* blameCommand on the walk w, entry after entry, newest first.  It holds the
\* content last seen and stops at the limit, or at the first commit without the
\* symbol that follows one with it.
BlameStep(w, id, state, k) ==
  LET row == RowAt(w[k], id) IN
  IF state.done \/ row = state.last THEN state
  ELSE IF row = Null THEN [state EXCEPT !.done = TRUE, !.introduced = w[k - 1]]
  ELSE Surface(state, w[k], row)

Blame(head, id) ==
  LET w == Walk(dag, head)
      state[k \in 0..Len(w)] ==
        IF k = 0 THEN [last |-> Null, changed |-> {}, introduced |-> 0,
                       done |-> FALSE]
        ELSE BlameStep(w, id, state[k - 1], k)
  IN state[Len(w)]

\* compressBlameTransitions and its slice: what the MCP tool answers.
BlameTransitions(head, id) ==
  LET w == Walk(dag, head)
      ends == {j \in DOMAIN w : j = 1 \/ RowAt(w[j], id) # RowAt(w[j - 1], id)}
  IN {w[k] : k \in {j \in ends : Cardinality({i \in ends : i < j}) < Limit}}

-----------------------------------------------------------------------------
(* Properties *)

\* No commit has two parents.
Linear == \A c \in CommitIds : Len(dag[c].parents) < 2

ParentRow(c, id) == IF dag[c].parents = <<>> THEN Null
                    ELSE RowAt(dag[c].parents[1], id)

Changed(c, id) == RowAt(c, id) # ParentRow(c, id)

\* Diff and merge agree: a clean merge moves ours by the very diff that takes the
\* common ancestor to theirs, less what ours has already.  A reviewer who reads
\* diff(base, theirs) sees what merge is going to do.
MergeAppliesDiff ==
  \A a, b \in CommitIds :
    MergeKind(dag, ManifestsOf, a, b) = "merged" =>
      LET base   == dag[FindLCA(dag, a, b)].manifest
          theirs == DiffTable(base, dag[b].manifest, Ids)
          merge  == DiffTable(dag[a].manifest, Merged(dag, ManifestsOf, a, b), Ids)
      IN /\ merge.added \subseteq theirs.added
         /\ merge.removed \subseteq theirs.removed
         /\ merge.modified \subseteq theirs.modified
         /\ \A i \in theirs.removed : Merged(dag, ManifestsOf, a, b)[i] = Null

\* The newest commits of the runs of equal content along the history of head.
RunEnds(head, id) ==
  {v \in Ancestors(dag, head) :
     v # head => \E d \in Ancestors(dag, head) :
                   v \in ParentsOf(dag, d) /\ RowAt(d, id) # RowAt(v, id)}

\* What blame answers along a linear history.  The MCP tool names the newest commit
\* of every version of a symbol, of the latest ones where the limit cuts; the
\* command names none but such commits either, and no more than the limit.  The
\* commit that the command says introduced a symbol did: it has the symbol and its
\* parent does not.  (A commit is numbered after its parents.)
BlameExact ==
  Linear =>
    \A head \in CommitIds, id \in Symbols :
      LET ends  == RunEnds(head, id)
          blame == Blame(head, id)
          c     == blame.introduced
      IN  /\ BlameTransitions(head, id) =
               {v \in ends : Cardinality({u \in ends : u > v}) < Limit}
          /\ blame.changed \subseteq ends /\ Cardinality(blame.changed) <= Limit
          /\ c # 0 => RowAt(c, id) # Null /\ ParentRow(c, id) = Null

\* "Properties still factor into the row's content hash, so a property change
\* shows up as modified" (snapshot/row-source.ts): diff says there are no graph
\* changes only when there are none.  Does not hold for edges, nor for rows of
\* tables without symbols.
DiffSeesEveryChange ==
  \A a, b \in CommitIds :
    NoGraphChanges(DiffSnapshots(dag[a].manifest, dag[b].manifest))
      => dag[a].manifest = dag[b].manifest

LastChange(head, id) ==
  LET changes == {c \in Ancestors(dag, head) : Changed(c, id)}
  IN CHOOSE c \in changes : \A d \in changes : d <= c

\* "The first "changed" hit is the symbol's most-recent change commit"
\* (cli/graphstore.ts); on a linear history, that the newest commit that blame
\* names is the one that last changed the symbol.  Does not hold: a commit with
\* the content of its parent is named when no later one changes it.
BlameNamesLastChange ==
  Linear =>
    \A head \in CommitIds, id \in Symbols :
      LET hits == Blame(head, id).changed IN
      RowAt(head, id) # Null =>
        LastChange(head, id) \in hits /\ \A c \in hits : c <= LastChange(head, id)

=============================================================================
