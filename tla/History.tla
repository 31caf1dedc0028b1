------------------------------ MODULE History ------------------------------
(***************************************************************************)
(* What the versioned graph promises its user: every command is one step   *)
(* on a commit graph, a set of branches and the branch that is checked     *)
(* out.  GraphStore is the same system with its files, its processes and   *)
(* its collector; GraphStoreRefinement maps it to this module.             *)
(*                                                                         *)
(* The module is also where the commit-graph algorithms of CommitHistory   *)
(* are checked: over every graph that analyze, branch and merge can build. *)
(***************************************************************************)
EXTENDS CommitHistory

CONSTANTS
  Branches,   \* branch names
  Main,       \* DEFAULT_BRANCH
  MaxCommits  \* bound on the commits

ASSUME HistoryConstants == Main \in Branches /\ MaxCommits \in Nat

VARIABLES
  dag,      \* dag[c]: the manifest and the parents of commit c
  heads,    \* the commit each branch points at, 0 if there is no such branch
  current   \* the branch HEAD names, Null when HEAD is unborn

vars == <<dag, heads, current>>

CommitIds == 1..Len(dag)

ManifestsOf == [c \in CommitIds |-> dag[c].manifest]

BranchHeads == {heads[b] : b \in Branches} \ {0}

Init ==
  /\ dag = <<>>
  /\ heads = [b \in Branches |-> 0]
  /\ current = Null

\* A new commit on branch b.
AddCommit(b, manifest, parents) ==
  /\ Len(dag) < MaxCommits
  /\ dag' = Append(dag, [manifest |-> manifest, parents |-> parents])
  /\ heads' = [heads EXCEPT ![b] = Len(dag) + 1]

-----------------------------------------------------------------------------
(* Commands *)

\* analyze (or commit): the branch that is checked out, main when HEAD is
\* unborn, gets a commit on top of its head.
Analyze(g) ==
  LET b == IF current = Null THEN Main ELSE current
      parents == IF current = Null \/ heads[b] = 0 THEN <<>> ELSE <<heads[b]>>
  IN /\ AddCommit(b, g, parents)
     /\ current' = b

\* branch create: refused when the branch exists.
CreateBranch(b, c) ==
  /\ heads[b] = 0
  /\ heads' = [heads EXCEPT ![b] = c]
  /\ UNCHANGED <<dag, current>>

\* branch delete: refused for the branch that is checked out.
DeleteBranch(b) ==
  /\ b # current
  /\ heads' = [heads EXCEPT ![b] = 0]
  /\ UNCHANGED <<dag, current>>

\* checkout of a branch.
CheckoutBranch(b) ==
  /\ heads[b] # 0
  /\ current' = b
  /\ UNCHANGED <<dag, heads>>

\* merge of a commit theirs into branch b, the one that is checked out or one
\* that the MCP tool is given; when it is up to date or conflicts, nothing changes.
FastForward(b, theirs) ==
  /\ heads[b] # 0
  /\ MergeKind(dag, ManifestsOf, heads[b], theirs) = "fast-forward"
  /\ heads' = [heads EXCEPT ![b] = theirs]
  /\ UNCHANGED <<dag, current>>

Merge(b, theirs) ==
  /\ heads[b] # 0
  /\ MergeKind(dag, ManifestsOf, heads[b], theirs) = "merged"
  /\ AddCommit(b, Merged(dag, ManifestsOf, heads[b], theirs), <<heads[b], theirs>>)
  /\ UNCHANGED current

Next ==
  \/ \E g \in Manifests : Analyze(g)
  \/ \E b \in Branches :
       \/ \E c \in BranchHeads :
            CreateBranch(b, c) \/ FastForward(b, c) \/ Merge(b, c)
       \/ DeleteBranch(b)
       \/ CheckoutBranch(b)

Spec == Init /\ [][Next]_vars

-----------------------------------------------------------------------------
(* Properties *)

\* Commits have manifests and older parents, branches point at commits.
TypeOK ==
  /\ dag \in Seq([manifest : Manifests, parents : Seq(CommitIds)])
  /\ heads \in [Branches -> CommitIds \cup {0}]
  /\ current \in Branches \cup {Null}

\* The ancestors of every commit.
AncestorsOf == [c \in CommitIds |-> Ancestors(dag, c)]

\* walkCommits yields every ancestor of a commit exactly once, also where
\* merges make the graph converge again.
WalkExact ==
  LET ancestors == AncestorsOf IN
  \A c \in CommitIds :
    LET w == Walk(dag, c) IN
    /\ {w[k] : k \in DOMAIN w} = ancestors[c]
    /\ Len(w) = Cardinality(ancestors[c])

\* findLowestCommonAncestor answers null exactly when there is no common
\* ancestor and a common ancestor otherwise; it answers its second argument
\* exactly when that is an ancestor of the first, which is how merge knows that
\* a branch already holds everything of the other.
LCASound ==
  LET ancestors == AncestorsOf IN
  \A a, b \in CommitIds :
    LET lca == FindLCA(dag, a, b)
        common == ancestors[a] \cap ancestors[b]
    IN /\ lca = 0 <=> common = {}
       /\ lca # 0 => lca \in common
       /\ lca = b <=> b \in ancestors[a]

\* While no commit has two parents, the common ancestor is the lowest: every
\* common ancestor is an ancestor of it.
LCALowestWithoutMerges ==
  LET ancestors == AncestorsOf IN
  (\A c \in CommitIds : Len(dag[c].parents) < 2) =>
    \A a, b \in CommitIds :
      LET lca == FindLCA(dag, a, b) IN
      lca # 0 => ancestors[a] \cap ancestors[b] = ancestors[lca]

\* merge loses no change: every row that one side changed since the common
\* ancestor ends up as that side left it, deletions included, and a merge that
\* cannot do that for both sides reports a conflict.
MergeKeepsBothSides ==
  \A a, b \in CommitIds :
    LET base == FindLCA(dag, a, b)
        kept == {r \in Manifests :
                   \A i \in Ids, side \in {a, b} :
                     dag[side].manifest[i] # dag[base].manifest[i]
                       => r[i] = dag[side].manifest[i]}
        kind == MergeKind(dag, ManifestsOf, a, b)
    IN /\ kind = "merged" => Merged(dag, ManifestsOf, a, b) \in kept
       /\ kind = "conflicts" /\ base # 0 => kept = {}

\* Once theirs is merged there is nothing left to merge; and unless theirs
\* already held our head, its branch can be fast-forwarded to the merge commit.
\* (Where it did, the walk from the merge commit meets our head before theirs.)
MergeSettles ==
  [][\A b \in Branches, theirs \in BranchHeads :
       Merge(b, theirs) =>
         LET new == heads'[b] IN
         /\ MergeKind(dag', ManifestsOf', new, theirs) = "already-up-to-date"
         /\ heads[b] \notin Ancestors(dag, theirs)
              => MergeKind(dag', ManifestsOf', theirs, new) = "fast-forward"]_vars

=============================================================================
