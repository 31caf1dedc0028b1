--------------------------- MODULE HistoryProofs ---------------------------
(***************************************************************************)
(* Proofs about History and Inspection: in every commit graph that the     *)
(* commands build, whatever the rows, the branches and the number of       *)
(* commits, the walk, the common ancestor, the merge and its diff are what *)
(* they should be.                                                         *)
(***************************************************************************)
EXTENDS Inspection, CommitHistoryProofs

-----------------------------------------------------------------------------
(* The commit graph *)

\* Commits are numbered after their parents, and have at most two.
HistoryInvariant == TypeOK /\ IsDag(dag)

CommitRecordsOf(d) == [manifest : Manifests, parents : Seq(1..Len(d))]

LEMMA AppendedDag ==
  ASSUME NEW d, IsDag(d), d \in Seq(CommitRecordsOf(d)),
         NEW r \in CommitRecordsOf(d), Len(r.parents) <= 2
  PROVE  LET e == Append(d, r) IN
         /\ IsDag(e) /\ e \in Seq(CommitRecordsOf(e)) /\ Len(e) = Len(d) + 1
         /\ \A c \in 1..Len(d) : e[c] = d[c]
         /\ e[Len(d) + 1] = r
  <1> DEFINE n == Len(d)
             e == Append(d, r)
             ps == r.parents
             R == CommitRecordsOf(e)
  <1>1. n \in Nat /\ DOMAIN d = 1..n
    BY DEF IsDag
  <1>2. ps \in Seq(1..n) /\ Len(ps) <= 2
    BY DEF CommitRecordsOf
  <1>4. /\ e \in Seq(CommitRecordsOf(d)) /\ Len(e) = n + 1 /\ DOMAIN e = 1..(n + 1)
        /\ \A c \in 1..n : e[c] = d[c]
        /\ e[n + 1] = r
    <2>1. /\ Append(d, r) \in Seq(CommitRecordsOf(d))
          /\ DOMAIN Append(d, r) = 1..(n + 1)
          /\ \A c \in 1..n : Append(d, r)[c] = d[c]
          /\ Append(d, r)[n + 1] = r
      BY AppendFacts
    <2>2. Len(Append(d, r)) = n + 1
      OBVIOUS
    <2> QED
      BY <2>1, <2>2
  <1> HIDE DEF e
  <1>5. CommitRecordsOf(d) \subseteq R
    <2>1. PICK A : A = 1..Len(d)
      OBVIOUS
    <2>2. PICK B : B = 1..Len(e)
      OBVIOUS
    <2>3. A \subseteq B
      BY <1>1, <1>4, <2>1, <2>2
    <2>4. [manifest : Manifests, parents : Seq(A)]
            \subseteq [manifest : Manifests, parents : Seq(B)]
      BY <2>3
    <2> QED
      BY <2>1, <2>2, <2>4 DEF CommitRecordsOf
  <1>6. e \in Seq(R)
    <2> HIDE DEF R
    <2> QED
      BY <1>4, <1>5
  <1>7. ASSUME NEW c \in 1..(n + 1)
        PROVE  e[c].parents \in Seq(1..(c - 1)) /\ Len(e[c].parents) <= 2
    <2>1. CASE c \in 1..n
      <3>1. d[c].parents \in Seq(1..(c - 1)) /\ Len(d[c].parents) <= 2
        BY <2>1 DEF IsDag
      <3> QED
        BY <1>4, <2>1, <3>1
    <2>2. CASE c = n + 1
      <3>1. c - 1 = Len(d)
        BY <1>1, <2>2
      <3> QED
        BY <1>2, <1>4, <2>2, <3>1
    <2>3. c \in 1..n \/ c = n + 1
      BY <1>1
    <2> QED
      BY <2>1, <2>2, <2>3
  <1>8. IsDag(e)
    <2>1. Len(e) \in Nat /\ DOMAIN e = 1..Len(e)
      BY <1>1, <1>4
    <2> QED
      BY <1>4, <1>7, <2>1 DEF IsDag
  <1> QED
    BY <1>4, <1>6, <1>8 DEF e

LEMMA HistoryInit == Init => HistoryInvariant
  <1> SUFFICES ASSUME Init PROVE HistoryInvariant
    OBVIOUS
  <1>1. Len(dag) = 0 /\ DOMAIN dag = 1..0
    BY DEF Init
  <1>2. IsDag(dag)
    BY <1>1 DEF IsDag
  <1>3. dag \in Seq([manifest : Manifests, parents : Seq(CommitIds)])
    BY DEF Init
  <1> QED
    BY <1>2, <1>3 DEF Init, TypeOK, HistoryInvariant

LEMMA BranchHeadsAreCommits ==
  ASSUME HistoryInvariant
  PROVE  /\ BranchHeads \subseteq CommitIds
         /\ \A b \in Branches : heads[b] # 0 => heads[b] \in CommitIds
         /\ Len(dag) \in Nat
  BY DEF HistoryInvariant, TypeOK, BranchHeads, IsDag

LEMMA AddCommitKeeps ==
  ASSUME HistoryInvariant, NEW b \in Branches, NEW m \in Manifests,
         NEW ps \in Seq(CommitIds), Len(ps) <= 2, AddCommit(b, m, ps),
         current' \in Branches \cup {Null}
  PROVE  /\ HistoryInvariant'
         /\ Len(dag') = Len(dag) + 1 /\ dag'[Len(dag')].parents = ps
         /\ \A c \in CommitIds : dag'[c] = dag[c]
  <1>1. /\ IsDag(dag) /\ dag \in Seq(CommitRecordsOf(dag)) /\ Len(dag) \in Nat
        /\ heads \in [Branches -> CommitIds \cup {0}]
    BY DEF HistoryInvariant, TypeOK, CommitIds, CommitRecordsOf, IsDag
  <1>2. dag' = Append(dag, [manifest |-> m, parents |-> ps])
    BY DEF AddCommit
  <1>3. /\ IsDag(dag') /\ dag' \in Seq(CommitRecordsOf(dag')) /\ Len(dag') = Len(dag) + 1
        /\ \A c \in 1..Len(dag) : dag'[c] = dag[c]
        /\ dag'[Len(dag')].parents = ps
    <2>1. PICK r : r = [manifest |-> m, parents |-> ps]
      OBVIOUS
    <2>2. r.parents = ps
      BY <2>1
    <2>3. r \in CommitRecordsOf(dag)
      BY <2>1 DEF CommitRecordsOf, CommitIds
    <2>4. dag' = Append(dag, r)
      BY <1>2, <2>1
    <2>5. /\ IsDag(dag') /\ dag' \in Seq(CommitRecordsOf(dag')) /\ Len(dag') = Len(dag) + 1
          /\ \A c \in 1..Len(dag) : dag'[c] = dag[c]
          /\ dag'[Len(dag) + 1] = r
      BY <1>1, <2>2, <2>3, <2>4, AppendedDag
    <2> QED
      BY <2>2, <2>5
  <1>4. CommitIds \subseteq CommitIds' /\ Len(dag) + 1 \in CommitIds'
    BY <1>1, <1>3 DEF CommitIds
  <1>5. heads' \in [Branches -> CommitIds' \cup {0}]
    BY <1>1, <1>4 DEF AddCommit
  <1>6. dag' \in Seq([manifest : Manifests, parents : Seq(CommitIds')])
    BY <1>3 DEF CommitRecordsOf, CommitIds
  <1>7. TypeOK'
    BY <1>5, <1>6 DEF TypeOK
  <1>8. HistoryInvariant'
    BY <1>3, <1>7 DEF HistoryInvariant
  <1> QED
    BY <1>3, <1>8 DEF CommitIds

\* A step that leaves the commits alone.
LEMMA HeadsStepKeeps ==
  ASSUME HistoryInvariant, UNCHANGED dag,
         heads' \in [Branches -> CommitIds \cup {0}],
         current' \in Branches \cup {Null}
  PROVE  HistoryInvariant'
  <1>1. CommitIds' = CommitIds
    BY DEF CommitIds
  <1> QED
    BY <1>1 DEF HistoryInvariant, TypeOK

LEMMA MergeTypes ==
  ASSUME HistoryInvariant, NEW b \in Branches, NEW theirs \in BranchHeads,
         Merge(b, theirs)
  PROVE  /\ heads[b] \in CommitIds /\ theirs \in CommitIds /\ heads[b] # theirs
         /\ Merged(dag, ManifestsOf, heads[b], theirs) \in Manifests
         /\ <<heads[b], theirs>> \in Seq(CommitIds) /\ Len(<<heads[b], theirs>>) <= 2
  <1>1. heads[b] \in CommitIds /\ theirs \in CommitIds
    BY BranchHeadsAreCommits DEF Merge
  <1>2. heads[b] # theirs
    BY DEF Merge, MergeKind
  <1>3. ManifestsOf[heads[b]] \in Manifests /\ ManifestsOf[theirs] \in Manifests
    <2>1. \A c \in CommitIds : dag[c].manifest \in Manifests
      <3>1. \A c \in 1..Len(dag) : dag[c] \in [manifest : Manifests, parents : Seq(CommitIds)]
        <4>1. PICK R : R = [manifest : Manifests, parents : Seq(CommitIds)]
          OBVIOUS
        <4>2. dag \in Seq(R)
          BY <4>1 DEF HistoryInvariant, TypeOK
        <4>3. \A c \in 1..Len(dag) : dag[c] \in R
          BY <4>2
        <4> QED
          BY <4>1, <4>3
      <3>2. \A r \in [manifest : Manifests, parents : Seq(CommitIds)] :
              r.manifest \in Manifests
        OBVIOUS
      <3>3. CommitIds = 1..Len(dag)
        BY DEF CommitIds
      <3> QED
        BY <3>1, <3>2, <3>3
    <2> QED
      BY <1>1, <2>1 DEF ManifestsOf
  <1>4. Merged(dag, ManifestsOf, heads[b], theirs) \in Manifests
    BY <1>3, MergeType DEF Merged
  <1> QED
    BY <1>1, <1>2, <1>4

LEMMA MergeKeeps ==
  ASSUME HistoryInvariant, NEW b \in Branches, NEW theirs \in BranchHeads,
         Merge(b, theirs)
  PROVE  /\ HistoryInvariant' /\ heads'[b] = Len(dag')
         /\ Len(dag') = Len(dag) + 1
         /\ dag'[Len(dag')].parents = <<heads[b], theirs>>
         /\ \A c \in CommitIds : dag'[c] = dag[c]
  <1>1. /\ Merged(dag, ManifestsOf, heads[b], theirs) \in Manifests
        /\ <<heads[b], theirs>> \in Seq(CommitIds) /\ Len(<<heads[b], theirs>>) <= 2
    BY MergeTypes
  <1>2. AddCommit(b, Merged(dag, ManifestsOf, heads[b], theirs), <<heads[b], theirs>>)
    BY DEF Merge
  <1>3. current' \in Branches \cup {Null}
    BY DEF Merge, HistoryInvariant, TypeOK
  <1>4. heads'[b] = Len(dag) + 1
    BY DEF Merge, AddCommit, HistoryInvariant, TypeOK
  <1>5. PICK m \in Manifests : m = Merged(dag, ManifestsOf, heads[b], theirs)
    BY <1>1
  <1>6. PICK ps \in Seq(CommitIds) : ps = <<heads[b], theirs>>
    BY <1>1
  <1>7. /\ HistoryInvariant' /\ Len(dag') = Len(dag) + 1 /\ dag'[Len(dag')].parents = ps
        /\ \A c \in CommitIds : dag'[c] = dag[c]
    BY <1>1, <1>2, <1>3, <1>5, <1>6, AddCommitKeeps
  <1> QED
    BY <1>4, <1>6, <1>7

LEMMA HistoryNext ==
  ASSUME HistoryInvariant, [Next]_vars
  PROVE  HistoryInvariant'
  <1>1. /\ heads \in [Branches -> CommitIds \cup {0}]
        /\ current \in Branches \cup {Null}
    BY DEF HistoryInvariant, TypeOK
  <1>2. BranchHeads \subseteq CommitIds
    BY BranchHeadsAreCommits
  <1>3. ASSUME NEW g \in Manifests, Analyze(g)
        PROVE  HistoryInvariant'
    <2> DEFINE b == IF current = Null THEN Main ELSE current
               ps == IF current = Null \/ heads[b] = 0 THEN <<>> ELSE <<heads[b]>>
    <2>1. b \in Branches
      BY <1>1, HistoryConstants
    <2>2. ps \in Seq(CommitIds) /\ Len(ps) <= 2
      <3>1. CASE current = Null \/ heads[b] = 0
        BY <3>1
      <3>2. CASE ~(current = Null \/ heads[b] = 0)
        <4>1. heads[b] \in CommitIds
          BY <2>1, <3>2, BranchHeadsAreCommits
        <4> QED
          BY <3>2, <4>1
      <3> QED
        BY <3>1, <3>2
    <2>3. AddCommit(b, g, ps) /\ current' = b
      BY <1>3 DEF Analyze
    <2> HIDE DEF b, ps
    <2> QED
      BY <2>1, <2>2, <2>3, AddCommitKeeps
  <1>4. ASSUME NEW b \in Branches, NEW c \in BranchHeads,
               CreateBranch(b, c) \/ FastForward(b, c)
        PROVE  HistoryInvariant'
    <2>1. heads' \in [Branches -> CommitIds \cup {0}]
      BY <1>1, <1>2, <1>4 DEF CreateBranch, FastForward
    <2> QED
      BY <1>1, <1>4, <2>1, HeadsStepKeeps DEF CreateBranch, FastForward
  <1>5. ASSUME NEW b \in Branches, NEW c \in BranchHeads, Merge(b, c)
        PROVE  HistoryInvariant'
    BY <1>5, MergeKeeps
  <1>6. ASSUME NEW b \in Branches, DeleteBranch(b) \/ CheckoutBranch(b)
        PROVE  HistoryInvariant'
    <2>1. heads' \in [Branches -> CommitIds \cup {0}]
      BY <1>1, <1>6 DEF DeleteBranch, CheckoutBranch
    <2> QED
      BY <1>1, <1>6, <2>1, HeadsStepKeeps DEF DeleteBranch, CheckoutBranch
  <1>7. CASE UNCHANGED vars
    BY <1>1, <1>7, HeadsStepKeeps DEF vars
  <1> QED
    BY <1>3, <1>4, <1>5, <1>6, <1>7 DEF Next

\* The commit graph keeps its shape: commits have manifests and at most two
\* parents, which are older, and branches point at commits (commit.ts).
THEOREM HistoryTypes == Spec => []HistoryInvariant
  BY HistoryInit, HistoryNext, PTL DEF Spec

-----------------------------------------------------------------------------
(* The walk and the common ancestor *)

\* walkCommits yields every ancestor exactly once (log.ts), however often the
\* histories split and merge.
THEOREM WalksAreExact == Spec => []WalkExact
  <1>1. HistoryInvariant => WalkExact
    <2> SUFFICES ASSUME HistoryInvariant, NEW c \in CommitIds
                 PROVE  /\ {Walk(dag, c)[k] : k \in DOMAIN Walk(dag, c)} = Ancestors(dag, c)
                        /\ Len(Walk(dag, c)) = Cardinality(Ancestors(dag, c))
      BY DEF WalkExact, AncestorsOf
    <2>1. IsDag(dag) /\ c \in 1..Len(dag)
      BY DEF HistoryInvariant, CommitIds
    <2> QED
      BY <2>1, WalkYieldsAncestors, WalkLength DEF Members
  <1> QED
    BY <1>1, HistoryTypes, PTL

\* findLowestCommonAncestor answers a common ancestor when there is one, and its
\* second argument exactly when that is an ancestor of the first (log.ts).
THEOREM LCAsAreSound == Spec => []LCASound
  <1>1. HistoryInvariant => LCASound
    <2> SUFFICES ASSUME HistoryInvariant, NEW a \in CommitIds, NEW b \in CommitIds
                 PROVE  LET lca    == FindLCA(dag, a, b)
                            common == Ancestors(dag, a) \cap Ancestors(dag, b)
                        IN /\ lca = 0 <=> common = {}
                           /\ lca # 0 => lca \in common
                           /\ lca = b <=> b \in Ancestors(dag, a)
      BY DEF LCASound, AncestorsOf
    <2>1. IsDag(dag) /\ a \in 1..Len(dag) /\ b \in 1..Len(dag)
      BY DEF HistoryInvariant, CommitIds
    <2> QED
      BY <2>1, LCAIsSound
  <1> QED
    BY <1>1, HistoryTypes, PTL

\* Where nothing was ever merged the common ancestor is the lowest (log.ts).
THEOREM LCAsAreLowest == Spec => []LCALowestWithoutMerges
  <1>1. HistoryInvariant => LCALowestWithoutMerges
    <2> SUFFICES ASSUME HistoryInvariant, \A c \in CommitIds : Len(dag[c].parents) < 2,
                        NEW a \in CommitIds, NEW b \in CommitIds,
                        FindLCA(dag, a, b) # 0
                 PROVE  Ancestors(dag, a) \cap Ancestors(dag, b) =
                          AncestorsOf[FindLCA(dag, a, b)]
      BY DEF LCALowestWithoutMerges, AncestorsOf
    <2>1. IsDag(dag) /\ a \in 1..Len(dag) /\ b \in 1..Len(dag) /\ IsLinear(dag)
      BY DEF HistoryInvariant, CommitIds, IsLinear
    <2>2. FindLCA(dag, a, b) \in CommitIds
      <3>1. FindLCA(dag, a, b) \in Ancestors(dag, a)
        BY <2>1, LCAIsSound
      <3>2. Ancestors(dag, a) \subseteq 1..Len(dag)
        BY <2>1, AncestorsContain
      <3> QED
        BY <3>1, <3>2 DEF CommitIds
    <2>3. Ancestors(dag, a) \cap Ancestors(dag, b) = Ancestors(dag, FindLCA(dag, a, b))
      BY <2>1, LCAIsLowestInLinearDag
    <2> QED
      BY <2>2, <2>3 DEF AncestorsOf
  <1> QED
    BY <1>1, HistoryTypes, PTL

-----------------------------------------------------------------------------
(* Merge *)

LEMMA ManifestTypes ==
  ASSUME HistoryInvariant
  PROVE  /\ \A c \in CommitIds : dag[c].manifest \in Manifests
         /\ \A c \in CommitIds : ManifestsOf[c] = dag[c].manifest
  <1>1. PICK R : R = [manifest : Manifests, parents : Seq(CommitIds)]
    OBVIOUS
  <1>2. dag \in Seq(R)
    BY <1>1 DEF HistoryInvariant, TypeOK
  <1>3. \A c \in 1..Len(dag) : dag[c] \in R
    BY <1>2
  <1>4. \A r \in R : r.manifest \in Manifests
    BY <1>1
  <1> QED
    BY <1>3, <1>4 DEF CommitIds, ManifestsOf

\* What threeWayMerge has found out when it merges, and when it reports conflicts
\* although there is a common ancestor.
LEMMA MergeKinds ==
  ASSUME HistoryInvariant, NEW a \in CommitIds, NEW b \in CommitIds,
         NEW base, base = FindLCA(dag, a, b), base # 0
  PROVE  /\ base \in CommitIds
         /\ MergeKind(dag, ManifestsOf, a, b) = "merged" =>
              \A i \in Ids : ~RowConflicts(dag[base].manifest[i], dag[a].manifest[i],
                                           dag[b].manifest[i])
         /\ MergeKind(dag, ManifestsOf, a, b) = "conflicts" =>
              \E i \in Ids : RowConflicts(dag[base].manifest[i], dag[a].manifest[i],
                                          dag[b].manifest[i])
         /\ \A i \in Ids :
              Merged(dag, ManifestsOf, a, b)[i] =
                MergeRow(dag[base].manifest[i], dag[a].manifest[i], dag[b].manifest[i])
  <1>1. IsDag(dag) /\ a \in 1..Len(dag) /\ b \in 1..Len(dag)
    BY DEF HistoryInvariant, CommitIds
  <1>2. base \in CommitIds
    <2>1. base \in Ancestors(dag, a)
      BY <1>1, LCAIsSound
    <2>2. Ancestors(dag, a) \subseteq 1..Len(dag)
      BY <1>1, AncestorsContain
    <2> QED
      BY <2>1, <2>2 DEF CommitIds
  <1>3. /\ ManifestsOf[a] = dag[a].manifest /\ ManifestsOf[b] = dag[b].manifest
        /\ ManifestsOf[base] = dag[base].manifest
    BY <1>2, ManifestTypes
  <1>4. MergeKind(dag, ManifestsOf, a, b) =
          IF a = b THEN "already-up-to-date"
          ELSE IF base = a THEN "fast-forward"
          ELSE IF base = b THEN "already-up-to-date"
          ELSE IF HasConflict(dag[base].manifest, dag[a].manifest, dag[b].manifest)
            THEN "conflicts"
          ELSE "merged"
    BY <1>3 DEF MergeKind
  <1>5. \A i \in Ids :
          Merged(dag, ManifestsOf, a, b)[i] =
            MergeRow(dag[base].manifest[i], dag[a].manifest[i], dag[b].manifest[i])
    BY <1>3 DEF Merged, MergeManifests
  <1> QED
    BY <1>2, <1>4, <1>5 DEF HasConflict

\* Without a common ancestor there is nothing to merge.
LEMMA MergeNeedsBase ==
  ASSUME HistoryInvariant, NEW a \in CommitIds, NEW b \in CommitIds,
         FindLCA(dag, a, b) = 0
  PROVE  MergeKind(dag, ManifestsOf, a, b) # "merged"
  <1>1. a # 0 /\ b # 0
    BY DEF CommitIds, HistoryInvariant, IsDag
  <1> QED
    BY <1>1 DEF MergeKind

\* threeWayMerge loses no change: in a clean merge every row is as the side that
\* changed it left it, and it reports a conflict only where that is impossible
\* (three-way.ts).
THEOREM MergesKeepBothSides == Spec => []MergeKeepsBothSides
  <1>1. HistoryInvariant => MergeKeepsBothSides
    <2> SUFFICES ASSUME HistoryInvariant, NEW a \in CommitIds, NEW b \in CommitIds,
                        NEW base, base = FindLCA(dag, a, b),
                        NEW kept,
                        kept = {r \in Manifests :
                                  \A i \in Ids, side \in {a, b} :
                                    dag[side].manifest[i] # dag[base].manifest[i]
                                      => r[i] = dag[side].manifest[i]}
                 PROVE  /\ MergeKind(dag, ManifestsOf, a, b) = "merged"
                             => Merged(dag, ManifestsOf, a, b) \in kept
                        /\ MergeKind(dag, ManifestsOf, a, b) = "conflicts" /\ base # 0
                             => kept = {}
      BY DEF MergeKeepsBothSides
    <2> DEFINE merged == Merged(dag, ManifestsOf, a, b)
    <2>1. ASSUME MergeKind(dag, ManifestsOf, a, b) = "merged"
          PROVE  merged \in kept
      <3>1. base # 0
        BY <2>1, MergeNeedsBase
      <3>2. merged \in Manifests
        <4>1. ManifestsOf[a] \in Manifests /\ ManifestsOf[b] \in Manifests
          BY ManifestTypes
        <4> QED
          BY <4>1, MergeType DEF Merged
      <3>3. ASSUME NEW i \in Ids, NEW side \in {a, b},
                   dag[side].manifest[i] # dag[base].manifest[i]
            PROVE  merged[i] = dag[side].manifest[i]
        <4>1. ~RowConflicts(dag[base].manifest[i], dag[a].manifest[i], dag[b].manifest[i])
          BY <2>1, <3>1, MergeKinds
        <4>2. merged[i] =
                MergeRow(dag[base].manifest[i], dag[a].manifest[i], dag[b].manifest[i])
          BY <3>1, MergeKinds
        <4> HIDE DEF merged
        <4> QED
          BY <3>3, <4>1, <4>2, MergeRowKeepsChanges
      <3> HIDE DEF merged
      <3> QED
        BY <3>2, <3>3
    <2>2. ASSUME MergeKind(dag, ManifestsOf, a, b) = "conflicts", base # 0,
                 NEW r \in kept
          PROVE  FALSE
      <3>1. PICK i \in Ids : RowConflicts(dag[base].manifest[i], dag[a].manifest[i],
                                          dag[b].manifest[i])
        BY <2>2, MergeKinds
      <3>2. /\ dag[a].manifest[i] # dag[b].manifest[i]
            /\ dag[a].manifest[i] # dag[base].manifest[i]
            /\ dag[b].manifest[i] # dag[base].manifest[i]
        BY <3>1 DEF RowConflicts
      <3>3. r[i] = dag[a].manifest[i] /\ r[i] = dag[b].manifest[i]
        BY <2>2, <3>2
      <3> QED
        BY <3>2, <3>3
    <2> QED
      BY <2>1, <2>2
  <1> QED
    BY <1>1, HistoryTypes, PTL

\* A clean merge moves ours by the diff from the common ancestor to theirs, less
\* what ours has already (three-way.ts, structural.ts).
THEOREM MergesApplyDiffs == Spec => []MergeAppliesDiff
  <1>1. HistoryInvariant => MergeAppliesDiff
    <2> SUFFICES ASSUME HistoryInvariant, NEW a \in CommitIds, NEW b \in CommitIds,
                        MergeKind(dag, ManifestsOf, a, b) = "merged",
                        NEW base, base = dag[FindLCA(dag, a, b)].manifest,
                        NEW merged, merged = Merged(dag, ManifestsOf, a, b)
                 PROVE  LET theirs == DiffTable(base, dag[b].manifest, Ids)
                            merge  == DiffTable(dag[a].manifest, merged, Ids)
                        IN /\ merge.added \subseteq theirs.added
                           /\ merge.removed \subseteq theirs.removed
                           /\ merge.modified \subseteq theirs.modified
                           /\ \A i \in theirs.removed : merged[i] = Null
      BY DEF MergeAppliesDiff
    <2>1. FindLCA(dag, a, b) # 0
      BY MergeNeedsBase
    <2>2. ASSUME NEW i \in Ids
          PROVE  /\ ~RowConflicts(base[i], dag[a].manifest[i], dag[b].manifest[i])
                 /\ merged[i] = MergeRow(base[i], dag[a].manifest[i], dag[b].manifest[i])
      BY <2>1, MergeKinds
    <2>3. ASSUME NEW i \in Ids, merged[i] # dag[a].manifest[i]
          PROVE  merged[i] = dag[b].manifest[i] /\ base[i] = dag[a].manifest[i]
      BY <2>2, <2>3 DEF MergeRow
    <2>4. ASSUME NEW i \in Ids, base[i] # Null, dag[b].manifest[i] = Null
          PROVE  merged[i] = Null
      BY <2>2, <2>4, MergeRowKeepsChanges
    <2> QED
      BY <2>3, <2>4 DEF DiffTable
  <1> QED
    BY <1>1, HistoryTypes, PTL

\* A merge that is repeated finds nothing to do, and unless theirs already held
\* our head its branch can be fast-forwarded to the merge commit (three-way.ts).
THEOREM MergesSettle == Spec => MergeSettles
  <1> DEFINE Settled ==
               \A b \in Branches, theirs \in BranchHeads :
                 Merge(b, theirs) =>
                   LET new == heads'[b] IN
                   /\ MergeKind(dag', ManifestsOf', new, theirs) = "already-up-to-date"
                   /\ heads[b] \notin Ancestors(dag, theirs)
                        => MergeKind(dag', ManifestsOf', theirs, new) = "fast-forward"
  <1>1. HistoryInvariant => Settled
    <2> SUFFICES ASSUME HistoryInvariant, NEW b \in Branches,
                        NEW theirs \in BranchHeads, Merge(b, theirs),
                        NEW new, new = heads'[b], NEW e, e = dag'
                 PROVE  /\ MergeKind(e, ManifestsOf', new, theirs) = "already-up-to-date"
                        /\ heads[b] \notin Ancestors(dag, theirs)
                             => MergeKind(e, ManifestsOf', theirs, new) = "fast-forward"
      OBVIOUS
    <2>1. /\ IsDag(dag) /\ IsDag(e) /\ new = Len(e) /\ Len(e) = Len(dag) + 1
          /\ e[new].parents = <<heads[b], theirs>>
          /\ \A c \in CommitIds : e[c] = dag[c]
      BY MergeKeeps DEF HistoryInvariant
    <2>2. heads[b] # theirs /\ theirs \in CommitIds
      BY MergeTypes
    <2>3. Len(dag) \in Nat /\ new \in 1..Len(e)
      BY <2>1 DEF IsDag
    <2>4. /\ theirs # new
          /\ FindLCA(e, new, theirs) = theirs
          /\ heads[b] \notin Ancestors(e, theirs) => FindLCA(e, theirs, new) = theirs
      BY <2>1, <2>2, <2>3, MergeCommitSettles
    <2>5. Ancestors(e, theirs) = Ancestors(dag, theirs)
      <3>1. Len(dag) <= Len(e)
        BY <2>1, <2>3
      <3>2. \A c \in 1..Len(dag) : e[c].parents = dag[c].parents
        BY <2>1 DEF CommitIds
      <3>3. theirs \in 1..Len(dag)
        BY <2>2 DEF CommitIds
      <3> QED
        BY <2>1, <3>1, <3>2, <3>3, AncestorsOfOlder
    <2> QED
      BY <2>4, <2>5 DEF MergeKind
  <1>2. HistoryInvariant /\ [Next]_vars => [Settled]_vars
    BY <1>1
  <1>3. Spec => [][Settled]_vars
    BY <1>2, HistoryTypes, PTL DEF Spec
  <1> QED
    BY <1>3 DEF MergeSettles

-----------------------------------------------------------------------------
(* Blame *)

\* w[k - 1] is only used after a symbol was seen, so for k > 1.
BlameStates(w) ==
  [last : Values \cup {Null}, changed : SUBSET CommitIds,
   introduced : CommitIds \cup {0, w[0]}, done : BOOLEAN]

BlameStart == [last |-> Null, changed |-> {}, introduced |-> 0, done |-> FALSE]

BlameRecursion(f, w, id) ==
  f = [k \in 0..Len(w) |-> IF k = 0 THEN BlameStart ELSE BlameStep(w, id, f[k - 1], k)]

LEMMA BlameStays ==
  ASSUME NEW w, NEW id, NEW k, NEW s, s.done \/ RowAt(w[k], id) = s.last
  PROVE  BlameStep(w, id, s, k) = s
  BY DEF BlameStep

LEMMA BlameIntroduces ==
  ASSUME NEW w, NEW id, NEW k, NEW s \in BlameStates(w),
         ~s.done, RowAt(w[k], id) # s.last, RowAt(w[k], id) = Null
  PROVE  BlameStep(w, id, s, k) = [last |-> s.last, changed |-> s.changed,
                                   introduced |-> w[k - 1], done |-> TRUE]
  BY DEF BlameStep, BlameStates

LEMMA BlameSurfaces ==
  ASSUME NEW w, NEW id, NEW k, NEW s \in BlameStates(w),
         ~s.done, RowAt(w[k], id) # s.last, RowAt(w[k], id) # Null
  PROVE  BlameStep(w, id, s, k) =
           [last |-> RowAt(w[k], id), changed |-> s.changed \cup {w[k]},
            introduced |-> s.introduced,
            done |-> Cardinality(s.changed \cup {w[k]}) >= Limit]
  <1> DEFINE more == s.changed \cup {w[k]}
             full == Cardinality(more) >= Limit
  <1>1. BlameStep(w, id, s, k) = [s EXCEPT !.changed = more, !.last = RowAt(w[k], id),
                                           !.done = full]
    BY Zenon DEF BlameStep, Surface
  <1> HIDE DEF more, full
  <1>2. BlameStep(w, id, s, k) = [last |-> RowAt(w[k], id), changed |-> more,
                                  introduced |-> s.introduced, done |-> full]
    BY <1>1 DEF BlameStates
  <1> QED
    BY <1>2, Zenon DEF more, full

LEMMA BlameSurfacesOrFills ==
  ASSUME NEW w, NEW id, NEW k, NEW s \in BlameStates(w),
         ~s.done, RowAt(w[k], id) # s.last, RowAt(w[k], id) # Null
  PROVE  \E full \in BOOLEAN :
           /\ BlameStep(w, id, s, k) =
                [last |-> RowAt(w[k], id), changed |-> s.changed \cup {w[k]},
                 introduced |-> s.introduced, done |-> full]
           /\ ~full => ~(Cardinality(s.changed \cup {w[k]}) >= Limit)
  <1>1. (Cardinality(s.changed \cup {w[k]}) >= Limit) \in BOOLEAN
    OBVIOUS
  <1> QED
    BY <1>1, BlameSurfaces, Zenon

LEMMA BlameStepType ==
  ASSUME NEW w, NEW id, NEW k, NEW s \in BlameStates(w),
         w[k] \in CommitIds, w[k - 1] \in CommitIds \cup {0, w[0]},
         RowAt(w[k], id) \in Values \cup {Null}
  PROVE  BlameStep(w, id, s, k) \in BlameStates(w)
  <1> PICK V : V = Values \cup {Null}
    OBVIOUS
  <1> PICK I : I = CommitIds \cup {0, w[0]}
    OBVIOUS
  <1> PICK C : C = CommitIds
    OBVIOUS
  <1>1. BlameStates(w) = [last : V, changed : SUBSET C, introduced : I, done : BOOLEAN]
    BY DEF BlameStates
  <1>2. s.last \in V /\ s.changed \in SUBSET C /\ s.introduced \in I /\ s.done \in BOOLEAN
    BY <1>1
  <1>3. CASE ~s.done /\ RowAt(w[k], id) # s.last /\ RowAt(w[k], id) = Null
    <2>1. BlameStep(w, id, s, k) = [last |-> s.last, changed |-> s.changed,
                                    introduced |-> w[k - 1], done |-> TRUE]
      BY <1>3, BlameIntroduces
    <2> QED
      BY <1>1, <1>2, <2>1
  <1>4. CASE ~s.done /\ RowAt(w[k], id) # s.last /\ RowAt(w[k], id) # Null
    <2>1. PICK full \in BOOLEAN :
            BlameStep(w, id, s, k) =
              [last |-> RowAt(w[k], id), changed |-> s.changed \cup {w[k]},
               introduced |-> s.introduced, done |-> full]
      BY <1>4, BlameSurfacesOrFills
    <2>2. s.changed \cup {w[k]} \in SUBSET C /\ RowAt(w[k], id) \in V
      BY <1>2
    <2> QED
      BY <1>1, <1>2, <2>1, <2>2
  <1> QED
    BY <1>3, <1>4, BlameStays

\* blameCommand reads the walk entry after entry.
LEMMA BlameUnfolds ==
  ASSUME HistoryInvariant, NEW head \in CommitIds, NEW id \in Ids,
         NEW w, w = Walk(dag, head)
  PROVE  \E f \in [0..Len(w) -> BlameStates(w)] :
           BlameRecursion(f, w, id) /\ Blame(head, id) = f[Len(w)]
  <1> DEFINE N == Len(w)
             T == BlameStates(w)
             step == [k \in 1..N |-> [s \in T |-> BlameStep(w, id, s, k)]]
             next(f, k) == BlameStep(w, id, f[k - 1], k)
  <1>1. w \in Seq(CommitIds) /\ N \in Nat
    BY WalkYieldsAncestors DEF HistoryInvariant, CommitIds
  <1>2. \A k \in 1..N : w[k] \in CommitIds
    BY <1>1
  <1>3. \A k \in 1..N : w[k - 1] \in CommitIds \cup {0, w[0]}
    <2> SUFFICES ASSUME NEW k \in 1..N PROVE w[k - 1] \in CommitIds \cup {0, w[0]}
      OBVIOUS
    <2>1. k - 1 = 0 \/ k - 1 \in 1..N
      BY <1>1
    <2> QED
      BY <1>2, <2>1
  <1>4. \A k \in 1..N : RowAt(w[k], id) \in Values \cup {Null}
    BY <1>2, ManifestTypes DEF RowAt, Manifests
  <1>5. \A k \in 1..N, s \in T : BlameStep(w, id, s, k) \in T
    BY <1>2, <1>3, <1>4, BlameStepType
  <1>6. BlameStart \in T
    BY DEF BlameStart, BlameStates
  <1> HIDE DEF T
  <1>7. step \in [1..N -> [T -> T]]
    BY <1>5
  <1>8. \A k \in 1..N, s \in T : step[k][s] = BlameStep(w, id, s, k)
    OBVIOUS
  <1> HIDE DEF step, N
  <1>9. PICK f \in [0..N -> T] : Follows(f, BlameStart, step, N)
    BY <1>1, <1>6, <1>7, Recursion
  <1>10. ASSUME NEW k \in 1..N
         PROVE  f[k] = next(f, k)
    <2>1. k - 1 \in 0..N
      BY <1>1
    <2>2. f[k - 1] \in T
      BY <2>1
    <2> QED
      BY <1>8, <1>9, <2>2 DEF Follows
  <1>11. f = [k \in 0..N |-> f[k]]
    OBVIOUS
  <1>12. \A k \in 0..N : f[k] = IF k = 0 THEN BlameStart ELSE next(f, k)
    <2>1. f[0] = BlameStart
      BY <1>9 DEF Follows
    <2>2. \A k \in 0..N : k = 0 \/ k \in 1..N
      BY <1>1
    <2> HIDE DEF next
    <2> QED
      BY <1>10, <2>1, <2>2
  <1>13. f = [k \in 0..N |-> IF k = 0 THEN BlameStart ELSE next(f, k)]
    BY <1>11, <1>12
  <1>14. BlameRecursion(f, w, id)
    BY <1>13 DEF BlameRecursion, N
  <1> DEFINE h == CHOOSE g : BlameRecursion(g, w, id)
  <1>15. BlameRecursion(h, w, id)
    BY <1>14
  <1>16. Blame(head, id) = h[Len(w)]
    <2>1. h = CHOOSE g : g = [k \in 0..Len(w) |->
                 IF k = 0 THEN [last |-> Null, changed |-> {}, introduced |-> 0,
                                done |-> FALSE]
                 ELSE BlameStep(w, id, g[k - 1], k)]
      BY DEF BlameRecursion, BlameStart
    <2> HIDE DEF h
    <2> QED
      BY <2>1 DEF Blame
  <1> HIDE DEF h
  <1>17. \A k \in 0..N : h[k] = IF k = 0 THEN BlameStart ELSE next(h, k)
    BY <1>15 DEF BlameRecursion, N
  <1>18. \A n \in 0..N : n \in {k \in 0..N : h[k] \in T}
    <2> DEFINE S == {k \in 0..N : h[k] \in T}
    <2>1. 0 \in 0..N
      BY <1>1
    <2>2. h[0] \in T
      BY <1>6, <1>17, <2>1
    <2>3. 0 \in S
      BY <2>1, <2>2
    <2>4. ASSUME NEW n \in 0..(N - 1), n \in S
          PROVE  n + 1 \in S
      <3>1. n + 1 \in 0..N /\ n + 1 \in 1..N /\ n + 1 # 0 /\ (n + 1) - 1 = n
        BY <1>1
      <3>2. h[n + 1] = next(h, n + 1)
        BY <1>17, <3>1
      <3>3. h[n + 1] = BlameStep(w, id, h[n], n + 1)
        BY <3>1, <3>2
      <3>4. h[n] \in T
        BY <2>4
      <3> QED
        BY <1>5, <3>1, <3>3, <3>4 DEF N
    <2> HIDE DEF S
    <2>5. \A n \in 0..N : n \in S
      BY <1>1, <2>3, <2>4, InductionUpTo
    <2> QED
      BY <2>5 DEF S
  <1>19. h \in [0..N -> T]
    <2>1. h = [k \in 0..N |-> IF k = 0 THEN BlameStart ELSE next(h, k)]
      BY <1>15 DEF BlameRecursion, N
    <2>2. h = [k \in 0..N |-> h[k]]
      BY <2>1
    <2> QED
      BY <1>18, <2>2
  <1> QED
    BY <1>15, <1>16, <1>19 DEF N, T

\* The positions of the walk where a run of equal content has its newest commit.
EndsUpTo(w, id, k) == {j \in 1..k : j = 1 \/ RowAt(w[j], id) # RowAt(w[j - 1], id)}

\* As long as blame reads on, it holds the row of the entry it has read last and has
\* said less than the limit allows; it says only ends of runs, and that a symbol was
\* introduced only between an entry with the symbol and the next one, without it.
BlameInvariant(w, id, k, s) ==
  /\ ~s.done => /\ s.introduced = 0
                /\ s.last = IF k = 0 THEN Null ELSE RowAt(w[k], id)
                /\ Cardinality(s.changed) < Limit
  /\ \A c \in s.changed : \E j \in EndsUpTo(w, id, k) : c = w[j]
  /\ IsFiniteSet(s.changed) /\ Cardinality(s.changed) <= Limit
  /\ s.introduced # 0 => \E m \in 2..k : /\ s.introduced = w[m - 1]
                                         /\ RowAt(w[m - 1], id) # Null
                                         /\ RowAt(w[m], id) = Null

LEMMA BlameStepKeeps ==
  ASSUME NEW w, NEW id, NEW k \in Nat \ {0}, NEW s \in BlameStates(w),
         BlameInvariant(w, id, k - 1, s),
         NEW r, r = BlameStep(w, id, s, k)
  PROVE  BlameInvariant(w, id, k, r)
  <1> DEFINE row == RowAt(w[k], id)
  <1>1. k # 0 /\ \A m \in 2..(k - 1) : m \in 2..k
    OBVIOUS
  <1>2. EndsUpTo(w, id, k - 1) \subseteq EndsUpTo(w, id, k)
    BY DEF EndsUpTo
  <1>3. Limit \in Nat \ {0}
    BY InspectionConstants
  <1>4. s.introduced # 0 => \E m \in 2..k : /\ s.introduced = w[m - 1]
                                            /\ RowAt(w[m - 1], id) # Null
                                            /\ RowAt(w[m], id) = Null
    BY <1>1 DEF BlameInvariant
  <1>5. \A c \in s.changed : \E j \in EndsUpTo(w, id, k) : c = w[j]
    BY <1>2 DEF BlameInvariant
  <1>6. IsFiniteSet(s.changed) /\ Cardinality(s.changed) <= Limit
    BY DEF BlameInvariant
  <1>7. CASE s.done
    <2>1. r = s
      BY <1>7, BlameStays
    <2> QED
      BY <1>4, <1>5, <1>6, <1>7, <2>1 DEF BlameInvariant
  <1>8. CASE ~s.done /\ row = s.last
    <2>1. r = s
      BY <1>8, BlameStays
    <2>2. s.introduced = 0 /\ Cardinality(s.changed) < Limit
      BY <1>8 DEF BlameInvariant
    <2> QED
      BY <1>1, <1>5, <1>6, <1>8, <2>1, <2>2 DEF BlameInvariant
  <1>9. CASE ~s.done /\ row # s.last /\ row # Null
    <2> DEFINE more == s.changed \cup {w[k]}
    <2>1. PICK full \in BOOLEAN :
            /\ r = [last |-> row, changed |-> more, introduced |-> s.introduced,
                    done |-> full]
            /\ ~full => ~(Cardinality(more) >= Limit)
      BY <1>9, BlameSurfacesOrFills
    <2>2. /\ r.last = row /\ r.changed = more /\ r.introduced = s.introduced
          /\ r.done = full
      BY <2>1
    <2>3. /\ s.introduced = 0 /\ Cardinality(s.changed) < Limit
          /\ s.last = IF k - 1 = 0 THEN Null ELSE RowAt(w[k - 1], id)
      BY <1>9 DEF BlameInvariant
    <2>4. k \in EndsUpTo(w, id, k)
      <3>1. k \in 1..k /\ (k = 1 \/ k - 1 # 0)
        OBVIOUS
      <3> QED
        BY <1>9, <2>3, <3>1 DEF EndsUpTo
    <2>5. \A c \in more : \E j \in EndsUpTo(w, id, k) : c = w[j]
      BY <1>5, <2>4
    <2>6. /\ IsFiniteSet(more) /\ Cardinality(more) \in Nat
          /\ Cardinality(more) <= Cardinality(s.changed) + 1
      <3>1. IsFiniteSet(more) /\ Cardinality(s.changed) \in Nat
        BY <1>6, FS_AddElement, FS_CardinalityType
      <3>2. Cardinality(more) = IF w[k] \in s.changed THEN Cardinality(s.changed)
                                ELSE Cardinality(s.changed) + 1
        BY <1>6, FS_AddElement
      <3> QED
        BY <3>1, <3>2
    <2> HIDE DEF more
    <2>7. Cardinality(more) <= Limit /\ (~r.done => Cardinality(more) < Limit)
      <3>1. Cardinality(s.changed) \in Nat
        BY <1>6, FS_CardinalityType
      <3>2. ~full => ~(Cardinality(more) >= Limit)
        BY <2>1
      <3>3. ~r.done => ~(Cardinality(more) >= Limit)
        BY <2>2, <3>2
      <3> QED
        BY <1>3, <2>3, <2>6, <3>1, <3>3
    <2> QED
      BY <1>1, <2>2, <2>3, <2>5, <2>6, <2>7 DEF BlameInvariant
  <1>10. CASE ~s.done /\ row # s.last /\ row = Null
    <2>1. r = [last |-> s.last, changed |-> s.changed, introduced |-> w[k - 1],
               done |-> TRUE]
      BY <1>10, BlameIntroduces
    <2>2. r.introduced = w[k - 1] /\ r.done /\ r.changed = s.changed
      BY <2>1
    <2>3. k - 1 # 0
      BY <1>10 DEF BlameInvariant
    <2>4. RowAt(w[k - 1], id) # Null
      BY <1>10, <2>3 DEF BlameInvariant
    <2>5. k \in 2..k
      BY <2>3
    <2> QED
      BY <1>5, <1>6, <1>10, <2>2, <2>4, <2>5 DEF BlameInvariant
  <1> QED
    BY <1>7, <1>8, <1>9, <1>10

LEMMA BlameEnds ==
  ASSUME HistoryInvariant, NEW head \in CommitIds, NEW id \in Ids,
         NEW w, w = Walk(dag, head)
  PROVE  BlameInvariant(w, id, Len(w), Blame(head, id))
  <1> PICK N : N = Len(w)
    OBVIOUS
  <1>1. N \in Nat
    BY WalkYieldsAncestors DEF HistoryInvariant, CommitIds
  <1>2. PICK f \in [0..N -> BlameStates(w)] :
          BlameRecursion(f, w, id) /\ Blame(head, id) = f[N]
    BY BlameUnfolds
  <1> DEFINE S == {k \in 0..N : BlameInvariant(w, id, k, f[k])}
  <1>3. 0 \in S
    <2>1. 0 \in 0..N
      BY <1>1
    <2>2. f[0] = BlameStart
      BY <1>2, <2>1 DEF BlameRecursion
    <2>3. IsFiniteSet({}) /\ Cardinality({}) = 0 /\ Limit \in Nat \ {0}
      BY FS_EmptySet, InspectionConstants
    <2> QED
      BY <2>1, <2>2, <2>3 DEF BlameInvariant, BlameStart
  <1>4. ASSUME NEW n \in 0..(N - 1), n \in S
        PROVE  n + 1 \in S
    <2>1. /\ n \in 0..N /\ n + 1 \in 0..N /\ n + 1 # 0 /\ (n + 1) - 1 = n
          /\ n + 1 \in Nat \ {0}
      BY <1>1
    <2>2. f[n + 1] = BlameStep(w, id, f[n], n + 1)
      BY <1>2, <2>1 DEF BlameRecursion
    <2>3. f[n] \in BlameStates(w) /\ BlameInvariant(w, id, n, f[n])
      BY <1>4, <2>1
    <2>4. BlameInvariant(w, id, n + 1, f[n + 1])
      BY <2>1, <2>2, <2>3, BlameStepKeeps
    <2> QED
      BY <2>1, <2>4
  <1> HIDE DEF S
  <1>5. \A n \in 0..N : n \in S
    BY <1>1, <1>3, <1>4, InductionUpTo
  <1>6. BlameInvariant(w, id, N, f[N])
    BY <1>1, <1>5 DEF S
  <1> QED
    BY <1>2, <1>6

\* The entries at some positions of a walk are as many as the positions.
LEMMA EntriesAreAsMany ==
  ASSUME NEW w, NEW S, IsFiniteSet(S), \A i, j \in S : w[i] = w[j] => i = j
  PROVE  Cardinality({w[i] : i \in S}) = Cardinality(S)
  <1> DEFINE T == {w[i] : i \in S}
             f == [i \in S |-> w[i]]
  <1>1. f \in Surjection(S, T)
    BY DEF Surjection
  <1>2. f \in Injection(S, T)
    BY DEF Injection, IsInjective
  <1> QED
    BY <1>1, <1>2, FS_Surjection

\* On a linear history the MCP tool names the newest commits of the latest runs of
\* equal contents, as many as the limit allows; the command names only such commits,
\* and the one it says introduced a symbol has it while its parent does not
\* (graphstore.ts, graphstore-handler.ts).
THEOREM BlamesAreExact == Spec => []BlameExact
  <1>1. HistoryInvariant => BlameExact
    <2> SUFFICES ASSUME HistoryInvariant, Linear,
                        NEW head \in CommitIds, NEW id \in Symbols
                 PROVE  LET ends  == RunEnds(head, id)
                            blame == Blame(head, id)
                            c     == blame.introduced
                        IN /\ BlameTransitions(head, id) =
                                {v \in ends : Cardinality({u \in ends : u > v}) < Limit}
                           /\ blame.changed \subseteq ends
                           /\ Cardinality(blame.changed) <= Limit
                           /\ c # 0 => RowAt(c, id) # Null /\ ParentRow(c, id) = Null
      BY DEF BlameExact
    <2> PICK w : w = Walk(dag, head)
      OBVIOUS
    <2> PICK N : N = Len(w)
      OBVIOUS
    <2>1. /\ IsDag(dag) /\ head \in 1..Len(dag) /\ IsLinear(dag)
          /\ CommitIds = 1..Len(dag) /\ id \in Ids
      BY InspectionConstants DEF HistoryInvariant, CommitIds, IsLinear, Linear
    <2>2. /\ N \in Nat /\ DOMAIN w = 1..N /\ Members(w) = Ancestors(dag, head)
          /\ \A i, j \in 1..N : w[i] = w[j] => i = j
          /\ \A k \in 1..N : w[k] \in CommitIds
      <3>1. /\ w \in Seq(1..Len(dag)) /\ Members(w) = Ancestors(dag, head)
            /\ \A i, j \in DOMAIN w : w[i] = w[j] => i = j
        BY <2>1, WalkYieldsAncestors
      <3>2. N \in Nat /\ DOMAIN w = 1..N /\ \A k \in 1..N : w[k] \in 1..Len(dag)
        BY <3>1
      <3> QED
        BY <2>1, <3>1, <3>2
    <2>3. 1 \in 1..N /\ w[1] = head
      BY <2>1, <2>2, WalkStartsAt
    <2>4. /\ \A k \in 1..(N - 1) : ParentsOf(dag, w[k]) = {w[k + 1]}
          /\ ParentsOf(dag, w[N]) = {}
      <3> DEFINE v == Walk(dag, head)
      <3>1. /\ \A k \in 1..(Len(v) - 1) : ParentsOf(dag, v[k]) = {v[k + 1]}
            /\ ParentsOf(dag, v[Len(v)]) = {}
        BY <2>1, LinearWalk
      <3>2. w = v
        OBVIOUS
      <3> HIDE DEF v
      <3> QED
        BY <3>1, <3>2
    <2>5. \A k \in 1..N : k = 1 \/ (k - 1 \in 1..(N - 1) /\ (k - 1) + 1 = k /\ k - 1 \in 1..N)
      BY <2>2
    <2>6. \A k \in 1..N, j \in 1..N : w[k] \in ParentsOf(dag, w[j]) => k # 1 /\ j = k - 1
      <3> SUFFICES ASSUME NEW k \in 1..N, NEW j \in 1..N, w[k] \in ParentsOf(dag, w[j])
                   PROVE  k # 1 /\ j = k - 1
        OBVIOUS
      <3>1. j # N
        BY <2>4
      <3>2. j \in 1..(N - 1) /\ j + 1 \in 1..N
        BY <2>2, <3>1
      <3>3. w[k] = w[j + 1]
        BY <2>4, <3>2
      <3>4. k = j + 1
        BY <2>2, <3>2, <3>3
      <3> QED
        BY <3>4
    <2>7. ASSUME NEW k \in 1..N
          PROVE  (k = 1 \/ RowAt(w[k], id) # RowAt(w[k - 1], id)) <=>
                   (w[k] # head => \E d \in Ancestors(dag, head) :
                                     /\ w[k] \in ParentsOf(dag, d)
                                     /\ RowAt(d, id) # RowAt(w[k], id))
      <3>1. CASE k = 1
        BY <2>3, <3>1
      <3>2. CASE k # 1
        <4>1. w[k] # head
          BY <2>2, <2>3, <3>2
        <4>2. k - 1 \in 1..N /\ w[k - 1] \in Ancestors(dag, head)
              /\ w[k] \in ParentsOf(dag, w[k - 1])
          <5>1. k - 1 \in 1..(N - 1) /\ (k - 1) + 1 = k /\ k - 1 \in 1..N
            BY <2>5, <3>2
          <5>2. ParentsOf(dag, w[k - 1]) = {w[k]}
            BY <2>4, <5>1
          <5>3. w[k - 1] \in Ancestors(dag, head)
            BY <2>2, <5>1 DEF Members
          <5> QED
            BY <5>1, <5>2, <5>3
        <4>3. \A d \in Ancestors(dag, head) : w[k] \in ParentsOf(dag, d) => d = w[k - 1]
          BY <2>2, <2>6 DEF Members
        <4> QED
          BY <3>2, <4>1, <4>2, <4>3
      <3> QED
        BY <3>1, <3>2
    <2> DEFINE E == EndsUpTo(w, id, N)
               R == RunEnds(head, id)
    <2>8. R = {w[k] : k \in E} /\ E \subseteq 1..N
      <3> DEFINE Right(v) == v # head => \E d \in Ancestors(dag, head) :
                               v \in ParentsOf(dag, d) /\ RowAt(d, id) # RowAt(v, id)
                 Left(k) == k = 1 \/ RowAt(w[k], id) # RowAt(w[k - 1], id)
      <3>1. \A k \in 1..N : Left(k) <=> Right(w[k])
        BY <2>7
      <3>2. Ancestors(dag, head) = {w[k] : k \in 1..N}
        BY <2>2 DEF Members
      <3>3. R = {v \in Ancestors(dag, head) : Right(v)} /\ E = {j \in 1..N : Left(j)}
        BY DEF RunEnds, EndsUpTo
      <3> HIDE DEF Left, Right, R, E
      <3>4. {w[k] : k \in {j \in 1..N : Left(j)}} = {v \in Ancestors(dag, head) : Right(v)}
        BY <3>1, <3>2
      <3> QED
        BY <3>3, <3>4
    <2>9. BlameTransitions(head, id) =
            {v \in R : Cardinality({u \in R : u > v}) < Limit}
      <3> HIDE DEF E, R
      <3>1. \A i, j \in 1..N : i < j <=> w[i] > w[j]
        <4>1. \A i, j \in 1..N : i < j => w[i] > w[j]
          <5> SUFFICES ASSUME NEW i \in 1..N, NEW j \in 1..N, i < j PROVE w[i] > w[j]
            OBVIOUS
          <5>1. w[j] \in Ancestors(dag, w[i])
            <6>1. \A p, q \in DOMAIN Walk(dag, head) :
                    p <= q => Walk(dag, head)[q] \in Ancestors(dag, Walk(dag, head)[p])
              BY <2>1, LinearWalkOrder
            <6>2. \A p, q \in DOMAIN w : p <= q => w[q] \in Ancestors(dag, w[p])
              BY <6>1
            <6> QED
              BY <2>2, <6>2
          <5>2. w[i] \in 1..Len(dag) /\ w[j] \in 1..Len(dag) /\ w[j] # w[i]
            BY <2>1, <2>2
          <5>3. w[j] <= w[i]
            BY <2>1, <5>1, <5>2, AncestorsOlder
          <5>4. Len(dag) \in Nat
            BY <2>1 DEF IsDag
          <5> QED
            BY <5>2, <5>3, <5>4
        <4> SUFFICES ASSUME NEW i \in 1..N, NEW j \in 1..N, w[i] > w[j] PROVE i < j
          BY <4>1
        <4>2. w[i] \in 1..Len(dag) /\ w[j] \in 1..Len(dag) /\ Len(dag) \in Nat
          BY <2>1, <2>2 DEF IsDag
        <4>3. i # j
          BY <4>2
        <4>4. ~(j < i)
          BY <4>1, <4>2
        <4> QED
          BY <2>2, <4>3, <4>4
      <3>2. ASSUME NEW k \in E
            PROVE  Cardinality({i \in E : i < k}) = Cardinality({u \in R : u > w[k]})
        <4> DEFINE S == {i \in E : i < k}
        <4>1. IsFiniteSet(S)
          <5>1. IsFiniteSet(1..N) /\ S \in SUBSET (1..N)
            BY <2>2, <2>8, IntervalSize
          <5> QED
            BY <5>1, FS_Subset
        <4>2. \A i, j \in S : w[i] = w[j] => i = j
          BY <2>2, <2>8
        <4>3. {u \in R : u > w[k]} = {w[i] : i \in S}
          <5>1. k \in 1..N /\ \A i \in E : i \in 1..N
            BY <2>8
          <5>2. \A i \in E : i < k <=> w[i] > w[k]
            BY <3>1, <5>1
          <5>3. \A u : u \in R <=> \E i \in E : u = w[i]
            BY <2>8
          <5> QED
            BY <5>2, <5>3
        <4> HIDE DEF S
        <4>4. Cardinality({w[i] : i \in S}) = Cardinality(S)
          BY <4>1, <4>2, EntriesAreAsMany
        <4> QED
          BY <4>3, <4>4 DEF S
      <3>3. BlameTransitions(head, id) =
              {w[k] : k \in {j \in E : Cardinality({i \in E : i < j}) < Limit}}
        <4>1. E = {j \in DOMAIN w : j = 1 \/ RowAt(w[j], id) # RowAt(w[j - 1], id)}
          BY <2>2 DEF E, EndsUpTo
        <4>2. BlameTransitions(head, id) =
                LET ends == {j \in DOMAIN w : j = 1 \/ RowAt(w[j], id) # RowAt(w[j - 1], id)}
                IN {w[k] : k \in {j \in ends : Cardinality({i \in ends : i < j}) < Limit}}
          BY DEF BlameTransitions
        <4> QED
          BY <4>1, <4>2
      <3> DEFINE Before(j) == Cardinality({i \in E : i < j}) < Limit
                 Newer(v) == Cardinality({u \in R : u > v}) < Limit
      <3>4. \A k \in E : Before(k) <=> Newer(w[k])
        BY <3>2
      <3> HIDE DEF Before, Newer
      <3>5. {w[k] : k \in {j \in E : Before(j)}} = {v \in R : Newer(v)}
        BY <2>8, <3>4
      <3> QED
        BY <3>3, <3>5 DEF Before, Newer
    <2>b. BlameInvariant(w, id, N, Blame(head, id))
      BY <2>1, BlameEnds
    <2>c. /\ Blame(head, id).changed \subseteq R
          /\ Cardinality(Blame(head, id).changed) <= Limit
      <3> HIDE DEF E, R
      <3>1. \A c \in Blame(head, id).changed : \E j \in E : c = w[j]
        BY <2>b DEF BlameInvariant, E
      <3> QED
        BY <2>8, <2>b, <3>1 DEF BlameInvariant
    <2>10. ASSUME NEW c, c = Blame(head, id).introduced, c # 0
           PROVE  RowAt(c, id) # Null /\ ParentRow(c, id) = Null
      <3>1. PICK m \in 2..N : /\ c = w[m - 1]
                              /\ RowAt(w[m - 1], id) # Null
                              /\ RowAt(w[m], id) = Null
        BY <2>10, <2>b DEF BlameInvariant
      <3>2. m - 1 \in 1..(N - 1) /\ m - 1 \in 1..N /\ (m - 1) + 1 = m
        BY <2>2
      <3>3. ParentsOf(dag, c) = {w[m]}
        BY <2>4, <3>1, <3>2
      <3>4. c \in 1..Len(dag)
        BY <2>1, <2>2, <3>1, <3>2
      <3>5. dag[c].parents \in Seq(1..Len(dag))
        BY <2>1, <3>4, ParentTypes
      <3>6. dag[c].parents # <<>> => dag[c].parents[1] = w[m]
        <4> SUFFICES ASSUME NEW D, NEW ps \in Seq(D), ps # <<>>,
                            {ps[k] : k \in DOMAIN ps} = {w[m]}
                     PROVE  ps[1] = w[m]
          BY <3>3, <3>5 DEF ParentsOf
        <4>1. 1 \in DOMAIN ps
          OBVIOUS
        <4> QED
          BY <4>1
      <3> QED
        BY <3>1, <3>6 DEF ParentRow
    <2> QED
      BY <2>9, <2>10, <2>c DEF R
  <1> QED
    BY <1>1, HistoryTypes, PTL

=============================================================================
