-------------------------- MODULE GraphStoreProofs --------------------------
(***************************************************************************)
(* Proofs about GraphStore, for any number of processes, branches, rows    *)
(* and commits: types; that what the refs lead to is on disk, without gc   *)
(* and with gc under a lock; who may hold the file of a branch; that HEAD  *)
(* keeps its branch, that gc collects all garbage, and that a branch only  *)
(* advances.  Then the proof that GraphStore implements History when       *)
(* commands run one at a time, each to its end, on branches.               *)
(***************************************************************************)
EXTENDS GraphStoreRefinement, CommitHistoryProofs

-----------------------------------------------------------------------------
(* Types *)

LEMMA EmptyManifestType == EmptyManifest \in Manifests
  BY DEF EmptyManifest, Manifests

LEMMA StoreTypes ==
  /\ EmptyStore \in Stores
  /\ \A s \in Stores : /\ s.row \subseteq RowObjects
                       /\ s.manifest \subseteq Manifests
                       /\ s.snapshot \subseteq SnapIds
                       /\ s.commit \subseteq CommitIds
  BY DEF EmptyStore, Stores

LEMMA IdleType == Idle \in Locals
  <1>1. Unborn \in HeadStates
    BY DEF HeadStates
  <1>2. "idle" \in PCs /\ "gc" \in AllCommands
    BY DEF PCs, AllCommands
  <1>3. Main \in Branches
    BY GraphStoreConstants
  <1> QED
    BY <1>1, <1>2, <1>3, EmptyManifestType, StoreTypes DEF Idle, Locals, Absent

LEMMA StepType ==
  ASSUME TypeOK, NEW p \in Procs, NEW l \in Locals, NEW pc \in PCs, Step(p, l, pc)
  PROVE  proc' \in [Procs -> Locals]
  <1>1. [l EXCEPT !.pc = pc] \in Locals
    BY DEF Locals
  <1> QED
    BY <1>1 DEF TypeOK, Step

LEMMA StopType ==
  ASSUME TypeOK, NEW p \in Procs, Stop(p)
  PROVE  proc' \in [Procs -> Locals]
  BY IdleType DEF TypeOK, Stop

LEMMA InitType == Init => TypeOK
  <1> SUFFICES ASSUME Init PROVE TypeOK
    OBVIOUS
  <1>1. commits \in Seq(CommitRecords) /\ snaps \in Seq(Manifests)
    BY DEF Init
  <1>2. store \in Stores
    BY StoreTypes DEF Init
  <1>3. refs \in [Branches -> CommitIds \cup {Absent, Torn}]
    BY DEF Init
  <1>4. head \in HeadStates
    BY DEF Init, HeadStates
  <1>5. proc \in [Procs -> Locals]
    BY IdleType DEF Init
  <1> QED
    BY <1>1, <1>2, <1>3, <1>4, <1>5 DEF TypeOK

\* While commits and snaps stay as they are, so do the types.
LEMMA SameTypes ==
  ASSUME UNCHANGED <<commits, snaps>>
  PROVE  /\ CommitIds' = CommitIds /\ SnapIds' = SnapIds
         /\ HeadStates' = HeadStates /\ Stores' = Stores /\ Locals' = Locals
         /\ CommitRecords' = CommitRecords
  BY DEF CommitIds, SnapIds, HeadStates, Stores, Locals, CommitRecords, OnBranch,
         Detached, Unborn, TornHead

\* A step that leaves the files and the objects alone.
LEMMA LocalStep ==
  ASSUME TypeOK, ObjectsUnchanged, FilesUnchanged, proc' \in [Procs -> Locals]
  PROVE  TypeOK'
  BY SameTypes DEF TypeOK, ObjectsUnchanged, FilesUnchanged

\* A step that writes a ref or HEAD.
LEMMA FileStep ==
  ASSUME TypeOK, ObjectsUnchanged, proc' \in [Procs -> Locals],
         head' \in HeadStates,
         refs' \in [Branches -> CommitIds \cup {Absent, Torn}]
  PROVE  TypeOK'
  BY SameTypes DEF TypeOK, ObjectsUnchanged

\* A step that puts or deletes rows, manifests and written objects.
LEMMA StoreStep ==
  ASSUME TypeOK, UNCHANGED <<commits, snaps>>, FilesUnchanged,
         proc' \in [Procs -> Locals], store' \in Stores
  PROVE  TypeOK'
  BY SameTypes DEF TypeOK, FilesUnchanged

LEMMA ReachType == \A S : Reach(S) \subseteq DOMAIN commits
  BY DEF Reach, Reachable

LEMMA CommitDomain == TypeOK => DOMAIN commits = CommitIds
  BY DEF TypeOK, CommitIds

LEMMA RowsType == \A m \in Manifests : RowsOf(m) \subseteq RowObjects
  BY NullNotAValue DEF RowsOf, Manifests, RowObjects

LEMMA HeadCommitType ==
  TypeOK => HeadCommit \in CommitIds \cup {Absent, Torn}
  <1> SUFFICES ASSUME TypeOK PROVE HeadCommit \in CommitIds \cup {Absent, Torn}
    OBVIOUS
  <1>1. CASE head = Unborn
    BY <1>1 DEF HeadCommit, Unborn
  <1>2. CASE head = TornHead
    BY <1>2 DEF HeadCommit, TornHead
  <1>3. ASSUME NEW b \in Branches, head = OnBranch(b)
        PROVE  HeadCommit \in CommitIds \cup {Absent, Torn}
    BY <1>3 DEF HeadCommit, OnBranch, TypeOK
  <1>4. ASSUME NEW c \in CommitIds, head = Detached(c)
        PROVE  HeadCommit \in CommitIds \cup {Absent, Torn}
    BY <1>4 DEF HeadCommit, Detached
  <1> QED
    BY <1>1, <1>2, <1>3, <1>4 DEF TypeOK, HeadStates

LEMMA TypeAnalyze ==
  ASSUME TypeOK, NEW p \in Procs,
         \/ StartAnalyze(p) \/ PutRow(p) \/ PutManifest(p)
         \/ ResolveBranch(p) \/ ResolvePrevious(p)
  PROVE  TypeOK'
  <1>0. proc[p] \in Locals /\ Idle \in Locals
    BY IdleType DEF TypeOK
  <1>1. CASE StartAnalyze(p)
    <2>1. PICK g \in Manifests :
            Step(p, [Idle EXCEPT !.cmd = "analyze", !.manifest = g,
                                 !.rows = RowsOf(g)], "rows")
      BY <1>1 DEF StartAnalyze
    <2>2. [Idle EXCEPT !.cmd = "analyze", !.manifest = g, !.rows = RowsOf(g)]
            \in Locals
      BY <1>0, RowsType DEF Locals, AllCommands
    <2>3. "rows" \in PCs
      BY DEF PCs
    <2> QED
      BY <1>1, <2>1, <2>2, <2>3, StepType, LocalStep DEF StartAnalyze
  <1>2. CASE PutRow(p)
    <2>1. CASE \E r \in proc[p].rows :
                 /\ store' = [store EXCEPT !.row = @ \cup {r}]
                 /\ Step(p, [proc[p] EXCEPT !.rows = @ \ {r}], "rows")
      <3>1. PICK r \in proc[p].rows :
                 /\ store' = [store EXCEPT !.row = @ \cup {r}]
                 /\ Step(p, [proc[p] EXCEPT !.rows = @ \ {r}], "rows")
        BY <2>1
      <3>2. r \in RowObjects /\ [proc[p] EXCEPT !.rows = @ \ {r}] \in Locals
        BY <1>0 DEF Locals
      <3>3. store' \in Stores
        BY <3>1, <3>2 DEF TypeOK, Stores
      <3>4. proc' \in [Procs -> Locals]
        BY <3>1, <3>2, StepType DEF PCs
      <3> QED
        BY <1>2, <3>3, <3>4, StoreStep DEF PutRow
    <2>2. CASE UNCHANGED store /\ Step(p, proc[p], "manifest")
      <3>1. proc' \in [Procs -> Locals]
        BY <1>0, <2>2, StepType DEF PCs
      <3> QED
        BY <1>2, <2>2, <3>1, StoreStep DEF PutRow, TypeOK
    <2> QED
      BY <1>2, <2>1, <2>2 DEF PutRow
  <1>3. CASE PutManifest(p)
    <2>1. proc[p].manifest \in Manifests
      BY <1>0 DEF Locals
    <2>2. store' \in Stores
      BY <1>3, <2>1 DEF PutManifest, TypeOK, Stores
    <2>3. proc' \in [Procs -> Locals]
      BY <1>0, <1>3, StepType DEF PutManifest, PCs
    <2> QED
      BY <1>3, <2>2, <2>3, StoreStep DEF PutManifest
  <1>4. CASE ResolveBranch(p)
    <2>1. head.kind = "branch" => head.branch \in Branches
      BY DEF TypeOK, HeadStates, Unborn, TornHead, OnBranch, Detached
    <2>2. (IF head.kind = "branch" THEN head.branch ELSE Main) \in Branches
      BY <2>1, GraphStoreConstants
    <2>3. [proc[p] EXCEPT !.branch =
             IF head.kind = "branch" THEN head.branch ELSE Main] \in Locals
      BY <1>0, <2>2 DEF Locals
    <2>4. proc' \in [Procs -> Locals]
      BY <1>4, <2>3, StepType, StopType DEF ResolveBranch, PCs
    <2> QED
      BY <1>4, <2>4, LocalStep DEF ResolveBranch
  <1>5. CASE ResolvePrevious(p)
    <2>1. CASE HeadCommit # Torn
      <3>1. [proc[p] EXCEPT !.prev = HeadCommit] \in Locals
        BY <1>0, <2>1, HeadCommitType DEF Locals
      <3>2. proc' \in [Procs -> Locals]
        BY <1>5, <2>1, <3>1, StepType DEF ResolvePrevious, PCs
      <3> QED
        BY <1>5, <3>2, LocalStep DEF ResolvePrevious
    <2>2. CASE HeadCommit = Torn
      BY <1>5, <2>2, StopType, LocalStep DEF ResolvePrevious
    <2> QED
      BY <2>1, <2>2
  <1> QED
    BY <1>1, <1>2, <1>3, <1>4, <1>5

\* A longer commits or snaps only adds to the types.
LEMMA MoreTypes ==
  ASSUME CommitIds \subseteq CommitIds', SnapIds \subseteq SnapIds'
  PROVE  /\ HeadStates \subseteq HeadStates' /\ Stores \subseteq Stores'
         /\ Locals \subseteq Locals'
  <1>1. HeadStates \subseteq HeadStates'
    BY DEF HeadStates, OnBranch, Detached, Unborn, TornHead
  <1>2. Stores \subseteq Stores'
    BY DEF Stores
  <1>3. ASSUME NEW l \in Locals PROVE l \in Locals'
    BY <1>1, <1>2 DEF Locals
  <1> QED
    BY <1>1, <1>2, <1>3

LEMMA TypePutSnapshot ==
  ASSUME TypeOK, NEW p \in Procs, PutSnapshot(p)
  PROVE  TypeOK'
  <1> DEFINE s == Len(snaps) + 1
  <1>0. proc[p] \in Locals /\ proc[p].manifest \in Manifests
    BY DEF TypeOK, Locals
  <1>1. /\ snaps' = Append(snaps, proc[p].manifest)
        /\ snaps' \in Seq(Manifests) /\ Len(snaps') = s /\ Len(snaps) \in Nat
    BY <1>0 DEF PutSnapshot, TypeOK
  <1>2. /\ CommitIds' = CommitIds /\ SnapIds \subseteq SnapIds' /\ s \in SnapIds'
    BY <1>1 DEF CommitIds, SnapIds, PutSnapshot
  <1>3. commits' \in Seq(CommitRecords')
    <2>1. CommitRecords \subseteq CommitRecords'
      BY <1>2 DEF CommitRecords
    <2> QED
      BY <2>1 DEF PutSnapshot, TypeOK
  <1>4. store' \in Stores'
    BY <1>2, MoreTypes DEF PutSnapshot, TypeOK, Stores
  <1>5. head' \in HeadStates'
    BY <1>2, MoreTypes DEF PutSnapshot, FilesUnchanged, TypeOK
  <1>6. refs' \in [Branches -> CommitIds' \cup {Absent, Torn}]
    BY <1>2 DEF PutSnapshot, FilesUnchanged, TypeOK
  <1>7. proc' \in [Procs -> Locals']
    <2> DEFINE pc == IF proc[p].cmd = "merge" THEN "commit" ELSE "branch"
    <2>1. pc \in PCs
      BY DEF PCs
    <2>2. Locals \subseteq Locals'
      BY <1>2, MoreTypes
    <2>3. [[proc[p] EXCEPT !.snap = s] EXCEPT !.pc = pc] \in Locals'
      <3>1. proc[p] \in Locals' /\ s \in SnapIds'
        BY <1>0, <1>2, <2>2
      <3> HIDE DEF s, pc
      <3> QED
        BY <2>1, <3>1 DEF Locals
    <2>4. Step(p, [proc[p] EXCEPT !.snap = s], pc)
      BY DEF PutSnapshot
    <2> QED
      BY <2>2, <2>3, <2>4 DEF Step, TypeOK
  <1> QED
    BY <1>1, <1>3, <1>4, <1>5, <1>6, <1>7 DEF TypeOK

LEMMA TypePutCommit ==
  ASSUME TypeOK, NEW p \in Procs, PutCommit(p), proc[p].snap # 0,
         proc[p].cmd = "merge" => proc[p].theirs # Absent
  PROVE  TypeOK'
  <1> DEFINE c == Len(commits) + 1
             parents == (IF proc[p].prev = Absent THEN <<>> ELSE <<proc[p].prev>>)
                        \o (IF proc[p].cmd = "merge" THEN <<proc[p].theirs>>
                            ELSE <<>>)
             record == [snapshot |-> proc[p].snap, parents |-> parents]
  <1>0. /\ proc[p] \in Locals /\ proc[p].snap \in SnapIds
        /\ proc[p].prev \in CommitIds \cup {Absent}
        /\ proc[p].cmd = "merge" => proc[p].theirs \in CommitIds
    BY DEF TypeOK, Locals
  <1>1. commits' = Append(commits, record) /\ snaps' = snaps
    BY DEF PutCommit
  <1>2. Len(commits) \in Nat /\ Len(commits') = c
    BY <1>1 DEF TypeOK
  <1>3. /\ CommitIds \subseteq CommitIds' /\ c \in CommitIds' /\ SnapIds' = SnapIds
    BY <1>1, <1>2 DEF CommitIds, SnapIds
  <1>4. parents \in Seq(CommitIds)
    BY <1>0
  <1>5. CommitRecords \subseteq CommitRecords' /\ record \in CommitRecords'
    <2>1. ASSUME NEW r \in CommitRecords PROVE r \in CommitRecords'
      BY <1>3 DEF CommitRecords
    <2> QED
      BY <1>0, <1>3, <1>4, <2>1 DEF CommitRecords
  <1>6. commits' \in Seq(CommitRecords')
    BY <1>1, <1>5 DEF TypeOK
  <1>7. store' \in Stores'
    BY <1>3, MoreTypes DEF PutCommit, TypeOK, Stores
  <1>8. head' \in HeadStates'
    BY <1>3, MoreTypes DEF PutCommit, FilesUnchanged, TypeOK
  <1>9. refs' \in [Branches -> CommitIds' \cup {Absent, Torn}]
    BY <1>3 DEF PutCommit, FilesUnchanged, TypeOK
  <1>10. proc' \in [Procs -> Locals']
    <2>1. "refTrunc" \in PCs
      BY DEF PCs
    <2>2. Locals \subseteq Locals'
      BY <1>3, MoreTypes
    <2>3. [[proc[p] EXCEPT !.new = c] EXCEPT !.pc = "refTrunc"] \in Locals'
      BY <1>0, <1>3, <2>1, <2>2 DEF Locals
    <2>4. Step(p, [proc[p] EXCEPT !.new = c], "refTrunc")
      BY DEF PutCommit
    <2> QED
      BY <2>2, <2>3, <2>4 DEF Step, TypeOK
  <1> QED
    BY <1>1, <1>3, <1>6, <1>7, <1>8, <1>9, <1>10 DEF TypeOK

LEMMA TypeRefs ==
  ASSUME TypeOK, NEW p \in Procs,
         TruncateRef(p) \/ CreateRef(p) \/ WriteRef(p) \/ Unlink(p)
  PROVE  TypeOK'
  <1>0. proc[p] \in Locals /\ proc[p].branch \in Branches
        /\ proc[p].new \in CommitIds \cup {Absent}
    BY DEF TypeOK, Locals
  <1> DEFINE Refs == [Branches -> CommitIds \cup {Absent, Torn}]
  <1>1. refs' \in Refs /\ head' \in HeadStates
    BY <1>0 DEF TruncateRef, CreateRef, WriteRef, Unlink, TypeOK
  <1>2. ObjectsUnchanged
    BY DEF TruncateRef, CreateRef, WriteRef, Unlink
  <1>3. CASE TruncateRef(p)
    BY <1>0, <1>1, <1>2, <1>3, StepType, FileStep DEF TruncateRef, PCs
  <1>4. CASE CreateRef(p)
    BY <1>0, <1>1, <1>2, <1>4, StepType, StopType, FileStep DEF CreateRef, PCs
  <1>5. CASE WriteRef(p)
    <2>1. OnBranch(proc[p].branch) \in HeadStates
      BY <1>0 DEF HeadStates
    <2>2. [proc[p] EXCEPT !.newHead = OnBranch(proc[p].branch)] \in Locals
      BY <1>0, <2>1 DEF Locals
    <2>3. proc' \in [Procs -> Locals]
      BY <1>5, <2>2, StepType, StopType DEF WriteRef, PCs
    <2> QED
      BY <1>1, <1>2, <2>3, FileStep
  <1>6. CASE Unlink(p)
    <2>1. \A q \in Procs : /\ proc[q] \in Locals
                           /\ [proc[q] EXCEPT !.linked = FALSE] \in Locals
      BY DEF TypeOK, Locals
    <2>2. proc' \in [Procs -> Locals]
      BY <1>6, <2>1, IdleType DEF Unlink
    <2> QED
      BY <1>1, <1>2, <2>2, FileStep
  <1> QED
    BY <1>3, <1>4, <1>5, <1>6

LEMMA TypeHead ==
  ASSUME TypeOK, NEW p \in Procs, TruncateHead(p) \/ WriteHead(p)
  PROVE  TypeOK'
  <1>0. proc[p] \in Locals /\ proc[p].newHead \in HeadStates /\ TornHead \in HeadStates
    BY DEF TypeOK, Locals, HeadStates
  <1>1. head' \in HeadStates /\ refs' = refs /\ ObjectsUnchanged
    BY <1>0 DEF TruncateHead, WriteHead
  <1>2. proc' \in [Procs -> Locals]
    BY <1>0, StepType, StopType DEF TruncateHead, WriteHead, PCs
  <1> QED
    BY <1>1, <1>2, FileStep DEF TypeOK

LEMMA TypedType == TypeOK => TypedIds \subseteq CommitIds
  BY ReachType, CommitDomain, GraphStoreConstants DEF TypedIds

LEMMA TypeBranches ==
  ASSUME TypeOK, NEW p \in Procs,
         Checkout(p) \/ BranchFrom(p) \/ DeleteBranch(p)
  PROVE  TypeOK'
  <1>0. Idle \in Locals
    BY IdleType
  <1>1. CASE Checkout(p)
    <2>1. ASSUME NEW b \in Branches
          PROVE  [Idle EXCEPT !.cmd = "checkout", !.newHead = OnBranch(b)] \in Locals
      <3>1. OnBranch(b) \in HeadStates
        BY DEF HeadStates
      <3> QED
        BY <1>0, <3>1 DEF Locals, AllCommands
    <2>2. ASSUME NEW c \in CommitIds
          PROVE  [Idle EXCEPT !.cmd = "checkout", !.newHead = Detached(c)] \in Locals
      <3>1. Detached(c) \in HeadStates
        BY DEF HeadStates
      <3> QED
        BY <1>0, <3>1 DEF Locals, AllCommands
    <2>3. PICK l \in Locals : Step(p, l, "headTrunc")
      BY <1>1, <2>1, <2>2, TypedType DEF Checkout
    <2> QED
      BY <1>1, <2>3, StepType, LocalStep DEF Checkout, PCs
  <1>2. CASE BranchFrom(p)
    <2>1. PICK b \in Branches,
               c \in TypedIds \cup ({refs[x] : x \in Branches} \cup {HeadCommit}) :
            /\ c > 0
            /\ Step(p, [Idle EXCEPT !.cmd = "branch", !.branch = b, !.new = c],
                    "refCreate")
      BY <1>2 DEF BranchFrom
    <2>2. c \in CommitIds \cup {Absent, Torn}
      BY TypedType, HeadCommitType DEF TypeOK
    <2>3. c \in CommitIds
      BY <2>1, <2>2 DEF Absent, Torn
    <2>4. [Idle EXCEPT !.cmd = "branch", !.branch = b, !.new = c] \in Locals
      BY <1>0, <2>3 DEF Locals, AllCommands
    <2> QED
      BY <1>2, <2>1, <2>4, StepType, LocalStep DEF BranchFrom, PCs
  <1>3. CASE DeleteBranch(p)
    <2>1. PICK b \in Branches :
            Step(p, [Idle EXCEPT !.cmd = "delete", !.branch = b], "unlink")
      BY <1>3 DEF DeleteBranch
    <2>2. [Idle EXCEPT !.cmd = "delete", !.branch = b] \in Locals
      BY <1>0 DEF Locals, AllCommands
    <2> QED
      BY <1>3, <2>1, <2>2, StepType, LocalStep DEF DeleteBranch, PCs
  <1> QED
    BY <1>1, <1>2, <1>3

\* A merged manifest takes every row from one of the two sides.
LEMMA MergeManifestsType ==
  ASSUME NEW base, NEW ours \in Manifests, NEW theirs \in Manifests
  PROVE  MergeManifests(base, ours, theirs) \in Manifests
  BY DEF MergeManifests, MergeRow, Manifests

\* Every commit written has a snapshot that was written, and every snapshot is
\* a manifest.
LEMMA ObjectTypes ==
  ASSUME TypeOK
  PROVE  /\ \A c \in CommitIds : /\ commits[c].snapshot \in SnapIds
                                 /\ commits[c].parents \in Seq(CommitIds)
         /\ \A s \in SnapIds : snaps[s] \in Manifests
  <1>1. ASSUME NEW c \in CommitIds PROVE commits[c] \in CommitRecords
    BY DEF TypeOK, CommitIds
  <1>2. ASSUME NEW s \in SnapIds PROVE snaps[s] \in Manifests
    BY DEF TypeOK, SnapIds
  <1> QED
    BY <1>1, <1>2 DEF CommitRecords

LEMMA ManifestOfType ==
  ASSUME TypeOK
  PROVE  [c \in CommitIds |-> ManifestOf(c)] \in [CommitIds -> Manifests]
  BY ObjectTypes DEF ManifestOf

LEMMA TypeMerge ==
  ASSUME TypeOK, NEW p \in Procs,
         StartMerge(p) \/ MergeOurs(p) \/ MergeTheirs(p)
           \/ (ThreeWayMerge(p) /\ proc[p].prev # Absent /\ proc[p].theirs # Absent)
  PROVE  TypeOK'
  <1>0. proc[p] \in Locals /\ Idle \in Locals
    BY IdleType DEF TypeOK
  <1>1. CASE StartMerge(p)
    <2>1. head.branch \in Branches
      BY GraphStoreConstants
         DEF TypeOK, HeadStates, Unborn, TornHead, OnBranch, Detached
    <2>2. \A b \in Branches : [Idle EXCEPT !.cmd = "merge", !.branch = b] \in Locals
      BY <1>0 DEF Locals, AllCommands
    <2> QED
      BY <1>1, <2>1, <2>2, StepType, LocalStep DEF StartMerge, PCs
  <1>2. CASE MergeOurs(p)
    <2>1. ASSUME NEW ours \in {HeadCommit, refs[proc[p].branch]}, ours > 0
          PROVE  [proc[p] EXCEPT !.prev = ours] \in Locals
      <3>1. ours \in CommitIds
        BY <1>0, <2>1, HeadCommitType DEF TypeOK, Locals, Absent, Torn
      <3> QED
        BY <1>0, <3>1 DEF Locals
    <2>2. proc' \in [Procs -> Locals]
      BY <1>2, <2>1, StepType, StopType DEF MergeOurs, PCs
    <2> QED
      BY <1>2, <2>2, LocalStep DEF MergeOurs
  <1>3. CASE MergeTheirs(p)
    <2>1. ASSUME NEW c \in TypedIds \cup {refs[x] : x \in Branches}, c > 0
          PROVE  [proc[p] EXCEPT !.theirs = c] \in Locals
      <3>1. c \in CommitIds
        BY <2>1, TypedType DEF TypeOK, Absent, Torn
      <3> QED
        BY <1>0, <3>1 DEF Locals
    <2>2. proc' \in [Procs -> Locals]
      BY <1>3, <2>1, StepType, StopType DEF MergeTheirs, PCs
    <2> QED
      BY <1>3, <2>2, LocalStep DEF MergeTheirs
  <1>4. CASE ThreeWayMerge(p) /\ proc[p].prev # Absent /\ proc[p].theirs # Absent
    <2> DEFINE manifest == [c \in CommitIds |-> ManifestOf(c)]
               m == Merged(commits, manifest, proc[p].prev, proc[p].theirs)
    <2>1. proc[p].prev \in CommitIds /\ proc[p].theirs \in CommitIds
      BY <1>0, <1>4 DEF Locals
    <2>2. m \in Manifests
      <3>1. manifest[proc[p].prev] \in Manifests /\ manifest[proc[p].theirs] \in Manifests
        BY <2>1, ManifestOfType
      <3> QED
        BY <3>1, MergeManifestsType DEF Merged
    <2>3. [proc[p] EXCEPT !.manifest = m] \in Locals
      <3> HIDE DEF m
      <3> QED
        BY <1>0, <2>2 DEF Locals
    <2>4. [proc[p] EXCEPT !.new = proc[p].theirs] \in Locals
      BY <1>0, <2>1 DEF Locals
    <2>5. \/ Step(p, [proc[p] EXCEPT !.manifest = m], "manifest")
          \/ Step(p, [proc[p] EXCEPT !.new = proc[p].theirs], "refTrunc")
          \/ Stop(p)
      BY <1>4 DEF ThreeWayMerge
    <2>6. proc' \in [Procs -> Locals]
      BY <2>3, <2>4, <2>5, StepType, StopType DEF PCs
    <2> QED
      BY <1>4, <2>6, LocalStep DEF ThreeWayMerge
  <1> QED
    BY <1>1, <1>2, <1>3, <1>4

LEMMA MinusType == \A A, B \in Stores : Minus(A, B) \in Stores
  BY DEF Minus, Stores

LEMMA MarkedType ==
  ASSUME TypeOK, NEW seeds \in SUBSET CommitIds
  PROVE  Marked(seeds) \in Stores
  <1> DEFINE cs == Reach(seeds)
             ss == {commits[c].snapshot : c \in cs}
             ms == {snaps[s] : s \in ss \cap store.snapshot}
             rs == UNION {RowsOf(m) : m \in ms \cap store.manifest}
  <1>1. cs \subseteq CommitIds
    BY ReachType, CommitDomain
  <1>4. ss \subseteq SnapIds
    BY <1>1, ObjectTypes
  <1>5. ms \subseteq Manifests
    BY <1>4, ObjectTypes
  <1>6. rs \subseteq RowObjects
    BY <1>5, RowsType
  <1>7. Marked(seeds) = [commit |-> cs, snapshot |-> ss, manifest |-> ms, row |-> rs]
    BY DEF Marked
  <1> HIDE DEF cs, ss, ms, rs
  <1> QED
    BY <1>1, <1>4, <1>5, <1>6, <1>7 DEF Stores

LEMMA TypeGc ==
  ASSUME TypeOK, NEW p \in Procs,
         \/ StartGc(p) \/ GcReadRef(p) \/ GcReadHead(p) \/ GcMark(p)
         \/ GcSweep(p) \/ GcDone(p)
  PROVE  TypeOK'
  <1>0. proc[p] \in Locals /\ Idle \in Locals
    BY IdleType DEF TypeOK
  <1>1. CASE StartGc(p)
    <2>1. [Idle EXCEPT !.cmd = "gc", !.names = Listed] \in Locals
      BY <1>0 DEF Locals, AllCommands, Listed
    <2> QED
      BY <1>1, <2>1, StepType, LocalStep DEF StartGc, PCs
  <1>2. CASE GcReadRef(p)
    <2>1. ASSUME NEW b \in proc[p].names
          PROVE  [proc[p] EXCEPT !.names = @ \ {b},
                    !.seeds = IF refs[b] > 0 THEN @ \cup {refs[b]} ELSE @] \in Locals
      <3>1. b \in Branches /\ refs[b] \in CommitIds \cup {Absent, Torn}
        BY <1>0 DEF Locals, TypeOK
      <3>2. refs[b] > 0 => refs[b] \in CommitIds
        BY <3>1 DEF Absent, Torn
      <3> QED
        BY <1>0, <3>1, <3>2 DEF Locals
    <2>2. proc' \in [Procs -> Locals]
      BY <1>0, <1>2, <2>1, StepType DEF GcReadRef, PCs
    <2> QED
      BY <1>2, <2>2, LocalStep DEF GcReadRef
  <1>3. CASE GcReadHead(p)
    <2>1. head.kind = "detached" => head.commit \in CommitIds
      BY DEF TypeOK, HeadStates, Unborn, TornHead, OnBranch, Detached
    <2>2. [proc[p] EXCEPT !.seeds =
             IF head.kind = "detached" THEN @ \cup {head.commit} ELSE @] \in Locals
      BY <1>0, <2>1 DEF Locals
    <2>3. proc' \in [Procs -> Locals]
      BY <1>3, <2>2, StepType, StopType DEF GcReadHead, PCs
    <2> QED
      BY <1>3, <2>3, LocalStep DEF GcReadHead
  <1>4. CASE GcMark(p)
    <2> DEFINE mark == Marked(proc[p].seeds)
    <2>1. mark \in Stores
      BY <1>0, MarkedType DEF Locals
    <2>2. Minus(store, mark) \in Stores
      BY <2>1, MinusType DEF TypeOK
    <2>3. [proc[p] EXCEPT !.mark = mark, !.pending = Minus(store, mark)] \in Locals
      <3> HIDE DEF mark
      <3> QED
        BY <1>0, <2>1, <2>2 DEF Locals
    <2>4. \/ Step(p, [proc[p] EXCEPT !.mark = mark, !.pending = Minus(store, mark)],
                  "gcSweep")
          \/ Stop(p)
      BY <1>4 DEF GcMark
    <2>5. proc' \in [Procs -> Locals]
      BY <2>3, <2>4, StepType, StopType DEF PCs
    <2> QED
      BY <1>4, <2>5, LocalStep DEF GcMark
  <1>5. CASE GcSweep(p)
    <2>1. store' \in Stores
      BY <1>5 DEF GcSweep, TypeOK, Stores
    <2> QED
      BY <1>5, <2>1, StoreStep DEF GcSweep, TypeOK
  <1>6. CASE GcDone(p)
    BY <1>6, StopType, LocalStep DEF GcDone
  <1> QED
    BY <1>1, <1>2, <1>3, <1>4, <1>5, <1>6

LEMMA TypeCrash ==
  ASSUME TypeOK, NEW p \in Procs, MergeDryRun(p) \/ Crash(p)
  PROVE  TypeOK'
  BY StopType, LocalStep DEF MergeDryRun, Crash

-----------------------------------------------------------------------------
(* What the program counter of a process says about its other locals *)

GcPCs == {"gcRefs", "gcHead", "gcMark", "gcSweep"}

Control(l) ==
  /\ l.pc # "idle" => l.cmd \in Commands
  /\ l.pc \in GcPCs => /\ l.cmd = "gc" /\ l.newHead = Unborn
                       /\ l.prev = Absent /\ l.theirs = Absent /\ l.new = Absent
  /\ l.pc = "rows" => l.cmd = "analyze"
  /\ l.pc \in {"manifest", "snapshot"} => l.cmd \in {"analyze", "merge"}
  /\ l.pc \in {"branch", "prev"} => l.cmd = "analyze" /\ l.snap # 0
  /\ l.pc = "commit" => l.cmd \in {"analyze", "merge"} /\ l.snap # 0
  /\ l.pc \in {"mergeOurs", "mergeInto", "mergeTheirs", "mergeRows"} => l.cmd = "merge"
  /\ l.pc \in {"mergeTheirs", "mergeRows", "manifest", "snapshot", "commit"}
       /\ l.cmd = "merge" => l.prev # Absent
  /\ l.pc \in {"mergeRows", "manifest", "snapshot", "commit"} /\ l.cmd = "merge"
       => l.theirs # Absent
  /\ l.pc \in {"refTrunc", "refCreate", "refWrite"} => l.new # Absent

ControlOK == \A p \in Procs : Control(proc[p])

LEMMA ControlIdle == Control(Idle)
  BY DEF Control, Idle, GcPCs

\* A step of p that leaves its locals under control.
LEMMA ControlStep ==
  ASSUME TypeOK, ControlOK, NEW p \in Procs, NEW l, NEW pc, Step(p, l, pc),
         Control([l EXCEPT !.pc = pc])
  PROVE  ControlOK'
  BY DEF TypeOK, ControlOK, Step

LEMMA ControlStop ==
  ASSUME TypeOK, ControlOK, NEW p \in Procs, Stop(p)
  PROVE  ControlOK'
  BY ControlIdle DEF TypeOK, ControlOK, Stop

LEMMA ControlNext ==
  ASSUME TypeOK, ControlOK, Next
  PROVE  ControlOK'
  <1> USE DEF Absent, GcPCs
  <1>0. \A p \in Procs : proc[p] \in Locals /\ Control(proc[p])
    BY DEF TypeOK, ControlOK
  <1>a. Idle \in Locals
    BY IdleType
  <1>1. ASSUME NEW p \in Procs, StartAnalyze(p) PROVE ControlOK'
    <2>1. PICK g \in Manifests :
            Step(p, [Idle EXCEPT !.cmd = "analyze", !.manifest = g,
                                 !.rows = RowsOf(g)], "rows")
      BY <1>1 DEF StartAnalyze
    <2> QED
      BY <1>a, <1>1, <2>1, ControlStep DEF Control, Locals, StartAnalyze, Start
  <1>2. ASSUME NEW p \in Procs, PutRow(p) PROVE ControlOK'
    <2>1. CASE \E r \in proc[p].rows :
                 Step(p, [proc[p] EXCEPT !.rows = @ \ {r}], "rows")
      BY <1>0, <1>2, <2>1, ControlStep DEF Control, Locals, PutRow, At
    <2>2. CASE Step(p, proc[p], "manifest")
      BY <1>0, <1>2, <2>2, ControlStep DEF Control, Locals, PutRow, At
    <2> QED
      BY <1>2, <2>1, <2>2 DEF PutRow
  <1>3. ASSUME NEW p \in Procs, PutManifest(p) PROVE ControlOK'
    BY <1>0, <1>3, ControlStep DEF Control, Locals, PutManifest, At
  <1>4. ASSUME NEW p \in Procs, PutSnapshot(p) PROVE ControlOK'
    <2>1. Len(snaps) + 1 # 0
      BY DEF TypeOK
    <2> QED
      BY <1>0, <1>4, <2>1, ControlStep DEF Control, Locals, PutSnapshot, At
  <1>5. ASSUME NEW p \in Procs, ResolveBranch(p) PROVE ControlOK'
    BY <1>0, <1>5, ControlStep, ControlStop DEF Control, Locals, ResolveBranch, At
  <1>6. ASSUME NEW p \in Procs, ResolvePrevious(p) PROVE ControlOK'
    BY <1>0, <1>6, ControlStep, ControlStop DEF Control, Locals, ResolvePrevious, At
  <1>7. ASSUME NEW p \in Procs, PutCommit(p) PROVE ControlOK'
    <2>1. Len(commits) + 1 # 0
      BY DEF TypeOK
    <2> QED
      BY <1>0, <1>7, <2>1, ControlStep DEF Control, Locals, PutCommit, At
  <1>8. ASSUME NEW p \in Procs, TruncateRef(p) PROVE ControlOK'
    BY <1>0, <1>8, ControlStep DEF Control, Locals, TruncateRef, At
  <1>9. ASSUME NEW p \in Procs, CreateRef(p) PROVE ControlOK'
    BY <1>0, <1>9, ControlStep, ControlStop DEF Control, Locals, CreateRef, At
  <1>10. ASSUME NEW p \in Procs, WriteRef(p) PROVE ControlOK'
    BY <1>0, <1>10, ControlStep, ControlStop DEF Control, Locals, WriteRef, At
  <1>11. ASSUME NEW p \in Procs, TruncateHead(p) \/ WriteHead(p) PROVE ControlOK'
    BY <1>0, <1>11, ControlStep, ControlStop
       DEF Control, Locals, TruncateHead, WriteHead, At
  <1>12. ASSUME NEW p \in Procs, Checkout(p) PROVE ControlOK'
    <2>1. PICK h : Step(p, [Idle EXCEPT !.cmd = "checkout", !.newHead = h], "headTrunc")
      BY <1>12 DEF Checkout
    <2> QED
      BY <1>a, <1>12, <2>1, ControlStep DEF Control, Locals, Checkout, Start
  <1>13. ASSUME NEW p \in Procs, BranchFrom(p) PROVE ControlOK'
    <2>1. PICK b \in Branches,
               c \in TypedIds \cup ({refs[x] : x \in Branches} \cup {HeadCommit}) :
            /\ c > 0
            /\ Step(p, [Idle EXCEPT !.cmd = "branch", !.branch = b, !.new = c],
                    "refCreate")
      BY <1>13 DEF BranchFrom
    <2>2. c # 0
      BY <2>1, TypedType, HeadCommitType DEF TypeOK, Torn, CommitIds
    <2> QED
      BY <1>a, <1>13, <2>1, <2>2, ControlStep DEF Control, Locals, BranchFrom, Start
  <1>14. ASSUME NEW p \in Procs, DeleteBranch(p) PROVE ControlOK'
    BY <1>a, <1>14, ControlStep DEF Control, Locals, DeleteBranch, Start
  <1>15. ASSUME NEW p \in Procs, Unlink(p) PROVE ControlOK'
    <2>1. \A q \in Procs : Control([proc[q] EXCEPT !.linked = FALSE])
      BY <1>0 DEF Control, Locals
    <2> QED
      BY <1>0, <1>15, <2>1, ControlIdle DEF Unlink, ControlOK
  <1>16. ASSUME NEW p \in Procs, StartMerge(p) PROVE ControlOK'
    BY <1>a, <1>16, ControlStep DEF Control, Locals, StartMerge, Start
  <1>17. ASSUME NEW p \in Procs, MergeOurs(p) PROVE ControlOK'
    <2>1. \A ours \in {HeadCommit, refs[proc[p].branch]} : ours > 0 => ours # 0
      BY <1>0, HeadCommitType DEF TypeOK, Locals, Torn, CommitIds
    <2> QED
      BY <1>0, <1>17, <2>1, ControlStep, ControlStop
         DEF Control, Locals, MergeOurs, At
  <1>18. ASSUME NEW p \in Procs, MergeTheirs(p) PROVE ControlOK'
    <2>1. \A c \in TypedIds \cup {refs[x] : x \in Branches} : c > 0 => c # 0
      BY TypedType DEF TypeOK, Torn, CommitIds
    <2> QED
      BY <1>0, <1>18, <2>1, ControlStep, ControlStop
         DEF Control, Locals, MergeTheirs, At
  <1>19. ASSUME NEW p \in Procs, ThreeWayMerge(p) PROVE ControlOK'
    <2>1. \/ \E m : Step(p, [proc[p] EXCEPT !.manifest = m], "manifest")
          \/ Step(p, [proc[p] EXCEPT !.new = proc[p].theirs], "refTrunc")
          \/ Stop(p)
      BY <1>19 DEF ThreeWayMerge
    <2>2. At(p, "mergeRows")
      BY <1>19 DEF ThreeWayMerge
    <2> QED
      BY <1>0, <2>1, <2>2, ControlStep, ControlStop DEF Control, Locals, At
  <1>20. ASSUME NEW p \in Procs, StartGc(p) PROVE ControlOK'
    BY <1>a, <1>20, ControlStep DEF Control, Locals, StartGc, Start, Idle
  <1>21. ASSUME NEW p \in Procs, GcReadRef(p) PROVE ControlOK'
    <2>1. \/ \E n, s : Step(p, [proc[p] EXCEPT !.names = n, !.seeds = s], "gcRefs")
          \/ Step(p, proc[p], "gcHead")
      BY <1>21 DEF GcReadRef
    <2> QED
      BY <1>0, <1>21, <2>1, ControlStep DEF Control, Locals, GcReadRef, At
  <1>22. ASSUME NEW p \in Procs, GcReadHead(p) PROVE ControlOK'
    <2>1. \/ \E s : Step(p, [proc[p] EXCEPT !.seeds = s], "gcMark")
          \/ Stop(p)
      BY <1>22 DEF GcReadHead
    <2> QED
      BY <1>0, <1>22, <2>1, ControlStep, ControlStop DEF Control, Locals, GcReadHead, At
  <1>23. ASSUME NEW p \in Procs, GcMark(p) PROVE ControlOK'
    <2>1. \/ \E m, n : Step(p, [proc[p] EXCEPT !.mark = m, !.pending = n], "gcSweep")
          \/ Stop(p)
      BY <1>23 DEF GcMark
    <2> QED
      BY <1>0, <1>23, <2>1, ControlStep, ControlStop DEF Control, Locals, GcMark, At
  <1>24. ASSUME NEW p \in Procs, GcSweep(p) PROVE ControlOK'
    BY <1>24 DEF GcSweep, ControlOK
  <1>25. ASSUME NEW p \in Procs, GcDone(p) \/ MergeDryRun(p) \/ Crash(p)
         PROVE ControlOK'
    BY <1>25, ControlStop DEF GcDone, MergeDryRun, Crash
  <1> QED
    BY <1>1, <1>2, <1>3, <1>4, <1>5, <1>6, <1>7, <1>8, <1>9, <1>10, <1>11, <1>12,
       <1>13, <1>14, <1>15, <1>16, <1>17, <1>18, <1>19, <1>20, <1>21, <1>22,
       <1>23, <1>24, <1>25 DEF Next

LEMMA TypeNext ==
  ASSUME TypeOK, ControlOK, Next
  PROVE  TypeOK'
  <1>1. ASSUME NEW p \in Procs, PutCommit(p) PROVE TypeOK'
    BY <1>1, TypePutCommit DEF ControlOK, Control, PutCommit, At
  <1>2. ASSUME NEW p \in Procs, ThreeWayMerge(p) PROVE TypeOK'
    BY <1>2, TypeMerge DEF ControlOK, Control, ThreeWayMerge, At
  <1> QED
    BY <1>1, <1>2, TypeAnalyze, TypePutSnapshot, TypeRefs, TypeHead, TypeBranches,
       TypeMerge, TypeGc, TypeCrash DEF Next

\* Every variable keeps its type: no ref, HEAD or list of parents ever holds an
\* id that was never written, whatever dies or runs at the same time.
THEOREM TypeCorrect == Spec => []TypeOK
  <1>1. Init => TypeOK /\ ControlOK
    BY InitType, ControlIdle DEF Init, ControlOK
  <1>2. TypeOK /\ ControlOK /\ [Next]_vars => (TypeOK /\ ControlOK)'
    <2> SUFFICES ASSUME TypeOK, ControlOK, [Next]_vars
                 PROVE  (TypeOK /\ ControlOK)'
      OBVIOUS
    <2>1. CASE Next
      BY <2>1, TypeNext, ControlNext
    <2>2. CASE UNCHANGED vars
      <3>1. ControlOK'
        BY <2>2 DEF vars, ControlOK
      <3>2. TypeOK'
        BY <2>2, LocalStep DEF vars, TypeOK, ObjectsUnchanged, FilesUnchanged
      <3> QED
        BY <3>1, <3>2
    <2> QED
      BY <2>1, <2>2
  <1> QED
    BY <1>1, <1>2, PTL DEF Spec

-----------------------------------------------------------------------------
(* Reach(S) is the least set of commits that holds S and is closed under     *)
(* parents: all that is needed of reachability, without induction.           *)

LEMMA ReachContains ==
  ASSUME NEW S, S \subseteq DOMAIN commits
  PROVE  S \subseteq Reach(S)
  BY DEF Reach, Reachable

LEMMA ReachLeast ==
  ASSUME NEW S, NEW T \in SUBSET DOMAIN commits, S \subseteq T,
         ParentClosed(commits, T)
  PROVE  Reach(S) \subseteq T
  BY DEF Reach, Reachable

LEMMA ReachClosed ==
  ASSUME TypeOK, NEW S
  PROVE  ParentClosed(commits, Reach(S))
  <1> SUFFICES ASSUME NEW c \in Reach(S), NEW d \in ParentsOf(commits, c)
               PROVE  d \in Reach(S)
    BY DEF ParentClosed
  <1>1. c \in DOMAIN commits
    BY ReachType
  <1>2. d \in DOMAIN commits
    BY <1>1, CommitDomain, ObjectTypes DEF ParentsOf
  <1>3. ASSUME NEW T \in SUBSET DOMAIN commits, S \subseteq T,
               ParentClosed(commits, T)
        PROVE  d \in T
    BY <1>1, <1>3 DEF Reach, Reachable, ParentClosed
  <1> QED
    BY <1>2, <1>3 DEF Reach, Reachable

LEMMA ReachMonotone ==
  ASSUME TypeOK, NEW S, NEW R, S \subseteq Reach(R)
  PROVE  Reach(S) \subseteq Reach(R)
  BY ReachLeast, ReachClosed, ReachType

-----------------------------------------------------------------------------
(* What a process has put on disk so far, and what never shrinks *)

Written(l, disk, says) ==
  /\ l.pc = "rows" => RowsOf(l.manifest) \subseteq disk.row \cup l.rows
  /\ l.pc \in {"manifest", "snapshot", "branch", "prev", "commit"}
       => RowsOf(l.manifest) \subseteq disk.row
  /\ l.pc \in {"snapshot", "branch", "prev", "commit"}
       => l.manifest \in disk.manifest
  /\ l.pc \in {"branch", "prev", "commit"}
       => l.snap \in disk.snapshot /\ says[l.snap] = l.manifest

WrittenOK == \A p \in Procs : Written(proc[p], store, snaps)

\* Objects are only added, and what they say does not change.
Grows ==
  /\ store.row \subseteq store'.row /\ store.manifest \subseteq store'.manifest
  /\ store.snapshot \subseteq store'.snapshot /\ store.commit \subseteq store'.commit
  /\ CommitIds \subseteq CommitIds' /\ \A c \in CommitIds : commits'[c] = commits[c]
  /\ SnapIds \subseteq SnapIds' /\ \A s \in SnapIds : snaps'[s] = snaps[s]

LEMMA SameGrows ==
  ASSUME ObjectsUnchanged
  PROVE  Grows
  BY DEF ObjectsUnchanged, Grows, CommitIds, SnapIds

LEMMA NextGrows ==
  ASSUME TypeOK, NEW p \in Procs,
         \/ PutRow(p) \/ PutManifest(p) \/ PutSnapshot(p) \/ PutCommit(p)
  PROVE  Grows
  <1> USE DEF Grows, CommitIds, SnapIds
  <1>0. store \in Stores /\ Len(snaps) \in Nat /\ Len(commits) \in Nat
    BY DEF TypeOK
  <1>1. CASE PutRow(p)
    BY <1>0, <1>1 DEF PutRow, Stores
  <1>2. CASE PutManifest(p)
    BY <1>0, <1>2 DEF PutManifest, Stores
  <1>3. CASE PutSnapshot(p)
    <2>1. snaps' = Append(snaps, proc[p].manifest) /\ commits' = commits
      BY <1>3 DEF PutSnapshot
    <2>2. Len(snaps') = Len(snaps) + 1 /\ \A s \in 1..Len(snaps) : snaps'[s] = snaps[s]
      BY <2>1 DEF TypeOK
    <2> QED
      BY <1>0, <1>3, <2>1, <2>2 DEF PutSnapshot, Stores
  <1>4. CASE PutCommit(p)
    <2>1. PICK r : commits' = Append(commits, r)
      BY <1>4 DEF PutCommit
    <2>2. /\ Len(commits') = Len(commits) + 1
          /\ \A c \in 1..Len(commits) : commits'[c] = commits[c]
      BY <2>1 DEF TypeOK
    <2> QED
      BY <1>0, <1>4, <2>2 DEF PutCommit, Stores
  <1> QED
    BY <1>1, <1>2, <1>3, <1>4

LEMMA IntactGrows ==
  ASSUME TypeOK, Grows, NEW c \in CommitIds, Intact(c)
  PROVE  Intact(c)'
  <1>1. commits'[c] = commits[c] /\ commits[c].snapshot \in SnapIds
    BY ObjectTypes DEF Grows
  <1>2. snaps'[commits[c].snapshot] = snaps[commits[c].snapshot]
    BY <1>1 DEF Grows
  <1> QED
    BY <1>1, <1>2 DEF Intact, Grows

LEMMA WrittenGrows ==
  ASSUME Grows, NEW l \in Locals, Control(l), Written(l, store, snaps)
  PROVE  Written(l, store', snaps')
  <1>1. l.pc \in {"branch", "prev", "commit"} => snaps'[l.snap] = snaps[l.snap]
    BY DEF Locals, Control, Grows
  <1> QED
    BY <1>1 DEF Written, Grows

WritingPCs == {"rows", "manifest", "snapshot", "branch", "prev", "commit"}

LEMMA WrittenStep ==
  ASSUME TypeOK, ControlOK, WrittenOK, Grows, NEW p \in Procs, NEW l,
         proc' = [proc EXCEPT ![p] = l], Written(l, store', snaps')
  PROVE  WrittenOK'
  <1>1. ASSUME NEW q \in Procs, q # p PROVE Written(proc'[q], store', snaps')
    <2>1. /\ proc'[q] = proc[q] /\ proc[q] \in Locals /\ Control(proc[q])
          /\ Written(proc[q], store, snaps)
      BY <1>1 DEF TypeOK, ControlOK, WrittenOK
    <2> QED
      BY <2>1, WrittenGrows
  <1>2. proc'[p] = l
    BY DEF TypeOK
  <1> QED
    BY <1>1, <1>2 DEF WrittenOK

\* A process that is not writing objects has none to account for.
LEMMA WrittenElsewhere ==
  ASSUME TypeOK, ControlOK, WrittenOK, Grows, NEW p \in Procs, NEW l,
         proc' = [proc EXCEPT ![p] = l], l.pc \notin WritingPCs
  PROVE  WrittenOK'
  <1>1. ASSUME NEW q \in Procs, q # p PROVE Written(proc'[q], store', snaps')
    <2>1. /\ proc'[q] = proc[q] /\ proc[q] \in Locals /\ Control(proc[q])
          /\ Written(proc[q], store, snaps)
      BY <1>1 DEF TypeOK, ControlOK, WrittenOK
    <2> QED
      BY <2>1, WrittenGrows
  <1>2. proc'[p] = l
    BY DEF TypeOK
  <1>3. Written(l, store', snaps')
    BY DEF Written, WritingPCs
  <1> QED
    BY <1>1, <1>2, <1>3 DEF WrittenOK

LEMMA MergedRows ==
  ASSUME NEW base, NEW ours \in Manifests, NEW theirs \in Manifests
  PROVE  RowsOf(MergeManifests(base, ours, theirs))
           \subseteq RowsOf(ours) \cup RowsOf(theirs)
  BY DEF RowsOf, MergeManifests, MergeRow, Manifests

\* Steps of a process that writes objects.
LEMMA WrittenObjects ==
  ASSUME TypeOK, ControlOK, WrittenOK, TypeOK', NEW p \in Procs,
         \/ StartAnalyze(p) \/ PutRow(p) \/ PutManifest(p) \/ PutSnapshot(p)
         \/ ResolveBranch(p) \/ ResolvePrevious(p)
  PROVE  WrittenOK'
  <1>0. /\ proc[p] \in Locals /\ Idle \in Locals /\ Written(proc[p], store, snaps)
        /\ store \in Stores /\ proc'[p] \in Locals' /\ Grows
    BY IdleType, NextGrows, SameGrows
       DEF TypeOK, WrittenOK, StartAnalyze, ResolveBranch, ResolvePrevious
  <1>1. CASE StartAnalyze(p)
    <2>1. PICK g \in Manifests :
            Step(p, [Idle EXCEPT !.cmd = "analyze", !.manifest = g,
                                 !.rows = RowsOf(g)], "rows")
      BY <1>1 DEF StartAnalyze
    <2>2. /\ proc'[p].pc = "rows" /\ proc'[p].manifest = g
          /\ proc'[p].rows = RowsOf(g) /\ proc' = [proc EXCEPT ![p] = proc'[p]]
      BY <1>0, <2>1 DEF Step, TypeOK, Locals
    <2>3. Written(proc'[p], store', snaps')
      BY <2>2 DEF Written
    <2> QED
      BY <1>0, <2>2, <2>3, WrittenStep
  <1>2. CASE PutRow(p)
    <2>1. CASE \E r \in proc[p].rows :
                 /\ store' = [store EXCEPT !.row = @ \cup {r}]
                 /\ Step(p, [proc[p] EXCEPT !.rows = @ \ {r}], "rows")
      <3>1. PICK r \in proc[p].rows :
                 /\ store' = [store EXCEPT !.row = @ \cup {r}]
                 /\ Step(p, [proc[p] EXCEPT !.rows = @ \ {r}], "rows")
        BY <2>1
      <3>2. /\ proc'[p].pc = "rows" /\ proc'[p].manifest = proc[p].manifest
            /\ proc'[p].rows = proc[p].rows \ {r} /\ store'.row = store.row \cup {r}
            /\ proc' = [proc EXCEPT ![p] = proc'[p]]
        BY <1>0, <3>1 DEF Step, TypeOK, Locals, Stores
      <3>3. Written(proc'[p], store', snaps')
        BY <1>0, <1>2, <3>2 DEF Written, PutRow, At
      <3> QED
        BY <1>0, <3>2, <3>3, WrittenStep
    <2>2. CASE proc[p].rows = {} /\ UNCHANGED store /\ Step(p, proc[p], "manifest")
      <3>1. /\ proc'[p].pc = "manifest" /\ proc'[p].manifest = proc[p].manifest
            /\ proc' = [proc EXCEPT ![p] = proc'[p]]
        BY <1>0, <2>2 DEF Step, TypeOK, Locals
      <3>2. Written(proc'[p], store', snaps')
        BY <1>0, <1>2, <2>2, <3>1 DEF Written, PutRow, At
      <3> QED
        BY <1>0, <3>1, <3>2, WrittenStep
    <2> QED
      BY <1>2, <2>1, <2>2 DEF PutRow
  <1>3. CASE PutManifest(p)
    <2>1. /\ proc'[p].pc = "snapshot" /\ proc'[p].manifest = proc[p].manifest
          /\ proc' = [proc EXCEPT ![p] = proc'[p]] /\ store'.row = store.row
          /\ proc[p].manifest \in store'.manifest
      BY <1>0, <1>3 DEF PutManifest, Step, TypeOK, Locals, Stores
    <2>2. Written(proc'[p], store', snaps')
      BY <1>0, <1>3, <2>1 DEF Written, PutManifest, At
    <2> QED
      BY <1>0, <2>1, <2>2, WrittenStep
  <1>4. CASE PutSnapshot(p)
    <2> DEFINE s == Len(snaps) + 1
    <2>1. /\ proc'[p].pc \in {"commit", "branch"} /\ proc'[p].snap = s
          /\ proc'[p].manifest = proc[p].manifest
          /\ proc' = [proc EXCEPT ![p] = proc'[p]]
      BY <1>0, <1>4 DEF PutSnapshot, Step, TypeOK, Locals
    <2>2. /\ store'.row = store.row /\ store'.manifest = store.manifest
          /\ s \in store'.snapshot
      BY <1>0, <1>4 DEF PutSnapshot, Stores
    <2>3. snaps'[s] = proc[p].manifest
      BY <1>0, <1>4 DEF PutSnapshot, TypeOK, Locals
    <2>4. Written(proc'[p], store', snaps')
      BY <1>0, <1>4, <2>1, <2>2, <2>3 DEF Written, PutSnapshot, At
    <2> QED
      BY <1>0, <2>1, <2>4, WrittenStep
  <1>5. CASE ResolveBranch(p) \/ ResolvePrevious(p)
    <2>1. CASE Stop(p)
      BY <1>0, <2>1, WrittenElsewhere DEF Stop, Idle, WritingPCs
    <2>2. CASE ~Stop(p)
      <3>1. /\ proc'[p].pc \in {"prev", "commit"} /\ proc'[p].snap = proc[p].snap
            /\ proc'[p].manifest = proc[p].manifest
            /\ proc' = [proc EXCEPT ![p] = proc'[p]]
        <4> DEFINE b == IF head.kind = "branch" THEN head.branch ELSE Main
        <4>1. \/ Step(p, [proc[p] EXCEPT !.branch = b], "prev")
              \/ Step(p, [proc[p] EXCEPT !.prev = HeadCommit], "commit")
          BY <1>5, <2>2 DEF ResolveBranch, ResolvePrevious
        <4> HIDE DEF b
        <4>2. CASE Step(p, [proc[p] EXCEPT !.branch = b], "prev")
          BY <1>0, <4>2 DEF Step, TypeOK, Locals
        <4>3. CASE Step(p, [proc[p] EXCEPT !.prev = HeadCommit], "commit")
          BY <1>0, <4>3 DEF Step, TypeOK, Locals
        <4> QED
          BY <4>1, <4>2, <4>3
      <3>2. store' = store /\ snaps' = snaps
        BY <1>5 DEF ResolveBranch, ResolvePrevious, ObjectsUnchanged
      <3>3. Written(proc'[p], store', snaps')
        BY <1>0, <1>5, <3>1, <3>2 DEF Written, ResolveBranch, ResolvePrevious, At
      <3> QED
        BY <1>0, <3>1, <3>3, WrittenStep
    <2> QED
      BY <2>1, <2>2
  <1> QED
    BY <1>1, <1>2, <1>3, <1>4, <1>5

LEMMA WrittenMerge ==
  ASSUME TypeOK, ControlOK, WrittenOK, TypeOK', NEW p \in Procs, ThreeWayMerge(p),
         Intact(proc[p].prev), Intact(proc[p].theirs)
  PROVE  WrittenOK'
  <1> DEFINE manifest == [c \in CommitIds |-> ManifestOf(c)]
             ours == proc[p].prev
             theirs == proc[p].theirs
             m == Merged(commits, manifest, ours, theirs)
  <1>0. /\ proc[p] \in Locals /\ Idle \in Locals /\ proc'[p] \in Locals' /\ Grows
        /\ store' = store
    BY IdleType, SameGrows DEF TypeOK, ThreeWayMerge, ObjectsUnchanged
  <1>1. ours \in CommitIds /\ theirs \in CommitIds
    BY <1>0 DEF ThreeWayMerge, ControlOK, Control, At, Locals
  <1>2. /\ manifest[ours] \in Manifests /\ RowsOf(manifest[ours]) \subseteq store.row
        /\ manifest[theirs] \in Manifests /\ RowsOf(manifest[theirs]) \subseteq store.row
    BY <1>1, ManifestOfType DEF Intact, ManifestOf
  <1>3. RowsOf(m) \subseteq store.row
    BY <1>2, MergedRows DEF Merged
  <1>4. \/ Step(p, [proc[p] EXCEPT !.manifest = m], "manifest")
        \/ Step(p, [proc[p] EXCEPT !.new = theirs], "refTrunc")
        \/ Stop(p)
    BY DEF ThreeWayMerge
  <1>5. CASE Step(p, [proc[p] EXCEPT !.manifest = m], "manifest")
    <2>1. /\ proc'[p].pc = "manifest" /\ proc'[p].manifest = m
          /\ proc' = [proc EXCEPT ![p] = proc'[p]]
      <3> HIDE DEF m
      <3> QED
        BY <1>0, <1>5 DEF Step, TypeOK, Locals
    <2>2. Written(proc'[p], store', snaps')
      BY <1>0, <1>3, <2>1 DEF Written
    <2> QED
      BY <1>0, <2>1, <2>2, WrittenStep
  <1>6. CASE Step(p, [proc[p] EXCEPT !.new = theirs], "refTrunc") \/ Stop(p)
    <2>1. proc'[p].pc \notin WritingPCs /\ proc' = [proc EXCEPT ![p] = proc'[p]]
      <3>1. CASE Stop(p)
        BY <1>0, <3>1 DEF Stop, TypeOK, Idle, WritingPCs
      <3>2. CASE Step(p, [proc[p] EXCEPT !.new = theirs], "refTrunc")
        BY <1>0, <3>2 DEF Step, TypeOK, Locals, WritingPCs
      <3> QED
        BY <1>6, <3>1, <3>2
    <2> QED
      BY <1>0, <2>1, WrittenElsewhere
  <1> QED
    BY <1>4, <1>5, <1>6

\* The pcs a process can be at after a step other than the ones above.
LEMMA ElsewherePC ==
  ASSUME TypeOK, NEW p \in Procs,
         \/ PutCommit(p) \/ TruncateRef(p) \/ CreateRef(p) \/ WriteRef(p)
         \/ TruncateHead(p) \/ WriteHead(p) \/ Checkout(p) \/ BranchFrom(p)
         \/ DeleteBranch(p) \/ StartMerge(p) \/ MergeOurs(p) \/ MergeTheirs(p)
         \/ StartGc(p) \/ GcReadRef(p) \/ GcReadHead(p) \/ GcMark(p) \/ GcDone(p)
         \/ MergeDryRun(p) \/ Crash(p)
  PROVE  \E l : proc' = [proc EXCEPT ![p] = l] /\ l.pc \notin WritingPCs
  <1> USE DEF WritingPCs
  <1>0. proc[p] \in Locals /\ Idle \in Locals
    BY IdleType DEF TypeOK
  <1>1. CASE Stop(p)
    <2>1. Idle.pc \notin WritingPCs
      BY DEF Idle
    <2> QED
      BY <1>1, <2>1 DEF Stop
  <1>2. ASSUME NEW l, NEW pc, Step(p, l, pc), pc \notin WritingPCs,
               [l EXCEPT !.pc = pc].pc = pc
        PROVE  \E k : proc' = [proc EXCEPT ![p] = k] /\ k.pc \notin WritingPCs
    BY <1>2 DEF Step
  <1>3. CASE PutCommit(p) \/ TruncateRef(p) \/ CreateRef(p)
    BY <1>0, <1>1, <1>2, <1>3 DEF PutCommit, TruncateRef, CreateRef, Locals
  <1>4. CASE WriteRef(p) \/ TruncateHead(p) \/ WriteHead(p)
    BY <1>0, <1>1, <1>2, <1>4 DEF WriteRef, TruncateHead, WriteHead, Locals
  <1>5. CASE Checkout(p)
    <2>1. PICK h : Step(p, [Idle EXCEPT !.cmd = "checkout", !.newHead = h], "headTrunc")
      BY <1>5 DEF Checkout
    <2> QED
      BY <1>0, <1>2, <2>1 DEF Locals
  <1>6. CASE BranchFrom(p)
    <2>1. PICK b, c : Step(p, [Idle EXCEPT !.cmd = "branch", !.branch = b, !.new = c],
                           "refCreate")
      BY <1>6 DEF BranchFrom
    <2> QED
      BY <1>0, <1>2, <2>1 DEF Locals
  <1>7. CASE DeleteBranch(p)
    BY <1>0, <1>2, <1>7 DEF DeleteBranch, Locals
  <1>8. CASE StartMerge(p) \/ MergeOurs(p)
    <2>1. CASE StartMerge(p)
      <3>1. PICK b :
              \/ Step(p, [Idle EXCEPT !.cmd = "merge", !.branch = b], "mergeOurs")
              \/ Step(p, [Idle EXCEPT !.cmd = "merge", !.branch = b], "mergeInto")
        BY <2>1 DEF StartMerge
      <3> QED
        BY <1>0, <1>2, <3>1 DEF Locals
    <2>2. CASE MergeOurs(p)
      <3>1. \/ \E o : Step(p, [proc[p] EXCEPT !.prev = o], "mergeTheirs")
            \/ Stop(p)
        BY <2>2 DEF MergeOurs
      <3> QED
        BY <1>0, <1>1, <1>2, <3>1 DEF Locals
    <2> QED
      BY <1>8, <2>1, <2>2
  <1>9. CASE MergeTheirs(p)
    BY <1>0, <1>1, <1>2, <1>9 DEF MergeTheirs, Locals
  <1>10. CASE StartGc(p)
    BY <1>0, <1>2, <1>10 DEF StartGc, Locals
  <1>11. CASE GcReadRef(p)
    <2>1. \/ \E n, s : Step(p, [proc[p] EXCEPT !.names = n, !.seeds = s], "gcRefs")
          \/ Step(p, proc[p], "gcHead")
      BY <1>11 DEF GcReadRef
    <2>2. ASSUME NEW n, NEW s,
                 Step(p, [proc[p] EXCEPT !.names = n, !.seeds = s], "gcRefs")
          PROVE  \E l : proc' = [proc EXCEPT ![p] = l] /\ l.pc \notin WritingPCs
      BY <1>0, <1>2, <2>2 DEF Locals
    <2>3. CASE Step(p, proc[p], "gcHead")
      BY <1>0, <1>2, <2>3 DEF Locals
    <2> QED
      BY <2>1, <2>2, <2>3
  <1>12. CASE GcReadHead(p)
    <2>1. \/ \E s : Step(p, [proc[p] EXCEPT !.seeds = s], "gcMark")
          \/ Stop(p)
      BY <1>12 DEF GcReadHead
    <2> QED
      BY <1>0, <1>1, <1>2, <2>1 DEF Locals
  <1>13. CASE GcMark(p)
    <2>1. \/ \E m, n : Step(p, [proc[p] EXCEPT !.mark = m, !.pending = n], "gcSweep")
          \/ Stop(p)
      BY <1>13 DEF GcMark
    <2>2. ASSUME NEW m, NEW n,
                 Step(p, [proc[p] EXCEPT !.mark = m, !.pending = n], "gcSweep")
          PROVE  \E l : proc' = [proc EXCEPT ![p] = l] /\ l.pc \notin WritingPCs
      BY <1>0, <1>2, <2>2 DEF Locals
    <2> QED
      BY <1>1, <2>1, <2>2
  <1>14. CASE GcDone(p) \/ MergeDryRun(p) \/ Crash(p)
    BY <1>1, <1>14 DEF GcDone, MergeDryRun, Crash
  <1> QED
    BY <1>3, <1>4, <1>5, <1>6, <1>7, <1>8, <1>9, <1>10, <1>11, <1>12, <1>13, <1>14

LEMMA WrittenUnlink ==
  ASSUME TypeOK, WrittenOK, NEW p \in Procs, Unlink(p)
  PROVE  WrittenOK'
  <1>1. ASSUME NEW q \in Procs PROVE Written(proc'[q], store, snaps)
    <2>1. proc[q] \in Locals /\ Written(proc[q], store, snaps)
      BY DEF TypeOK, WrittenOK
    <2>2. Written([proc[q] EXCEPT !.linked = FALSE], store, snaps)
      BY <2>1 DEF Written, Locals
    <2>3. Written(Idle, store, snaps)
      BY DEF Written, Idle
    <2> QED
      BY <2>1, <2>2, <2>3 DEF Unlink
  <1> QED
    BY <1>1 DEF WrittenOK, Unlink, ObjectsUnchanged

\* Whatever a step other than a sweep does, what the processes have put so far
\* is on disk after it, and no object is gone.
LEMMA WrittenNext ==
  ASSUME TypeOK, ControlOK, WrittenOK, TypeOK', NEW p \in Procs, Next,
         \A q \in Procs : ~GcSweep(q),
         \A q \in Procs : At(q, "mergeRows")
                            => Intact(proc[q].prev) /\ Intact(proc[q].theirs)
  PROVE  WrittenOK' /\ Grows
  <1>1. Grows
    BY NextGrows, SameGrows
       DEF Next, StartAnalyze, ResolveBranch, ResolvePrevious, TruncateRef, CreateRef,
           WriteRef, TruncateHead, WriteHead, Checkout, BranchFrom, DeleteBranch,
           Unlink, StartMerge, MergeOurs, MergeTheirs, ThreeWayMerge, StartGc,
           GcReadRef, GcReadHead, GcMark, GcDone, MergeDryRun, Crash
  <1>2. ASSUME NEW q \in Procs, ThreeWayMerge(q) PROVE WrittenOK'
    BY <1>2, WrittenMerge DEF ThreeWayMerge
  <1> QED
    BY <1>1, <1>2, WrittenObjects, WrittenUnlink, ElsewherePC, WrittenElsewhere DEF Next

\* A commit is complete on disk as soon as it is written.
LEMMA NewCommitIntact ==
  ASSUME TypeOK, ControlOK, WrittenOK, NEW p \in Procs, PutCommit(p),
         NEW c, c = Len(commits) + 1
  PROVE  Intact(c)'
  <1>1. proc[p] \in Locals /\ Control(proc[p]) /\ Written(proc[p], store, snaps)
    BY DEF TypeOK, ControlOK, WrittenOK
  <1>2. commits'[c].snapshot = proc[p].snap
    BY DEF PutCommit, TypeOK
  <1>3. /\ store'.row = store.row /\ store'.manifest = store.manifest
        /\ store'.snapshot = store.snapshot /\ c \in store'.commit /\ snaps' = snaps
    BY DEF PutCommit, TypeOK, Stores
  <1> QED
    BY <1>1, <1>2, <1>3 DEF Intact, Written, PutCommit, At

-----------------------------------------------------------------------------
(* Without gc: any number of processes at the same time, any commit typed *)

AllIntact == \A c \in CommitIds : Intact(c)

LEMMA AllIntactNext ==
  ASSUME "gc" \notin Commands, TypeOK, ControlOK, WrittenOK, TypeOK', AllIntact, Next
  PROVE  WrittenOK' /\ AllIntact'
  <1>1. \A q \in Procs : ~GcSweep(q)
    BY DEF GcSweep, At, ControlOK, Control, GcPCs
  <1>2. \A q \in Procs : At(q, "mergeRows")
                           => Intact(proc[q].prev) /\ Intact(proc[q].theirs)
    BY DEF TypeOK, Locals, ControlOK, Control, At, AllIntact
  <1>3. WrittenOK' /\ Grows
    BY <1>1, <1>2, WrittenNext DEF Next
  <1>4. ASSUME NEW c \in CommitIds PROVE Intact(c)'
    BY <1>3, IntactGrows DEF AllIntact
  <1>5. ASSUME NEW p \in Procs, PutCommit(p), NEW c \in CommitIds', c \notin CommitIds
        PROVE  Intact(c)'
    <2>1. c = Len(commits) + 1
      BY <1>5 DEF PutCommit, CommitIds, TypeOK
    <2> QED
      BY <1>5, <2>1, NewCommitIntact
  <1>6. ASSUME \A p \in Procs : ~PutCommit(p)
        PROVE  CommitIds' = CommitIds
    BY <1>1, <1>6
       DEF Next, StartAnalyze, PutRow, PutManifest, PutSnapshot, ResolveBranch,
           ResolvePrevious, TruncateRef, CreateRef, WriteRef, TruncateHead, WriteHead,
           Checkout, BranchFrom, DeleteBranch, Unlink, StartMerge, MergeOurs,
           MergeTheirs, ThreeWayMerge, StartGc, GcReadRef, GcReadHead, GcMark, GcDone,
           MergeDryRun, Crash, ObjectsUnchanged, CommitIds
  <1> QED
    BY <1>3, <1>4, <1>5, <1>6 DEF AllIntact

LEMMA HeadsType == TypeOK => Heads \subseteq CommitIds
  <1> SUFFICES ASSUME TypeOK PROVE Heads \subseteq CommitIds
    OBVIOUS
  <1>1. head.kind = "detached" => head.commit \in CommitIds
    BY DEF TypeOK, HeadStates, Unborn, TornHead, OnBranch, Detached
  <1>2. \A b \in Branches : refs[b] > 0 => refs[b] \in CommitIds
    BY DEF TypeOK, Absent, Torn
  <1> QED
    BY <1>1, <1>2 DEF Heads

\* As long as nobody runs gc, everything the refs lead to is on disk, however
\* many processes analyze, merge, create and delete branches at the same time
\* and wherever they die.
THEOREM RefsClosedWithoutGc ==
  ASSUME "gc" \notin Commands
  PROVE  Spec => []RefsClosed
  <1> DEFINE Inv == TypeOK /\ ControlOK /\ WrittenOK /\ AllIntact
  <1>1. Init => Inv
    <2> SUFFICES ASSUME Init PROVE Inv
      OBVIOUS
    <2>1. WrittenOK
      BY DEF Init, WrittenOK, Written, Idle
    <2>2. AllIntact
      BY DEF Init, AllIntact, CommitIds
    <2> QED
      BY <2>1, <2>2, InitType, ControlIdle DEF Init, ControlOK
  <1>2. Inv /\ [Next]_vars => Inv'
    <2> SUFFICES ASSUME Inv, [Next]_vars PROVE Inv'
      OBVIOUS
    <2>1. CASE Next
      BY <2>1, TypeNext, ControlNext, AllIntactNext
    <2>2. CASE UNCHANGED vars
      <3>1. TypeOK'
        BY <2>2, LocalStep DEF vars, TypeOK, ObjectsUnchanged, FilesUnchanged
      <3>2. ControlOK' /\ WrittenOK' /\ AllIntact'
        BY <2>2 DEF vars, ControlOK, WrittenOK, AllIntact, Intact, CommitIds
      <3> QED
        BY <3>1, <3>2
    <2> QED
      BY <2>1, <2>2
  <1>3. Inv => RefsClosed
    BY ReachType, CommitDomain DEF AllIntact, RefsClosed
  <1> QED
    BY <1>1, <1>2, <1>3, PTL DEF Spec

-----------------------------------------------------------------------------
(* What the running command holds, and how far a collection has got *)

\* The commits a process carries in its locals and may still put into a ref,
\* into HEAD or into the parents of a commit.
Carried(l) ==
  ({l.prev, l.theirs, l.new}
   \cup (IF l.newHead.kind = "detached" THEN {l.newHead.commit} ELSE {})) \ {Absent}

Roots == Heads \cup UNION {Carried(proc[p]) : p \in Procs}

\* Everything the refs and the running command lead to is on disk.
RootsClosed == \A c \in Reach(Roots) : Intact(c)

OneAtATime == \A p, q \in Procs : ~At(p, "idle") /\ ~At(q, "idle") => p = q

\* A process between two commands has no locals.
IdleOK == \A p \in Procs : At(p, "idle") => proc[p] = Idle

\* Commit c and all that belongs to it is marked.
Covered(c, mark) ==
  /\ c \in mark.commit
  /\ commits[c].snapshot \in mark.snapshot
  /\ ManifestOf(c) \in mark.manifest
  /\ RowsOf(ManifestOf(c)) \subseteq mark.row

\* How far the collector has got.
Collected(l) ==
  /\ l.pc = "gcRefs"
       => \A b \in Branches \ l.names : refs[b] > 0 => refs[b] \in l.seeds
  /\ l.pc = "gcHead" => \A b \in Branches : refs[b] > 0 => refs[b] \in l.seeds
  /\ l.pc = "gcMark" => Heads \subseteq l.seeds
  /\ l.pc = "gcSweep" => \A c \in Reach(Heads) : Covered(c, l.mark)

GcOK == \A p \in Procs : Collected(proc[p])

LEMMA CarriedType ==
  ASSUME TypeOK, NEW p \in Procs
  PROVE  Carried(proc[p]) \subseteq CommitIds
  <1>1. proc[p] \in Locals
    BY DEF TypeOK
  <1>2. \A h \in HeadStates : h.kind = "detached" => h.commit \in CommitIds
    BY DEF HeadStates, Unborn, TornHead, OnBranch, Detached
  <1>3. proc[p].newHead \in HeadStates
    BY <1>1 DEF Locals
  <1>4. /\ proc[p].prev \in CommitIds \cup {Absent}
        /\ proc[p].theirs \in CommitIds \cup {Absent}
        /\ proc[p].new \in CommitIds \cup {Absent}
    BY <1>1 DEF Locals
  <1> QED
    BY <1>2, <1>3, <1>4 DEF Carried

LEMMA RootsType == TypeOK => Roots \subseteq DOMAIN commits
  BY HeadsType, CarriedType, CommitDomain DEF Roots

LEMMA RootsReached ==
  ASSUME TypeOK
  PROVE  /\ Roots \subseteq Reach(Roots) /\ Heads \subseteq Reach(Roots)
         /\ Reach(Heads) \subseteq Reach(Roots)
         /\ \A p \in Procs : Carried(proc[p]) \subseteq Reach(Roots)
  <1>1. Roots \subseteq Reach(Roots)
    BY RootsType, ReachContains
  <1>2. Heads \subseteq Roots /\ \A p \in Procs : Carried(proc[p]) \subseteq Roots
    BY DEF Roots
  <1> QED
    BY <1>1, <1>2, ReachMonotone

\* A step that keeps all objects and adds no root beyond what was reachable.
LEMMA RootsStep ==
  ASSUME TypeOK, RootsClosed, Grows, UNCHANGED commits, Roots' \subseteq Reach(Roots)
  PROVE  RootsClosed'
  <1>1. Reach(Roots)' = Reachable(commits, Roots')
    BY DEF Reach
  <1>2. Reachable(commits, Roots') \subseteq Reach(Roots)
    BY ReachMonotone DEF Reach
  <1>3. ASSUME NEW c \in Reach(Roots) PROVE Intact(c)'
    BY <1>3, ReachType, CommitDomain, IntactGrows DEF RootsClosed
  <1> QED
    BY <1>1, <1>2, <1>3 DEF RootsClosed

LEMMA CarriedIdle == Carried(Idle) = {}
  BY DEF Carried, Idle, Unborn

\* ... in particular one that changes the locals of one process.
LEMMA RootsLocal ==
  ASSUME TypeOK, NEW p \in Procs, NEW l, proc' = [proc EXCEPT ![p] = l],
         Carried(l) \subseteq Reach(Roots), Heads' \subseteq Reach(Roots)
  PROVE  Roots' \subseteq Reach(Roots)
  <1>1. \A q \in Procs : Carried(proc'[q]) \subseteq Reach(Roots)
    BY RootsReached DEF TypeOK
  <1> QED
    BY <1>1 DEF Roots

\* Carried depends on four fields only.
LEMMA CarriedSame ==
  ASSUME NEW l, NEW k, l.prev = k.prev, l.theirs = k.theirs, l.new = k.new,
         l.newHead = k.newHead
  PROVE  Carried(l) = Carried(k)
  BY DEF Carried

LEMMA TypedReached ==
  ASSUME TypeOK, Typed # "any"
  PROVE  TypedIds \subseteq Reach(Roots)
  BY RootsReached, GraphStoreConstants DEF TypedIds

LEMMA RefReached ==
  ASSUME TypeOK
  PROVE  /\ \A b \in Branches : refs[b] > 0 => refs[b] \in Reach(Roots)
         /\ HeadCommit > 0 => HeadCommit \in Reach(Roots)
  <1>1. \A b \in Branches : refs[b] > 0 => refs[b] \in Heads
    BY DEF Heads
  <1>2. HeadCommit > 0 => HeadCommit \in Heads
    <2>1. CASE head.kind = "branch"
      <3>1. head.branch \in Branches
        BY <2>1 DEF TypeOK, HeadStates, Unborn, TornHead, OnBranch, Detached
      <3> QED
        BY <1>1, <2>1, <3>1 DEF HeadCommit
    <2>2. CASE head.kind = "detached"
      BY <2>2 DEF HeadCommit, Heads
    <2>3. CASE head.kind \in {"unborn", "torn"}
      BY <2>3 DEF HeadCommit, Absent, Torn
    <2> QED
      BY <2>1, <2>2, <2>3 DEF TypeOK, HeadStates, Unborn, TornHead, OnBranch, Detached
  <1> QED
    BY <1>1, <1>2, RootsReached

\* A process goes on with locals that carry nothing new, refs and HEAD stay.
LEMMA RootsQuiet ==
  ASSUME TypeOK, NEW p \in Procs, FilesUnchanged, NEW l, NEW pc, Step(p, l, pc),
         Carried([l EXCEPT !.pc = pc]) \subseteq Reach(Roots)
  PROVE  Roots' \subseteq Reach(Roots)
  <1>1. Heads' = Heads
    BY DEF Heads, FilesUnchanged
  <1> QED
    BY <1>1, RootsLocal, RootsReached DEF Step

LEMMA RootsStop ==
  ASSUME TypeOK, NEW p \in Procs, Stop(p), Heads' \subseteq Reach(Roots)
  PROVE  Roots' \subseteq Reach(Roots)
  BY RootsLocal, CarriedIdle DEF Stop

LEMMA RootsAnalyze ==
  ASSUME TypeOK, NEW p \in Procs,
         \/ StartAnalyze(p) \/ PutRow(p) \/ PutManifest(p) \/ PutSnapshot(p)
         \/ ResolveBranch(p) \/ ResolvePrevious(p)
  PROVE  Roots' \subseteq Reach(Roots)
  <1>0. /\ proc[p] \in Locals /\ Idle \in Locals /\ FilesUnchanged /\ Heads' = Heads
        /\ Heads \subseteq Reach(Roots) /\ Carried(proc[p]) \subseteq Reach(Roots)
    BY IdleType, RootsReached
       DEF TypeOK, Heads, FilesUnchanged, StartAnalyze, PutRow, PutManifest,
           PutSnapshot, ResolveBranch, ResolvePrevious
  <1>1. CASE Stop(p)
    BY <1>0, <1>1, RootsStop
  <1>2. ASSUME NEW l, NEW pc, Step(p, l, pc),
               \/ Carried([l EXCEPT !.pc = pc]) = Carried(proc[p])
               \/ Carried([l EXCEPT !.pc = pc]) = Carried(Idle)
        PROVE  Roots' \subseteq Reach(Roots)
    BY <1>0, <1>2, CarriedIdle, RootsQuiet
  <1>3. CASE StartAnalyze(p)
    <2>1. PICK g : Step(p, [Idle EXCEPT !.cmd = "analyze", !.manifest = g,
                                        !.rows = RowsOf(g)], "rows")
      BY <1>3 DEF StartAnalyze
    <2> DEFINE l == [Idle EXCEPT !.cmd = "analyze", !.manifest = g, !.rows = RowsOf(g)]
    <2>2. Carried([l EXCEPT !.pc = "rows"]) = Carried(Idle)
      BY <1>0, CarriedSame DEF Locals
    <2> QED
      BY <1>2, <2>1, <2>2
  <1>4. CASE PutRow(p)
    <2>1. ASSUME NEW r, Step(p, [proc[p] EXCEPT !.rows = @ \ {r}], "rows")
          PROVE  Roots' \subseteq Reach(Roots)
      <3> DEFINE l == [proc[p] EXCEPT !.rows = @ \ {r}]
      <3>1. Carried([l EXCEPT !.pc = "rows"]) = Carried(proc[p])
        BY <1>0, CarriedSame DEF Locals
      <3> QED
        BY <1>2, <2>1, <3>1
    <2>2. CASE Step(p, proc[p], "manifest")
      <3>1. Carried([proc[p] EXCEPT !.pc = "manifest"]) = Carried(proc[p])
        BY <1>0, CarriedSame DEF Locals
      <3> QED
        BY <1>2, <2>2, <3>1
    <2> QED
      BY <1>4, <2>1, <2>2 DEF PutRow
  <1>5. CASE PutManifest(p)
    <2>1. Carried([proc[p] EXCEPT !.pc = "snapshot"]) = Carried(proc[p])
      BY <1>0, CarriedSame DEF Locals
    <2> QED
      BY <1>2, <1>5, <2>1 DEF PutManifest
  <1>6. CASE PutSnapshot(p)
    <2> DEFINE l == [proc[p] EXCEPT !.snap = Len(snaps) + 1]
    <2>1. \A pc : Carried([l EXCEPT !.pc = pc]) = Carried(proc[p])
      BY <1>0, CarriedSame DEF Locals
    <2>2. \E pc : Step(p, l, pc)
      BY <1>6 DEF PutSnapshot
    <2> QED
      BY <1>2, <2>1, <2>2
  <1>7. CASE ResolveBranch(p)
    <2>1. ASSUME NEW b, Step(p, [proc[p] EXCEPT !.branch = b], "prev")
          PROVE  Roots' \subseteq Reach(Roots)
      <3> DEFINE l == [proc[p] EXCEPT !.branch = b]
      <3>1. Carried([l EXCEPT !.pc = "prev"]) = Carried(proc[p])
        BY <1>0, CarriedSame DEF Locals
      <3> QED
        BY <1>2, <2>1, <3>1
    <2> QED
      BY <1>1, <1>7, <2>1 DEF ResolveBranch
  <1>8. CASE ResolvePrevious(p)
    <2> DEFINE l == [proc[p] EXCEPT !.prev = HeadCommit]
    <2>1. CASE Step(p, l, "commit") /\ HeadCommit # Torn
      <3>1. HeadCommit = Absent \/ HeadCommit \in Reach(Roots)
        BY <2>1, HeadCommitType, RefReached DEF CommitIds, Absent, Torn
      <3>2. Carried([l EXCEPT !.pc = "commit"]) \subseteq Reach(Roots)
        BY <1>0, <3>1 DEF Locals, Carried
      <3> QED
        BY <1>0, <2>1, <3>2, RootsQuiet
    <2> QED
      BY <1>1, <1>8, <2>1 DEF ResolvePrevious
  <1> QED
    BY <1>3, <1>4, <1>5, <1>6, <1>7, <1>8

\* What a step may leave behind in the locals of its process.
LEMMA RootsKept ==
  ASSUME TypeOK, NEW p \in Procs, NEW l, NEW k, NEW S \in SUBSET Reach(Roots),
         proc' = [proc EXCEPT ![p] = l], Heads' \subseteq Reach(Roots),
         k \in {proc[p], Idle}, Carried(l) \subseteq Carried(k) \cup S
  PROVE  Roots' \subseteq Reach(Roots)
  <1>1. Carried(l) \subseteq Reach(Roots)
    BY RootsReached, CarriedIdle
  <1> QED
    BY <1>1, RootsLocal

LEMMA HeadsOfRefs ==
  ASSUME TypeOK, NEW p \in Procs, UNCHANGED head, NEW r,
         \/ refs' = refs
         \/ refs' = [refs EXCEPT ![proc[p].branch] = r],
         r > 0 => r \in Reach(Roots)
  PROVE  Heads' \subseteq Reach(Roots)
  <1>1. \A b \in Branches : refs'[b] = refs[b] \/ refs'[b] = r
    BY DEF TypeOK
  <1>2. \A b \in Branches : refs'[b] > 0 => refs'[b] \in Reach(Roots)
    BY <1>1, RefReached
  <1>3. head.kind = "detached" => head.commit \in Reach(Roots)
    BY RootsReached DEF Heads
  <1> QED
    BY <1>2, <1>3 DEF Heads

\* Refs and HEAD change to what the process carries.
LEMMA RootsFiles ==
  ASSUME TypeOK, ControlOK, NEW p \in Procs,
         \/ TruncateRef(p) \/ CreateRef(p) \/ WriteRef(p)
         \/ TruncateHead(p) \/ WriteHead(p)
  PROVE  Roots' \subseteq Reach(Roots)
  <1>0. /\ proc[p] \in Locals /\ Idle \in Locals /\ Control(proc[p])
        /\ Heads \subseteq Reach(Roots) /\ Carried(proc[p]) \subseteq Reach(Roots)
    BY IdleType, RootsReached DEF TypeOK, ControlOK
  <1>1. CASE TruncateRef(p) \/ CreateRef(p)
    <2>1. Heads' \subseteq Reach(Roots)
      BY <1>1, HeadsOfRefs DEF TruncateRef, CreateRef, Torn
    <2>2. CASE Stop(p)
      BY <2>1, <2>2, RootsStop
    <2>3. CASE Step(p, proc[p], "refWrite")
      <3>1. Carried([proc[p] EXCEPT !.pc = "refWrite"]) = Carried(proc[p])
        BY <1>0, CarriedSame DEF Locals
      <3> QED
        BY <2>1, <2>3, <3>1, RootsKept DEF Step
    <2> QED
      BY <1>1, <2>2, <2>3 DEF TruncateRef, CreateRef
  <1>2. CASE WriteRef(p)
    <2>1. proc[p].new \in Reach(Roots)
      BY <1>0, <1>2 DEF WriteRef, At, Control, Carried
    <2>2. Heads' \subseteq Reach(Roots)
      BY <1>2, <2>1, HeadsOfRefs DEF WriteRef
    <2>3. CASE Stop(p)
      BY <2>2, <2>3, RootsStop
    <2> DEFINE l == [proc[p] EXCEPT !.newHead = OnBranch(proc[p].branch)]
               k == [l EXCEPT !.pc = "headTrunc"]
    <2>4. CASE Step(p, l, "headTrunc")
      <3>1. /\ k.prev = proc[p].prev /\ k.theirs = proc[p].theirs
            /\ k.new = proc[p].new /\ k.newHead = OnBranch(proc[p].branch)
        BY <1>0 DEF Locals
      <3>2. Carried(k) \subseteq Carried(proc[p])
        <4> HIDE DEF k
        <4> QED
          BY <3>1 DEF Carried, OnBranch
      <3>3. proc' = [proc EXCEPT ![p] = k]
        BY <2>4 DEF Step
      <3> HIDE DEF k
      <3> QED
        BY <2>2, <3>2, <3>3, RootsKept
    <2> QED
      BY <1>2, <2>3, <2>4 DEF WriteRef
  <1>3. CASE TruncateHead(p)
    <2>1. Heads' \subseteq Reach(Roots)
      BY <1>0, <1>3 DEF TruncateHead, Heads, TornHead
    <2>2. Carried([proc[p] EXCEPT !.pc = "headWrite"]) = Carried(proc[p])
      BY <1>0, CarriedSame DEF Locals
    <2> QED
      BY <1>3, <2>1, <2>2, RootsKept DEF TruncateHead, Step
  <1>4. CASE WriteHead(p)
    <2>1. proc[p].newHead.kind = "detached"
            => proc[p].newHead.commit \in Reach(Roots)
      <3>1. \A h \in HeadStates : h.kind = "detached" => h.commit # Absent
        BY DEF HeadStates, Unborn, TornHead, OnBranch, Detached, CommitIds, Absent
      <3> QED
        BY <1>0, <3>1 DEF Carried, Locals
    <2>2. Heads' \subseteq Reach(Roots)
      BY <1>0, <1>4, <2>1 DEF WriteHead, Heads
    <2> QED
      BY <1>4, <2>2, RootsStop DEF WriteHead
  <1> QED
    BY <1>1, <1>2, <1>3, <1>4

LEMMA RootsUnlink ==
  ASSUME TypeOK, NEW p \in Procs, Unlink(p)
  PROVE  Roots' \subseteq Reach(Roots)
  <1>1. Heads' \subseteq Reach(Roots)
    <2>1. UNCHANGED head /\ refs' = [refs EXCEPT ![proc[p].branch] = Absent]
      BY DEF Unlink
    <2>2. Absent > 0 => Absent \in Reach(Roots)
      BY DEF Absent
    <2> QED
      BY <2>1, <2>2, HeadsOfRefs
  <1>2. ASSUME NEW q \in Procs PROVE Carried(proc'[q]) \subseteq Reach(Roots)
    <2>1. proc[q] \in Locals /\ Carried(proc[q]) \subseteq Reach(Roots)
      BY RootsReached DEF TypeOK
    <2>2. Carried([proc[q] EXCEPT !.linked = FALSE]) = Carried(proc[q])
      BY <2>1, CarriedSame DEF Locals
    <2>3. \/ proc'[q] = Idle \/ proc'[q] = proc[q]
          \/ proc'[q] = [proc[q] EXCEPT !.linked = FALSE]
      BY DEF Unlink
    <2> QED
      BY <2>1, <2>2, <2>3, CarriedIdle
  <1> QED
    BY <1>1, <1>2 DEF Roots

\* Commands that start: what they carry is typed, or read from a ref or HEAD.
LEMMA RootsCommands ==
  ASSUME TypeOK, Typed # "any", NEW p \in Procs,
         \/ Checkout(p) \/ BranchFrom(p) \/ DeleteBranch(p) \/ StartMerge(p)
         \/ StartGc(p)
  PROVE  Roots' \subseteq Reach(Roots)
  <1>0. /\ Idle \in Locals /\ FilesUnchanged /\ Heads' \subseteq Reach(Roots)
    BY IdleType, RootsReached
       DEF Heads, FilesUnchanged, Checkout, BranchFrom, DeleteBranch, StartMerge,
           StartGc
  <1>1. ASSUME NEW k, proc' = [proc EXCEPT ![p] = k], k.prev = Absent,
               k.theirs = Absent, k.new \in Reach(Roots) \cup {Absent},
               k.newHead.kind = "detached" => k.newHead.commit \in Reach(Roots)
        PROVE  Roots' \subseteq Reach(Roots)
    <2>1. Carried(k) \subseteq Reach(Roots)
      BY <1>1 DEF Carried
    <2> QED
      BY <1>0, <1>1, <2>1, RootsLocal
  <1>2. CASE Checkout(p)
    <2>1. PICK h : /\ Step(p, [Idle EXCEPT !.cmd = "checkout", !.newHead = h],
                           "headTrunc")
                   /\ h.kind = "detached" => h.commit \in Reach(Roots)
      <3>1. ASSUME NEW c \in TypedIds
            PROVE  Detached(c).kind = "detached" => Detached(c).commit \in Reach(Roots)
        BY <3>1, TypedReached DEF Detached
      <3>2. \A b : OnBranch(b).kind # "detached"
        BY DEF OnBranch
      <3> DEFINE To(h) == Step(p, [Idle EXCEPT !.cmd = "checkout", !.newHead = h],
                               "headTrunc")
      <3>3. (\E b \in Branches : To(OnBranch(b))) \/ \E c \in TypedIds : To(Detached(c))
        BY <1>2 DEF Checkout
      <3> HIDE DEF To
      <3>4. \E h : To(h) /\ (h.kind = "detached" => h.commit \in Reach(Roots))
        BY <3>1, <3>2, <3>3
      <3> QED
        BY <3>4 DEF To
    <2> DEFINE k == [[Idle EXCEPT !.cmd = "checkout", !.newHead = h]
                      EXCEPT !.pc = "headTrunc"]
    <2>2. /\ k.prev = Absent /\ k.theirs = Absent /\ k.new = Absent /\ k.newHead = h
      BY DEF Idle
    <2>3. proc' = [proc EXCEPT ![p] = k]
      BY <2>1 DEF Step
    <2> HIDE DEF k
    <2> QED
      BY <1>1, <2>1, <2>2, <2>3
  <1>3. CASE BranchFrom(p)
    <2>1. PICK b \in Branches,
               c \in TypedIds \cup ({refs[x] : x \in Branches} \cup {HeadCommit}) :
            /\ c > 0
            /\ Step(p, [Idle EXCEPT !.cmd = "branch", !.branch = b, !.new = c],
                    "refCreate")
      BY <1>3 DEF BranchFrom
    <2>2. c \in Reach(Roots)
      BY <2>1, TypedReached, RefReached
    <2> DEFINE k == [[Idle EXCEPT !.cmd = "branch", !.branch = b, !.new = c]
                      EXCEPT !.pc = "refCreate"]
    <2>3. /\ k.prev = Absent /\ k.theirs = Absent /\ k.new = c
          /\ k.newHead.kind # "detached"
      BY DEF Idle, Unborn
    <2>4. proc' = [proc EXCEPT ![p] = k]
      BY <2>1 DEF Step
    <2> HIDE DEF k
    <2> QED
      BY <1>1, <2>2, <2>3, <2>4
  <1>4. CASE DeleteBranch(p)
    <2>1. PICK b : Step(p, [Idle EXCEPT !.cmd = "delete", !.branch = b], "unlink")
      BY <1>4 DEF DeleteBranch
    <2> DEFINE k == [[Idle EXCEPT !.cmd = "delete", !.branch = b] EXCEPT !.pc = "unlink"]
    <2>2. /\ k.prev = Absent /\ k.theirs = Absent /\ k.new = Absent
          /\ k.newHead.kind # "detached"
      BY DEF Idle, Unborn
    <2>3. proc' = [proc EXCEPT ![p] = k]
      BY <2>1 DEF Step
    <2> HIDE DEF k
    <2> QED
      BY <1>1, <2>2, <2>3
  <1>5. CASE StartMerge(p)
    <2>0. PICK b, pc : Step(p, [Idle EXCEPT !.cmd = "merge", !.branch = b], pc)
      BY <1>5 DEF StartMerge
    <2> DEFINE k == [[Idle EXCEPT !.cmd = "merge", !.branch = b] EXCEPT !.pc = pc]
    <2>1. /\ k.prev = Absent /\ k.theirs = Absent /\ k.new = Absent
          /\ k.newHead.kind # "detached"
      BY DEF Idle, Unborn
    <2>2. proc' = [proc EXCEPT ![p] = k]
      BY <2>0 DEF Step
    <2> HIDE DEF k
    <2> QED
      BY <1>1, <2>1, <2>2
  <1>6. CASE StartGc(p)
    <2> DEFINE k == [[Idle EXCEPT !.cmd = "gc", !.names = Listed]
                      EXCEPT !.pc = "gcRefs"]
    <2>1. /\ k.prev = Absent /\ k.theirs = Absent /\ k.new = Absent
          /\ k.newHead.kind # "detached"
      BY DEF Idle, Unborn
    <2>2. proc' = [proc EXCEPT ![p] = k]
      BY <1>6 DEF StartGc, Step
    <2> HIDE DEF k
    <2> QED
      BY <1>1, <2>1, <2>2
  <1> QED
    BY <1>2, <1>3, <1>4, <1>5, <1>6

\* A merge takes its parents from HEAD and from what the user names.
LEMMA RootsMerge ==
  ASSUME TypeOK, ControlOK, Typed # "any", NEW p \in Procs,
         MergeOurs(p) \/ MergeTheirs(p) \/ ThreeWayMerge(p)
  PROVE  Roots' \subseteq Reach(Roots)
  <1>0. /\ proc[p] \in Locals /\ Control(proc[p]) /\ FilesUnchanged
        /\ Heads' \subseteq Reach(Roots) /\ Carried(proc[p]) \subseteq Reach(Roots)
    BY RootsReached
       DEF TypeOK, ControlOK, Heads, FilesUnchanged, MergeOurs, MergeTheirs,
           ThreeWayMerge
  <1>1. CASE Stop(p)
    BY <1>0, <1>1, RootsStop
  <1>2. CASE MergeOurs(p) /\ ~Stop(p)
    <2>0. PICK ours \in {HeadCommit, refs[proc[p].branch]} :
            ours > 0 /\ Step(p, [proc[p] EXCEPT !.prev = ours], "mergeTheirs")
      BY <1>2 DEF MergeOurs
    <2>1. ours \in Reach(Roots)
      BY <1>0, <2>0, RefReached DEF Locals
    <2> DEFINE k == [[proc[p] EXCEPT !.prev = ours] EXCEPT !.pc = "mergeTheirs"]
    <2>2. /\ k.prev = ours /\ k.theirs = proc[p].theirs
          /\ k.new = proc[p].new /\ k.newHead = proc[p].newHead
      BY <1>0 DEF Locals
    <2>3. proc' = [proc EXCEPT ![p] = k]
      BY <2>0 DEF Step
    <2> HIDE DEF k
    <2>4. Carried(k) \subseteq Reach(Roots)
      BY <1>0, <2>1, <2>2 DEF Carried
    <2> QED
      BY <1>0, <2>3, <2>4, RootsLocal
  <1>3. CASE MergeTheirs(p) /\ ~Stop(p)
    <2>1. PICK c \in TypedIds \cup {refs[x] : x \in Branches} :
            c > 0 /\ Step(p, [proc[p] EXCEPT !.theirs = c], "mergeRows")
      BY <1>3 DEF MergeTheirs
    <2>2. c \in Reach(Roots)
      BY <2>1, TypedReached, RefReached
    <2> DEFINE k == [[proc[p] EXCEPT !.theirs = c] EXCEPT !.pc = "mergeRows"]
    <2>3. /\ k.prev = proc[p].prev /\ k.theirs = c
          /\ k.new = proc[p].new /\ k.newHead = proc[p].newHead
      BY <1>0 DEF Locals
    <2>4. proc' = [proc EXCEPT ![p] = k]
      BY <2>1 DEF Step
    <2> HIDE DEF k
    <2>5. Carried(k) \subseteq Reach(Roots)
      BY <1>0, <2>2, <2>3 DEF Carried
    <2> QED
      BY <1>0, <2>4, <2>5, RootsLocal
  <1>4. CASE ThreeWayMerge(p) /\ ~Stop(p)
    <2>1. \/ \E m : Step(p, [proc[p] EXCEPT !.manifest = m], "manifest")
          \/ Step(p, [proc[p] EXCEPT !.new = proc[p].theirs], "refTrunc")
      BY <1>4 DEF ThreeWayMerge
    <2>2. ASSUME NEW m, Step(p, [proc[p] EXCEPT !.manifest = m], "manifest")
          PROVE  Roots' \subseteq Reach(Roots)
      <3> DEFINE l == [proc[p] EXCEPT !.manifest = m]
      <3>1. Carried([l EXCEPT !.pc = "manifest"]) = Carried(proc[p])
        BY <1>0, CarriedSame DEF Locals
      <3> QED
        BY <1>0, <2>2, <3>1, RootsQuiet
    <2>3. CASE Step(p, [proc[p] EXCEPT !.new = proc[p].theirs], "refTrunc")
      <3> DEFINE k == [[proc[p] EXCEPT !.new = proc[p].theirs] EXCEPT !.pc = "refTrunc"]
      <3>1. /\ k.prev = proc[p].prev /\ k.theirs = proc[p].theirs
            /\ k.new = proc[p].theirs /\ k.newHead = proc[p].newHead
        BY <1>0 DEF Locals
      <3>2. proc' = [proc EXCEPT ![p] = k]
        BY <2>3 DEF Step
      <3> HIDE DEF k
      <3>3. Carried(k) \subseteq Carried(proc[p])
        BY <3>1 DEF Carried
      <3> QED
        BY <1>0, <3>2, <3>3, RootsLocal
    <2> QED
      BY <2>1, <2>2, <2>3
  <1> QED
    BY <1>1, <1>2, <1>3, <1>4

LEMMA RootsGc ==
  ASSUME TypeOK, NEW p \in Procs,
         \/ GcReadRef(p) \/ GcReadHead(p) \/ GcMark(p) \/ GcDone(p)
         \/ MergeDryRun(p) \/ Crash(p)
  PROVE  Roots' \subseteq Reach(Roots)
  <1>0. /\ proc[p] \in Locals /\ FilesUnchanged /\ Heads' \subseteq Reach(Roots)
        /\ Carried(proc[p]) \subseteq Reach(Roots)
    BY RootsReached DEF TypeOK, Heads, FilesUnchanged, GcReadRef, GcReadHead, GcMark,
                        GcDone, MergeDryRun, Crash
  <1>1. CASE Stop(p)
    BY <1>0, <1>1, RootsStop
  <1>2. CASE ~Stop(p)
    <2>1. PICK n, s, m, w, pc :
            proc' = [proc EXCEPT ![p] = [proc[p] EXCEPT !.names = n, !.seeds = s,
                                           !.mark = m, !.pending = w, !.pc = pc]]
      <3>1. CASE GcReadRef(p)
        <4>1. \/ \E n, s : Step(p, [proc[p] EXCEPT !.names = n, !.seeds = s], "gcRefs")
              \/ Step(p, proc[p], "gcHead")
          BY <3>1 DEF GcReadRef
        <4>2. CASE \E n, s : Step(p, [proc[p] EXCEPT !.names = n, !.seeds = s], "gcRefs")
          <5>1. PICK n, s : Step(p, [proc[p] EXCEPT !.names = n, !.seeds = s], "gcRefs")
            BY <4>2
          <5>2. proc' = [proc EXCEPT ![p] =
                        [proc[p] EXCEPT !.names = n, !.seeds = s,
                           !.mark = proc[p].mark, !.pending = proc[p].pending,
                           !.pc = "gcRefs"]]
            BY <1>0, <5>1 DEF Step, Locals
          <5> QED
            BY <5>2
        <4>3. CASE Step(p, proc[p], "gcHead")
          <5>1. proc' = [proc EXCEPT ![p] =
                        [proc[p] EXCEPT !.names = proc[p].names, !.seeds = proc[p].seeds,
                           !.mark = proc[p].mark, !.pending = proc[p].pending,
                           !.pc = "gcHead"]]
            BY <1>0, <4>3 DEF Step, Locals
          <5> QED
            BY <5>1
        <4> QED
          BY <4>1, <4>2, <4>3
      <3>2. CASE GcReadHead(p)
        <4>1. PICK s : Step(p, [proc[p] EXCEPT !.seeds = s], "gcMark")
          BY <1>2, <3>2 DEF GcReadHead
        <4>2. proc' = [proc EXCEPT ![p] =
                        [proc[p] EXCEPT !.names = proc[p].names, !.seeds = s,
                           !.mark = proc[p].mark, !.pending = proc[p].pending,
                           !.pc = "gcMark"]]
          BY <1>0, <4>1 DEF Step, Locals
        <4> QED
          BY <4>2
      <3>3. CASE GcMark(p)
        <4>1. PICK m, w : Step(p, [proc[p] EXCEPT !.mark = m, !.pending = w], "gcSweep")
          BY <1>2, <3>3 DEF GcMark
        <4>2. proc' = [proc EXCEPT ![p] =
                        [proc[p] EXCEPT !.names = proc[p].names, !.seeds = proc[p].seeds,
                           !.mark = m, !.pending = w, !.pc = "gcSweep"]]
          BY <1>0, <4>1 DEF Step, Locals
        <4> QED
          BY <4>2
      <3> QED
        BY <1>2, <3>1, <3>2, <3>3 DEF GcDone, MergeDryRun, Crash
    <2> DEFINE k == [proc[p] EXCEPT !.names = n, !.seeds = s, !.mark = m,
                                    !.pending = w, !.pc = pc]
    <2>2. Carried(k) = Carried(proc[p])
      BY <1>0, CarriedSame DEF Locals
    <2> QED
      BY <1>0, <2>1, <2>2, RootsLocal
  <1> QED
    BY <1>1, <1>2

\* A step that is neither a commit nor a deletion adds no root.
LEMMA RootsNext ==
  ASSUME TypeOK, ControlOK, Typed # "any", Next,
         \A p \in Procs : ~PutCommit(p) /\ ~GcSweep(p)
  PROVE  Roots' \subseteq Reach(Roots)
  BY RootsAnalyze, RootsFiles, RootsUnlink, RootsCommands, RootsMerge, RootsGc
     DEF Next

\* The new commit, the roots and what they lead to are closed under parents.
LEMMA RootsCommit ==
  ASSUME TypeOK, TypeOK', ControlOK, WrittenOK, RootsClosed, NEW p \in Procs,
         PutCommit(p)
  PROVE  RootsClosed'
  <1> DEFINE c == Len(commits) + 1
             T == Reach(Roots) \cup {c}
  <1>0. /\ proc[p] \in Locals /\ Control(proc[p]) /\ Grows
        /\ Reach(Roots) \subseteq CommitIds /\ Carried(proc[p]) \subseteq Reach(Roots)
        /\ proc[p].pc = "commit"
    BY NextGrows, ReachType, CommitDomain, RootsReached
       DEF TypeOK, ControlOK, PutCommit, At
  <1>1. CommitIds' = CommitIds \cup {c} /\ c \notin CommitIds
    BY DEF PutCommit, CommitIds, TypeOK
  <1>2. T \subseteq DOMAIN commits'
    <2>1. DOMAIN commits' = CommitIds'
      BY DEF TypeOK, CommitIds
    <2> QED
      BY <1>0, <1>1, <2>1
  <1>3. Roots' \subseteq T
    <2>1. proc' = [proc EXCEPT ![p] = [[proc[p] EXCEPT !.new = c] EXCEPT !.pc = "refTrunc"]]
      BY DEF PutCommit, Step
    <2> DEFINE k == [[proc[p] EXCEPT !.new = c] EXCEPT !.pc = "refTrunc"]
    <2>2. /\ k.prev = proc[p].prev /\ k.theirs = proc[p].theirs /\ k.new = c
          /\ k.newHead = proc[p].newHead
      BY <1>0 DEF Locals
    <2>3. proc' = [proc EXCEPT ![p] = k]
      BY <2>1
    <2> HIDE DEF k, c
    <2>4. Carried(k) \subseteq Carried(proc[p]) \cup {c}
      BY <2>2 DEF Carried
    <2>5. \A q \in Procs : Carried(proc'[q]) \subseteq T
      BY <1>0, <2>3, <2>4, RootsReached DEF TypeOK
    <2>6. Heads' \subseteq T
      BY RootsReached DEF Heads, PutCommit, FilesUnchanged
    <2> QED
      BY <2>5, <2>6 DEF Roots
  <1>4. ParentsOf(commits', c) \subseteq Reach(Roots)
    <2> DEFINE parents == (IF proc[p].prev = Absent THEN <<>> ELSE <<proc[p].prev>>)
                   \o (IF proc[p].cmd = "merge" THEN <<proc[p].theirs>> ELSE <<>>)
    <2>1. commits'[c].parents = parents
      BY DEF PutCommit, TypeOK
    <2>2. proc[p].prev \in Reach(Roots) \cup {Absent}
      BY <1>0 DEF Carried
    <2>3. proc[p].cmd = "merge" => proc[p].theirs \in Reach(Roots)
      BY <1>0 DEF Carried, Control
    <2>4. \A i \in DOMAIN parents : parents[i] \in Reach(Roots)
      BY <2>2, <2>3
    <2> QED
      BY <2>1, <2>4 DEF ParentsOf
  <1>5. ASSUME NEW d \in Reach(Roots) PROVE ParentsOf(commits', d) \subseteq Reach(Roots)
    <2>1. commits'[d] = commits[d] /\ d \in DOMAIN commits
      BY <1>0, ReachType DEF Grows
    <2>2. ParentsOf(commits, d) \subseteq Reach(Roots)
      BY <2>1, ReachClosed DEF ParentClosed
    <2> QED
      BY <2>1, <2>2 DEF ParentsOf
  <1>6. ParentClosed(commits', T)
    BY <1>4, <1>5 DEF ParentClosed
  <1>7. Reachable(commits', Roots') \subseteq T
    BY <1>2, <1>3, <1>6 DEF Reachable
  <1>8. \A d \in T : Intact(d)'
    BY <1>0, IntactGrows, NewCommitIntact DEF RootsClosed
  <1> QED
    BY <1>7, <1>8 DEF RootsClosed, Reach

\* While a collection runs alone, the roots are the heads.
LEMMA RootsAlone ==
  ASSUME TypeOK, ControlOK, OneAtATime, NEW p \in Procs, proc[p].pc \in GcPCs,
         IdleOK
  PROVE  Roots = Heads
  <1>1. Carried(proc[p]) = {}
    BY DEF ControlOK, Control, Carried, Unborn
  <1>2. ASSUME NEW q \in Procs, q # p PROVE Carried(proc[q]) = {}
    <2>1. At(q, "idle")
      BY <1>2 DEF OneAtATime, At, GcPCs
    <2> QED
      BY <2>1, CarriedIdle DEF IdleOK
  <1> QED
    BY <1>1, <1>2 DEF Roots

\* A deletion takes nothing that is marked, and all that matters is marked.
LEMMA RootsSweep ==
  ASSUME TypeOK, ControlOK, OneAtATime, IdleOK, GcOK, RootsClosed,
         NEW p \in Procs, GcSweep(p)
  PROVE  RootsClosed'
  <1>1. proc[p].pc = "gcSweep" /\ Roots = Heads
    BY RootsAlone DEF GcSweep, At, GcPCs
  <1>2. ASSUME NEW c \in Reach(Heads) PROVE Intact(c)'
    <2>1. Intact(c) /\ Covered(c, proc[p].mark)
      BY <1>1, <1>2 DEF RootsClosed, GcOK, Collected
    <2>2. /\ store.row \cap proc[p].mark.row \subseteq store'.row
          /\ store.manifest \cap proc[p].mark.manifest \subseteq store'.manifest
          /\ store.snapshot \cap proc[p].mark.snapshot \subseteq store'.snapshot
          /\ store.commit \cap proc[p].mark.commit \subseteq store'.commit
      BY DEF GcSweep, Minus, TypeOK, Stores
    <2> QED
      BY <2>1, <2>2 DEF Intact, Covered, ManifestOf, GcSweep
  <1>3. Reach(Roots)' = Reach(Heads)
    BY <1>1 DEF GcSweep, FilesUnchanged, Roots, Heads, Reach
  <1> QED
    BY <1>2, <1>3 DEF RootsClosed

\* Process p alone changes its locals, and l is what they become.
Moves(p, l) == proc' = [proc EXCEPT ![p] = l] /\ (l = Idle \/ l.pc # "idle")

\* Outside a collection a process never gets to one.
LEMMA MovesElsewhere ==
  ASSUME TypeOK, NEW p \in Procs,
         \/ StartAnalyze(p) \/ PutRow(p) \/ PutManifest(p) \/ PutSnapshot(p)
         \/ ResolveBranch(p) \/ ResolvePrevious(p) \/ PutCommit(p)
         \/ TruncateRef(p) \/ CreateRef(p) \/ WriteRef(p)
         \/ TruncateHead(p) \/ WriteHead(p) \/ Checkout(p) \/ BranchFrom(p)
         \/ DeleteBranch(p) \/ StartMerge(p) \/ MergeOurs(p) \/ MergeTheirs(p)
         \/ ThreeWayMerge(p) \/ MergeDryRun(p) \/ Crash(p)
  PROVE  \E l : Moves(p, l) /\ l.pc \notin GcPCs
  <1> USE DEF GcPCs
  <1>0. proc[p] \in Locals /\ Idle \in Locals
    BY IdleType DEF TypeOK
  <1>1. CASE Stop(p)
    <2>1. Idle.pc \notin GcPCs
      BY DEF Idle
    <2> QED
      BY <1>1, <2>1 DEF Stop, Moves
  <1>2. ASSUME NEW l, NEW pc, Step(p, l, pc), pc \notin GcPCs, pc # "idle",
               [l EXCEPT !.pc = pc].pc = pc
        PROVE  \E k : Moves(p, k) /\ k.pc \notin GcPCs
    BY <1>2 DEF Step, Moves
  <1>3. CASE StartAnalyze(p)
    <2>1. PICK g : Step(p, [Idle EXCEPT !.cmd = "analyze", !.manifest = g,
                                        !.rows = RowsOf(g)], "rows")
      BY <1>3 DEF StartAnalyze
    <2> QED
      BY <1>0, <1>2, <2>1 DEF Locals
  <1>4. CASE PutRow(p)
    <2>1. CASE \E r : Step(p, [proc[p] EXCEPT !.rows = @ \ {r}], "rows")
      BY <1>0, <1>2, <2>1 DEF Locals
    <2>2. CASE Step(p, proc[p], "manifest")
      BY <1>0, <1>2, <2>2 DEF Locals
    <2> QED
      BY <1>4, <2>1, <2>2 DEF PutRow
  <1>5. CASE PutManifest(p)
    BY <1>0, <1>2, <1>5 DEF PutManifest, Locals
  <1>6. CASE PutSnapshot(p)
    <2>1. PICK pc \in {"commit", "branch"} :
            Step(p, [proc[p] EXCEPT !.snap = Len(snaps) + 1], pc)
      BY <1>6 DEF PutSnapshot
    <2> QED
      BY <1>0, <1>2, <2>1 DEF Locals
  <1>7. CASE ResolveBranch(p)
    BY <1>0, <1>1, <1>2, <1>7 DEF ResolveBranch, Locals
  <1>8. CASE ResolvePrevious(p) \/ MergeOurs(p)
    <2>1. \/ \E o : Step(p, [proc[p] EXCEPT !.prev = o], "commit")
          \/ \E o : Step(p, [proc[p] EXCEPT !.prev = o], "mergeTheirs")
          \/ Stop(p)
      BY <1>8 DEF ResolvePrevious, MergeOurs
    <2>2. ASSUME NEW o, Step(p, [proc[p] EXCEPT !.prev = o], "commit")
          PROVE  \E l : Moves(p, l) /\ l.pc \notin GcPCs
      BY <1>0, <1>2, <2>2 DEF Locals
    <2>3. ASSUME NEW o, Step(p, [proc[p] EXCEPT !.prev = o], "mergeTheirs")
          PROVE  \E l : Moves(p, l) /\ l.pc \notin GcPCs
      BY <1>0, <1>2, <2>3 DEF Locals
    <2> QED
      BY <1>1, <2>1, <2>2, <2>3
  <1>9. CASE PutCommit(p) \/ TruncateRef(p) \/ CreateRef(p)
    BY <1>0, <1>1, <1>2, <1>9 DEF PutCommit, TruncateRef, CreateRef, Locals
  <1>10. CASE WriteRef(p) \/ TruncateHead(p) \/ WriteHead(p)
    BY <1>0, <1>1, <1>2, <1>10 DEF WriteRef, TruncateHead, WriteHead, Locals
  <1>11. CASE Checkout(p)
    <2>1. PICK h : Step(p, [Idle EXCEPT !.cmd = "checkout", !.newHead = h], "headTrunc")
      BY <1>11 DEF Checkout
    <2> QED
      BY <1>0, <1>2, <2>1 DEF Locals
  <1>12. CASE BranchFrom(p)
    <2>1. PICK b, c : Step(p, [Idle EXCEPT !.cmd = "branch", !.branch = b, !.new = c],
                           "refCreate")
      BY <1>12 DEF BranchFrom
    <2> QED
      BY <1>0, <1>2, <2>1 DEF Locals
  <1>13. CASE DeleteBranch(p)
    <2>1. PICK b : Step(p, [Idle EXCEPT !.cmd = "delete", !.branch = b], "unlink")
      BY <1>13 DEF DeleteBranch
    <2> QED
      BY <1>0, <1>2, <2>1 DEF Locals
  <1>14. CASE StartMerge(p)
    <2>1. PICK b :
            \/ Step(p, [Idle EXCEPT !.cmd = "merge", !.branch = b], "mergeOurs")
            \/ Step(p, [Idle EXCEPT !.cmd = "merge", !.branch = b], "mergeInto")
      BY <1>14 DEF StartMerge
    <2> QED
      BY <1>0, <1>2, <2>1 DEF Locals
  <1>15. CASE MergeTheirs(p)
    <2>1. \/ \E c : Step(p, [proc[p] EXCEPT !.theirs = c], "mergeRows")
          \/ Stop(p)
      BY <1>15 DEF MergeTheirs
    <2>2. CASE \E c : Step(p, [proc[p] EXCEPT !.theirs = c], "mergeRows")
      BY <1>0, <1>2, <2>2 DEF Locals
    <2> QED
      BY <1>1, <2>1, <2>2
  <1>16. CASE ThreeWayMerge(p)
    <2>1. \/ \E m : Step(p, [proc[p] EXCEPT !.manifest = m], "manifest")
          \/ Step(p, [proc[p] EXCEPT !.new = proc[p].theirs], "refTrunc")
          \/ Stop(p)
      BY <1>16 DEF ThreeWayMerge
    <2>2. CASE \E m : Step(p, [proc[p] EXCEPT !.manifest = m], "manifest")
      BY <1>0, <1>2, <2>2 DEF Locals
    <2>3. CASE Step(p, [proc[p] EXCEPT !.new = proc[p].theirs], "refTrunc")
      BY <1>0, <1>2, <2>3 DEF Locals
    <2> QED
      BY <1>1, <2>1, <2>2, <2>3
  <1>17. CASE MergeDryRun(p) \/ Crash(p)
    BY <1>1, <1>17 DEF MergeDryRun, Crash
  <1> QED
    BY <1>3, <1>4, <1>5, <1>6, <1>7, <1>8, <1>9, <1>10, <1>11, <1>12, <1>13, <1>14,
       <1>15, <1>16, <1>17

\* Only an idle process starts a command, and under Serial only alone.
LEMMA ActsAlone ==
  ASSUME Serial, TypeOK, OneAtATime, NEW p \in Procs,
         \/ ~At(p, "idle")
         \/ \E cmd \in AllCommands : Start(p, cmd)
  PROVE  \A q \in Procs : q # p => At(q, "idle")
  BY DEF OneAtATime, Start

LEMMA MovesAlone ==
  ASSUME TypeOK, IdleOK, NEW p \in Procs, NEW l, Moves(p, l),
         \A q \in Procs : q # p => At(q, "idle")
  PROVE  /\ OneAtATime' /\ IdleOK'
         /\ \A q \in Procs : q # p => proc'[q] = Idle
         /\ proc'[p] = l
  BY DEF TypeOK, OneAtATime, IdleOK, Moves, At

\* Refs, HEAD and what commits say stay as they are while the collector, which
\* has read part of them, moves on to l.
LEMMA CollectedStep ==
  ASSUME TypeOK, IdleOK, NEW p \in Procs, NEW l, Moves(p, l),
         \A q \in Procs : q # p => At(q, "idle"),
         ObjectsUnchanged, FilesUnchanged, Collected(l)
  PROVE  GcOK'
  <1>1. ASSUME NEW q \in Procs, q # p PROVE Collected(proc[q])'
    BY <1>1, MovesAlone DEF Collected, Idle
  <1>2. proc'[p] = l
    BY MovesAlone
  <1>3. Collected(proc[p])'
    BY <1>2 DEF Collected, ObjectsUnchanged, FilesUnchanged, Heads, Reach, Covered,
                ManifestOf
  <1> QED
    BY <1>1, <1>3 DEF GcOK

LEMMA GcStart ==
  ASSUME TypeOK, NEW p \in Procs, StartGc(p)
  PROVE  \E l : Moves(p, l) /\ Collected(l)
  <1> DEFINE k == [[Idle EXCEPT !.cmd = "gc", !.names = Listed]
                    EXCEPT !.pc = "gcRefs"]
  <1>1. k.pc = "gcRefs" /\ k.names = Listed
    BY DEF Idle
  <1>2. proc' = [proc EXCEPT ![p] = k]
    BY DEF StartGc, Step
  <1>3. \A b \in Branches \ Listed : ~(refs[b] > 0)
    BY DEF Listed, Absent
  <1> HIDE DEF k
  <1>4. Collected(k)
    BY <1>1, <1>3 DEF Collected
  <1> QED
    BY <1>1, <1>2, <1>4 DEF Moves

LEMMA StopCollects ==
  ASSUME NEW p \in Procs, Stop(p)
  PROVE  \E l : Moves(p, l) /\ Collected(l)
  <1>1. Collected(Idle)
    BY DEF Collected, Idle
  <1> QED
    BY <1>1 DEF Stop, Moves

LEMMA GcReads ==
  ASSUME TypeOK, GcOK, NEW p \in Procs, GcReadRef(p) \/ GcReadHead(p)
  PROVE  \E l : Moves(p, l) /\ Collected(l)
  <1>0. proc[p] \in Locals /\ Collected(proc[p])
    BY DEF TypeOK, GcOK
  <1>1. CASE GcReadRef(p)
    <2>0. proc[p].pc = "gcRefs"
      BY <1>1 DEF GcReadRef, At
    <2>1. CASE \E b \in proc[p].names :
                 Step(p, [proc[p] EXCEPT !.names = @ \ {b},
                            !.seeds = IF refs[b] > 0 THEN @ \cup {refs[b]} ELSE @],
                      "gcRefs")
      <3>1. PICK b \in proc[p].names :
                 Step(p, [proc[p] EXCEPT !.names = @ \ {b},
                            !.seeds = IF refs[b] > 0 THEN @ \cup {refs[b]} ELSE @],
                      "gcRefs")
        BY <2>1
      <3> DEFINE k == [[proc[p] EXCEPT !.names = @ \ {b},
                            !.seeds = IF refs[b] > 0 THEN @ \cup {refs[b]} ELSE @]
                        EXCEPT !.pc = "gcRefs"]
      <3>2. /\ k.pc = "gcRefs" /\ k.names = proc[p].names \ {b}
            /\ proc[p].seeds \subseteq k.seeds
            /\ refs[b] > 0 => refs[b] \in k.seeds
        BY <1>0 DEF Locals
      <3>3. proc' = [proc EXCEPT ![p] = k]
        BY <3>1 DEF Step
      <3> HIDE DEF k
      <3>4. Collected(k)
        BY <1>0, <2>0, <3>2 DEF Collected
      <3> QED
        BY <3>2, <3>3, <3>4 DEF Moves
    <2>2. CASE proc[p].names = {} /\ Step(p, proc[p], "gcHead")
      <3> DEFINE k == [proc[p] EXCEPT !.pc = "gcHead"]
      <3>1. k.pc = "gcHead" /\ k.seeds = proc[p].seeds
        BY <1>0 DEF Locals
      <3>2. proc' = [proc EXCEPT ![p] = k]
        BY <2>2 DEF Step
      <3> HIDE DEF k
      <3>3. Collected(k)
        BY <1>0, <2>0, <2>2, <3>1 DEF Collected
      <3> QED
        BY <3>1, <3>2, <3>3 DEF Moves
    <2> QED
      BY <1>1, <2>1, <2>2 DEF GcReadRef
  <1>2. CASE GcReadHead(p) /\ ~Stop(p)
    <2>0. proc[p].pc = "gcHead"
      BY <1>2 DEF GcReadHead, At
    <2> DEFINE k == [[proc[p] EXCEPT !.seeds =
                        IF head.kind = "detached" THEN @ \cup {head.commit} ELSE @]
                      EXCEPT !.pc = "gcMark"]
    <2>1. /\ k.pc = "gcMark"
          /\ k.seeds = IF head.kind = "detached" THEN proc[p].seeds \cup {head.commit}
                       ELSE proc[p].seeds
      BY <1>0 DEF Locals
    <2>2. proc' = [proc EXCEPT ![p] = k]
      BY <1>2 DEF GcReadHead, Step
    <2> HIDE DEF k
    <2>3. Heads \subseteq k.seeds
      BY <1>0, <2>0, <2>1 DEF Collected, Heads
    <2>4. Collected(k)
      BY <2>1, <2>3 DEF Collected
    <2> QED
      BY <2>1, <2>2, <2>4 DEF Moves
  <1> QED
    BY <1>1, <1>2, StopCollects

\* What the marking phase marks covers everything the heads lead to.
LEMMA MarkCovers ==
  ASSUME TypeOK, NEW S, Heads \subseteq S, \A c \in Reach(Heads) : Intact(c),
         NEW c \in Reach(Heads)
  PROVE  Covered(c, Marked(S))
  <1>1. Reach(Heads) \subseteq Reach(S)
    BY DEF Reach, Reachable
  <1>2. c \in Reach(S) /\ Intact(c)
    BY <1>1
  <1> DEFINE ss == {commits[d].snapshot : d \in Reach(S)}
             ms == {snaps[s] : s \in ss \cap store.snapshot}
  <1>3. commits[c].snapshot \in ss \cap store.snapshot
    BY <1>2 DEF Intact
  <1>4. ManifestOf(c) \in ms \cap store.manifest
    BY <1>2, <1>3 DEF Intact, ManifestOf
  <1>5. RowsOf(ManifestOf(c)) \subseteq UNION {RowsOf(m) : m \in ms \cap store.manifest}
    BY <1>4
  <1>6. Marked(S) = [commit |-> Reach(S), snapshot |-> ss, manifest |-> ms,
                     row |-> UNION {RowsOf(m) : m \in ms \cap store.manifest}]
    BY DEF Marked
  <1>7. /\ Marked(S).commit = Reach(S) /\ Marked(S).snapshot = ss
        /\ Marked(S).manifest = ms
        /\ Marked(S).row = UNION {RowsOf(m) : m \in ms \cap store.manifest}
    BY <1>6
  <1> HIDE DEF ss, ms
  <1> QED
    BY <1>2, <1>3, <1>4, <1>5, <1>7 DEF Covered

LEMMA GcMarks ==
  ASSUME TypeOK, GcOK, RootsClosed, NEW p \in Procs, GcMark(p)
  PROVE  \E l : Moves(p, l) /\ Collected(l)
  <1>0. proc[p] \in Locals /\ Heads \subseteq proc[p].seeds
    BY DEF TypeOK, GcOK, Collected, GcMark, At
  <1>1. CASE Stop(p)
    BY <1>1, StopCollects
  <1>2. CASE ~Stop(p)
    <2> DEFINE k == [[proc[p] EXCEPT !.mark = Marked(proc[p].seeds),
                        !.pending = Minus(store, Marked(proc[p].seeds))]
                      EXCEPT !.pc = "gcSweep"]
    <2>1. k.pc = "gcSweep" /\ k.mark = Marked(proc[p].seeds)
      BY <1>0 DEF Locals
    <2>2. proc' = [proc EXCEPT ![p] = k]
      BY <1>2 DEF GcMark, Step
    <2> HIDE DEF k
    <2>3. \A c \in Reach(Heads) : Intact(c)
      BY RootsReached DEF RootsClosed
    <2>4. Collected(k)
      BY <1>0, <2>1, <2>3, MarkCovers DEF Collected
    <2> QED
      BY <2>1, <2>2, <2>4 DEF Moves
  <1> QED
    BY <1>1, <1>2

\* What one command that runs alone keeps of the control state.
LEMMA AloneKept ==
  ASSUME TypeOK, IdleOK, NEW p \in Procs, NEW l, Moves(p, l),
         l.pc \notin GcPCs, \A q \in Procs : q # p => At(q, "idle")
  PROVE  OneAtATime' /\ IdleOK' /\ GcOK'
  <1>1. \A q \in Procs : proc'[q].pc \notin GcPCs
    BY MovesAlone DEF Idle, GcPCs
  <1> QED
    BY <1>1, MovesAlone DEF GcOK, Collected, GcPCs

LEMMA ControlAlone ==
  ASSUME Serial, TypeOK, IdleOK, OneAtATime, GcOK, RootsClosed, Next
  PROVE  OneAtATime' /\ IdleOK' /\ GcOK'
  <1>1. ASSUME NEW p \in Procs,
               \/ StartAnalyze(p) \/ PutRow(p) \/ PutManifest(p) \/ PutSnapshot(p)
               \/ ResolveBranch(p) \/ ResolvePrevious(p) \/ PutCommit(p)
               \/ TruncateRef(p) \/ CreateRef(p) \/ WriteRef(p)
               \/ TruncateHead(p) \/ WriteHead(p) \/ Checkout(p) \/ BranchFrom(p)
               \/ DeleteBranch(p) \/ StartMerge(p) \/ MergeOurs(p) \/ MergeTheirs(p)
               \/ ThreeWayMerge(p) \/ MergeDryRun(p) \/ Crash(p)
        PROVE  OneAtATime' /\ IdleOK' /\ GcOK'
    <2>1. ~At(p, "idle") \/ \E cmd \in AllCommands : Start(p, cmd)
      <3> USE DEF AllCommands
      <3>1. CASE \/ StartAnalyze(p) \/ Checkout(p) \/ BranchFrom(p)
                 \/ DeleteBranch(p) \/ StartMerge(p)
        BY <3>1 DEF StartAnalyze, Checkout, BranchFrom, DeleteBranch, StartMerge
      <3>2. CASE ~(\/ StartAnalyze(p) \/ Checkout(p) \/ BranchFrom(p)
                   \/ DeleteBranch(p) \/ StartMerge(p))
        BY <1>1, <3>2
           DEF PutRow, PutManifest, PutSnapshot, ResolveBranch, ResolvePrevious,
               PutCommit, TruncateRef, CreateRef, WriteRef, TruncateHead, WriteHead,
               MergeOurs, MergeTheirs, ThreeWayMerge, MergeDryRun, Crash, At
      <3> QED
        BY <3>1, <3>2
    <2>2. \A q \in Procs : q # p => At(q, "idle")
      BY <2>1, ActsAlone
    <2> QED
      BY <1>1, <2>2, MovesElsewhere, AloneKept
  <1>2. ASSUME NEW p \in Procs, Unlink(p) PROVE OneAtATime' /\ IdleOK' /\ GcOK'
    <2>1. \A q \in Procs : q # p => At(q, "idle")
      BY <1>2, ActsAlone DEF Unlink, At
    <2>2. Moves(p, Idle)
      BY <1>2, <2>1 DEF Unlink, Moves, At, TypeOK
    <2> QED
      BY <2>1, <2>2, AloneKept DEF Idle, GcPCs
  <1>3. ASSUME NEW p \in Procs,
               \/ StartGc(p) \/ GcReadRef(p) \/ GcReadHead(p) \/ GcMark(p) \/ GcDone(p)
        PROVE  OneAtATime' /\ IdleOK' /\ GcOK'
    <2>1. ~At(p, "idle") \/ \E cmd \in AllCommands : Start(p, cmd)
      BY <1>3 DEF AllCommands, StartGc, GcReadRef, GcReadHead, GcMark, GcDone, At
    <2>2. \A q \in Procs : q # p => At(q, "idle")
      BY <2>1, ActsAlone
    <2>3. ObjectsUnchanged /\ FilesUnchanged
      BY <1>3 DEF StartGc, GcReadRef, GcReadHead, GcMark, GcDone
    <2>4. \E l : Moves(p, l) /\ Collected(l)
      BY <1>3, GcStart, GcReads, GcMarks, StopCollects DEF GcDone
    <2> QED
      BY <2>2, <2>3, <2>4, CollectedStep, MovesAlone
  <1>4. ASSUME NEW p \in Procs, GcSweep(p) PROVE OneAtATime' /\ IdleOK' /\ GcOK'
    <2>1. proc' = proc /\ refs' = refs /\ head' = head /\ commits' = commits
          /\ snaps' = snaps
      BY <1>4 DEF GcSweep, FilesUnchanged
    <2> QED
      BY <2>1 DEF OneAtATime, IdleOK, At, GcOK, Collected, Heads, Reach, Covered,
                  ManifestOf
  <1> QED
    BY <1>1, <1>2, <1>3, <1>4 DEF Next

LEMMA ClosedNext ==
  ASSUME Typed # "any", TypeOK, TypeOK', ControlOK, WrittenOK, IdleOK, OneAtATime,
         GcOK, RootsClosed, Next
  PROVE  WrittenOK' /\ RootsClosed'
  <1>1. CASE \E p \in Procs : GcSweep(p)
    <2>1. PICK p \in Procs : GcSweep(p)
      BY <1>1
    <2>2. /\ proc' = proc /\ proc[p].pc = "gcSweep"
          /\ \A q \in Procs : q # p => proc[q].pc = "idle"
      BY <2>1 DEF GcSweep, OneAtATime, At
    <2>3. WrittenOK'
      BY <2>2 DEF WrittenOK, Written
    <2> QED
      BY <2>1, <2>3, RootsSweep
  <1>2. CASE \A p \in Procs : ~GcSweep(p)
    <2>1. \A q \in Procs : At(q, "mergeRows")
                             => Intact(proc[q].prev) /\ Intact(proc[q].theirs)
      <3> SUFFICES ASSUME NEW q \in Procs, At(q, "mergeRows")
                   PROVE  Intact(proc[q].prev) /\ Intact(proc[q].theirs)
        OBVIOUS
      <3>1. proc[q].prev # Absent /\ proc[q].theirs # Absent
        BY DEF ControlOK, Control, At
      <3>2. {proc[q].prev, proc[q].theirs} \subseteq Carried(proc[q])
        BY <3>1 DEF Carried
      <3> QED
        BY <3>2, RootsReached DEF RootsClosed
    <2>2. WrittenOK' /\ Grows
      BY <1>2, <2>1, WrittenNext DEF Next
    <2>3. CASE \E p \in Procs : PutCommit(p)
      BY <2>2, <2>3, RootsCommit
    <2>4. CASE \A p \in Procs : ~PutCommit(p)
      <3>1. UNCHANGED commits
        BY <1>2, <2>4
           DEF Next, StartAnalyze, PutRow, PutManifest, PutSnapshot, ResolveBranch,
               ResolvePrevious, TruncateRef, CreateRef, WriteRef, TruncateHead,
               WriteHead, Checkout, BranchFrom, DeleteBranch, Unlink, StartMerge,
               MergeOurs, MergeTheirs, ThreeWayMerge, StartGc, GcReadRef, GcReadHead,
               GcMark, GcDone, MergeDryRun, Crash, ObjectsUnchanged
      <3> QED
        BY <1>2, <2>2, <2>4, <3>1, RootsNext, RootsStep
    <2> QED
      BY <2>2, <2>3, <2>4
  <1> QED
    BY <1>1, <1>2

\* When one command runs at a time and users type only ids that the refs still
\* lead to, gc deletes nothing that a branch or a detached HEAD leads to: it sees
\* every ref, marks all they reach, and what dead commands left is not needed.
THEOREM RefsClosedSerial ==
  ASSUME Serial, Typed # "any"
  PROVE  Spec => []RefsClosed
  <1> DEFINE Inv == /\ TypeOK /\ ControlOK /\ WrittenOK /\ IdleOK /\ OneAtATime
                    /\ GcOK /\ RootsClosed
  <1>1. Init => Inv
    <2> SUFFICES ASSUME Init PROVE Inv
      OBVIOUS
    <2>1. TypeOK /\ \A p \in Procs : proc[p] = Idle
      BY InitType DEF Init
    <2>2. Idle.pc = "idle"
      BY DEF Idle
    <2>3. ControlOK /\ IdleOK /\ OneAtATime
      BY <2>1, <2>2, ControlIdle DEF ControlOK, IdleOK, OneAtATime, At
    <2>4. WrittenOK /\ GcOK
      BY <2>1, <2>2 DEF WrittenOK, Written, GcOK, Collected
    <2>5. RootsClosed
      <3>1. DOMAIN commits = {}
        BY DEF Init
      <3> QED
        BY <3>1, ReachType DEF RootsClosed
    <2> QED
      BY <2>1, <2>3, <2>4, <2>5
  <1>2. Inv /\ [Next]_vars => Inv'
    <2> SUFFICES ASSUME Inv, [Next]_vars PROVE Inv'
      OBVIOUS
    <2>1. CASE Next
      BY <2>1, TypeNext, ControlNext, ControlAlone, ClosedNext
    <2>2. CASE UNCHANGED vars
      <3>1. TypeOK'
        BY <2>2, LocalStep DEF vars, TypeOK, ObjectsUnchanged, FilesUnchanged
      <3>2. ControlOK' /\ WrittenOK' /\ IdleOK' /\ OneAtATime'
        BY <2>2 DEF vars, ControlOK, WrittenOK, IdleOK, OneAtATime, At
      <3>3. GcOK'
        BY <2>2 DEF vars, GcOK, Collected, Heads, Reach, Covered, ManifestOf
      <3>4. RootsClosed'
        BY <2>2 DEF vars, RootsClosed, Roots, Heads, Reach, Intact
      <3> QED
        BY <3>1, <3>2, <3>3, <3>4
    <2> QED
      BY <2>1, <2>2
  <1>3. Inv => RefsClosed
    BY RootsReached DEF RootsClosed, RefsClosed
  <1> QED
    BY <1>1, <1>2, <1>3, PTL DEF Spec

-----------------------------------------------------------------------------
(* What a step that leaves refs and HEAD alone makes of a process's locals *)

\* A command starts with locals l.
Begins(l) ==
  /\ l.linked
  /\ Serial => \A q \in Procs : At(q, "idle")
  /\ \/ l.pc = "rows" /\ l.cmd = "analyze"
     \/ /\ l.pc = "headTrunc" /\ l.cmd = "checkout"
        /\ \/ \E b \in Branches : refs[b] > 0 /\ l.newHead = OnBranch(b)
           \/ \E c \in TypedIds : l.newHead = Detached(c)
     \/ /\ l.pc = "refCreate" /\ l.cmd = "branch"
        /\ l.new > 0
        /\ l.new \in TypedIds \cup ({refs[x] : x \in Branches} \cup {HeadCommit})
     \/ /\ l.pc = "unlink" /\ l.cmd = "delete"
        /\ ~(head.kind = "branch" /\ head.branch = l.branch)
     \/ /\ l.pc = "mergeOurs" /\ l.cmd = "merge"
        /\ head.kind = "branch" /\ l.branch = head.branch
     \/ l.pc = "mergeInto" /\ l.cmd = "merge"
     \/ l.pc = "gcRefs" /\ l.cmd = "gc"

\* A command goes on from locals k to locals l.
GoesOn(k, l) ==
  /\ l.linked = k.linked /\ l.cmd = k.cmd
  /\ \/ /\ k.pc \in {"rows", "manifest", "snapshot"}
        /\ \/ l.pc \in {"rows", "manifest", "snapshot"}
           \/ l.pc = "commit" /\ k.cmd = "merge"
           \/ l.pc = "branch" /\ k.cmd # "merge"
        /\ l.branch = k.branch /\ l.prev = k.prev
     \/ /\ k.pc = "branch" /\ l.pc = "prev"
        /\ l.branch = IF head.kind = "branch" THEN head.branch ELSE Main
     \/ /\ k.pc = "prev" /\ l.pc = "commit"
        /\ l.branch = k.branch /\ l.prev = HeadCommit /\ HeadCommit # Torn
     \/ /\ k.pc = "commit" /\ l.pc = "refTrunc"
        /\ l.branch = k.branch /\ l.prev = k.prev /\ l.new = Len(commits) + 1
        /\ Len(commits') = Len(commits) + 1
        /\ \A i \in CommitIds : commits'[i] = commits[i]
        /\ k.prev # Absent => k.prev \in ParentsOf(commits', Len(commits) + 1)
     \/ /\ k.pc \in {"mergeOurs", "mergeInto"} /\ l.pc = "mergeTheirs"
        /\ l.branch = k.branch /\ l.prev > 0
        /\ l.prev = IF k.pc = "mergeInto" THEN refs[k.branch] ELSE HeadCommit
     \/ /\ k.pc = "mergeTheirs" /\ l.pc = "mergeRows"
        /\ l.branch = k.branch /\ l.prev = k.prev
     \/ /\ k.pc = "mergeRows" /\ l.pc = "manifest"
        /\ l.branch = k.branch /\ l.prev = k.prev
     \/ /\ k.pc = "mergeRows" /\ l.pc = "refTrunc"
        /\ l.branch = k.branch /\ l.prev = k.prev /\ l.new = k.theirs
        /\ k.prev # k.theirs /\ FindLCA(commits, k.prev, k.theirs) = k.prev
     \/ k.pc \in GcPCs /\ l.pc \in GcPCs

\* Process p goes from one of its steps to the next; refs and HEAD stay.
Quiet(p, l) ==
  /\ proc' = [proc EXCEPT ![p] = l]
  /\ FilesUnchanged
  /\ l = Idle \/ (At(p, "idle") /\ Begins(l)) \/ GoesOn(proc[p], l)

Quietly(p) == \E l : Quiet(p, l)

LEMMA QuietStop ==
  ASSUME NEW p \in Procs, Stop(p), FilesUnchanged
  PROVE  Quietly(p)
  BY DEF Stop, Quiet, Quietly

LEMMA QuietBegins ==
  ASSUME NEW p \in Procs, NEW cmd, Start(p, cmd),
         \/ StartAnalyze(p) \/ Checkout(p) \/ BranchFrom(p) \/ DeleteBranch(p)
         \/ StartMerge(p) \/ StartGc(p)
  PROVE  Quietly(p)
  <1>0. /\ Idle \in Locals /\ Idle.linked /\ At(p, "idle") /\ FilesUnchanged
        /\ Serial => \A q \in Procs : At(q, "idle")
    BY IdleType
       DEF Idle, Start, StartAnalyze, Checkout, BranchFrom, DeleteBranch, StartMerge,
           StartGc
  <1>a. ASSUME NEW l, NEW pc, Step(p, l, pc), Begins([l EXCEPT !.pc = pc])
        PROVE  Quietly(p)
    BY <1>0, <1>a DEF Step, Quiet, Quietly
  <1>1. CASE StartAnalyze(p)
    <2>1. PICK g : Step(p, [Idle EXCEPT !.cmd = "analyze", !.manifest = g,
                                        !.rows = RowsOf(g)], "rows")
      BY <1>1 DEF StartAnalyze
    <2> DEFINE l == [Idle EXCEPT !.cmd = "analyze", !.manifest = g, !.rows = RowsOf(g)]
    <2>2. Begins([l EXCEPT !.pc = "rows"])
      BY <1>0 DEF Begins, Idle
    <2> QED
      BY <1>a, <2>1, <2>2
  <1>2. CASE Checkout(p)
    <2>1. ASSUME NEW h,
                 \/ \E b \in Branches : refs[b] > 0 /\ h = OnBranch(b)
                 \/ \E c \in TypedIds : h = Detached(c),
                 Step(p, [Idle EXCEPT !.cmd = "checkout", !.newHead = h], "headTrunc")
          PROVE  Quietly(p)
      <3> DEFINE k == [[Idle EXCEPT !.cmd = "checkout", !.newHead = h]
                        EXCEPT !.pc = "headTrunc"]
      <3>1. k.linked /\ k.pc = "headTrunc" /\ k.cmd = "checkout" /\ k.newHead = h
        BY DEF Idle
      <3> HIDE DEF k
      <3>2. Begins(k)
        BY <1>0, <2>1, <3>1 DEF Begins
      <3> QED
        BY <1>a, <2>1, <3>2 DEF k
    <2>2. ASSUME NEW b \in Branches, refs[b] > 0,
                 Step(p, [Idle EXCEPT !.cmd = "checkout", !.newHead = OnBranch(b)],
                      "headTrunc")
          PROVE  Quietly(p)
      BY <2>1, <2>2
    <2>3. ASSUME NEW c \in TypedIds,
                 Step(p, [Idle EXCEPT !.cmd = "checkout", !.newHead = Detached(c)],
                      "headTrunc")
          PROVE  Quietly(p)
      BY <2>1, <2>3
    <2> QED
      BY <1>2, <2>2, <2>3 DEF Checkout
  <1>3. CASE BranchFrom(p)
    <2>1. PICK b \in Branches,
               c \in TypedIds \cup ({refs[x] : x \in Branches} \cup {HeadCommit}) :
            /\ c > 0
            /\ Step(p, [Idle EXCEPT !.cmd = "branch", !.branch = b, !.new = c],
                    "refCreate")
      BY <1>3 DEF BranchFrom
    <2> DEFINE k == [[Idle EXCEPT !.cmd = "branch", !.branch = b, !.new = c]
                      EXCEPT !.pc = "refCreate"]
    <2>2. k.linked /\ k.pc = "refCreate" /\ k.cmd = "branch" /\ k.new = c
      BY DEF Idle
    <2> HIDE DEF k
    <2>3. Begins(k)
      BY <1>0, <2>1, <2>2 DEF Begins
    <2> QED
      BY <1>a, <2>1, <2>3 DEF k
  <1>4. CASE DeleteBranch(p)
    <2>1. PICK b \in Branches :
            /\ ~(head.kind = "branch" /\ head.branch = b)
            /\ Step(p, [Idle EXCEPT !.cmd = "delete", !.branch = b], "unlink")
      BY <1>4 DEF DeleteBranch
    <2> DEFINE k == [[Idle EXCEPT !.cmd = "delete", !.branch = b] EXCEPT !.pc = "unlink"]
    <2>2. k.linked /\ k.pc = "unlink" /\ k.cmd = "delete" /\ k.branch = b
      BY DEF Idle
    <2> HIDE DEF k
    <2>3. Begins(k)
      BY <1>0, <2>1, <2>2 DEF Begins
    <2> QED
      BY <1>a, <2>1, <2>3 DEF k
  <1>5. CASE StartMerge(p)
    <2>1. ASSUME NEW b, NEW pc \in {"mergeOurs", "mergeInto"},
                 pc = "mergeOurs" => head.kind = "branch" /\ b = head.branch,
                 Step(p, [Idle EXCEPT !.cmd = "merge", !.branch = b], pc)
          PROVE  Quietly(p)
      <3> DEFINE k == [[Idle EXCEPT !.cmd = "merge", !.branch = b] EXCEPT !.pc = pc]
      <3>1. k.linked /\ k.pc = pc /\ k.cmd = "merge" /\ k.branch = b
        BY DEF Idle
      <3> HIDE DEF k
      <3>2. Begins(k)
        BY <1>0, <2>1, <3>1 DEF Begins
      <3> QED
        BY <1>a, <2>1, <3>2 DEF k
    <2>2. \/ /\ head.kind = "branch"
             /\ Step(p, [Idle EXCEPT !.cmd = "merge", !.branch = head.branch],
                     "mergeOurs")
          \/ \E b : Step(p, [Idle EXCEPT !.cmd = "merge", !.branch = b], "mergeInto")
      BY <1>5 DEF StartMerge
    <2> QED
      BY <2>1, <2>2
  <1>6. CASE StartGc(p)
    <2> DEFINE k == [[Idle EXCEPT !.cmd = "gc", !.names = Listed]
                      EXCEPT !.pc = "gcRefs"]
    <2>1. k.linked /\ k.pc = "gcRefs" /\ k.cmd = "gc"
      BY DEF Idle
    <2> HIDE DEF k
    <2>2. Begins(k)
      BY <1>0, <2>1 DEF Begins
    <2>3. Step(p, [Idle EXCEPT !.cmd = "gc", !.names = Listed], "gcRefs")
      BY <1>6 DEF StartGc
    <2> QED
      BY <1>a, <2>2, <2>3 DEF k
  <1> QED
    BY <1>1, <1>2, <1>3, <1>4, <1>5, <1>6

LEMMA QuietAnalyze ==
  ASSUME TypeOK, ControlOK, NEW p \in Procs,
         \/ PutRow(p) \/ PutManifest(p) \/ PutSnapshot(p)
         \/ ResolveBranch(p) \/ ResolvePrevious(p)
  PROVE  Quietly(p)
  <1>0. proc[p] \in Locals /\ Control(proc[p]) /\ FilesUnchanged
    BY DEF TypeOK, ControlOK, PutRow, PutManifest, PutSnapshot, ResolveBranch,
           ResolvePrevious
  <1>a. ASSUME NEW k, proc' = [proc EXCEPT ![p] = k], GoesOn(proc[p], k)
        PROVE  Quietly(p)
    BY <1>0, <1>a DEF Quiet, Quietly
  <1>1. CASE PutRow(p)
    <2>0. At(p, "rows")
      BY <1>1 DEF PutRow
    <2>1. ASSUME NEW k, proc' = [proc EXCEPT ![p] = k], k.pc \in {"rows", "manifest"},
                 k.linked = proc[p].linked, k.cmd = proc[p].cmd,
                 k.branch = proc[p].branch, k.prev = proc[p].prev
          PROVE  Quietly(p)
      <3>1. GoesOn(proc[p], k)
        BY <2>0, <2>1 DEF GoesOn, At
      <3> QED
        BY <1>a, <2>1, <3>1
    <2>2. ASSUME NEW r, Step(p, [proc[p] EXCEPT !.rows = @ \ {r}], "rows")
          PROVE  Quietly(p)
      BY <1>0, <2>1, <2>2 DEF Step, Locals
    <2>3. CASE Step(p, proc[p], "manifest")
      BY <1>0, <2>1, <2>3 DEF Step, Locals
    <2> QED
      BY <1>1, <2>2, <2>3 DEF PutRow
  <1>2. CASE PutManifest(p)
    <2> DEFINE k == [proc[p] EXCEPT !.pc = "snapshot"]
    <2>1. /\ k.pc = "snapshot" /\ k.linked = proc[p].linked /\ k.cmd = proc[p].cmd
          /\ k.branch = proc[p].branch /\ k.prev = proc[p].prev
      BY <1>0 DEF Locals
    <2>2. proc' = [proc EXCEPT ![p] = k] /\ At(p, "manifest")
      BY <1>2 DEF PutManifest, Step
    <2> HIDE DEF k
    <2>3. GoesOn(proc[p], k)
      BY <2>1, <2>2 DEF GoesOn, At
    <2> QED
      BY <1>a, <2>2, <2>3
  <1>3. CASE PutSnapshot(p)
    <2> DEFINE s == Len(snaps) + 1
    <2>1. PICK pc : /\ pc = IF proc[p].cmd = "merge" THEN "commit" ELSE "branch"
                    /\ Step(p, [proc[p] EXCEPT !.snap = s], pc)
      BY <1>3 DEF PutSnapshot
    <2> DEFINE k == [[proc[p] EXCEPT !.snap = s] EXCEPT !.pc = pc]
    <2>2. /\ k.pc = pc /\ k.linked = proc[p].linked /\ k.cmd = proc[p].cmd
          /\ k.branch = proc[p].branch /\ k.prev = proc[p].prev
      BY <1>0 DEF Locals
    <2>3. proc' = [proc EXCEPT ![p] = k] /\ At(p, "snapshot")
      BY <1>3, <2>1 DEF PutSnapshot, Step
    <2> HIDE DEF k
    <2>4. GoesOn(proc[p], k)
      BY <2>1, <2>2, <2>3 DEF GoesOn, At
    <2> QED
      BY <1>a, <2>3, <2>4
  <1>4. CASE ResolveBranch(p)
    <2>1. CASE Stop(p)
      BY <1>0, <2>1, QuietStop
    <2>2. CASE ~Stop(p)
      <3>1. PICK b : /\ b = IF head.kind = "branch" THEN head.branch ELSE Main
                     /\ Step(p, [proc[p] EXCEPT !.branch = b], "prev")
        BY <1>4, <2>2 DEF ResolveBranch
      <3> DEFINE k == [[proc[p] EXCEPT !.branch = b] EXCEPT !.pc = "prev"]
      <3>2. /\ k.pc = "prev" /\ k.linked = proc[p].linked /\ k.cmd = proc[p].cmd
            /\ k.branch = b
        BY <1>0 DEF Locals
      <3>3. proc' = [proc EXCEPT ![p] = k] /\ At(p, "branch")
        BY <1>4, <3>1 DEF ResolveBranch, Step
      <3> HIDE DEF k
      <3>4. GoesOn(proc[p], k)
        BY <3>1, <3>2, <3>3 DEF GoesOn, At
      <3> QED
        BY <1>a, <3>3, <3>4
    <2> QED
      BY <2>1, <2>2
  <1>5. CASE ResolvePrevious(p)
    <2>1. CASE Stop(p)
      BY <1>0, <2>1, QuietStop
    <2>2. CASE ~Stop(p)
      <3>1. PICK c : /\ c = HeadCommit /\ HeadCommit # Torn
                     /\ Step(p, [proc[p] EXCEPT !.prev = c], "commit")
        BY <1>5, <2>2 DEF ResolvePrevious
      <3> DEFINE k == [[proc[p] EXCEPT !.prev = c] EXCEPT !.pc = "commit"]
      <3>2. /\ k.pc = "commit" /\ k.linked = proc[p].linked /\ k.cmd = proc[p].cmd
            /\ k.branch = proc[p].branch /\ k.prev = c
        BY <1>0 DEF Locals
      <3>3. proc' = [proc EXCEPT ![p] = k] /\ At(p, "prev")
        BY <1>5, <3>1 DEF ResolvePrevious, Step
      <3> HIDE DEF k
      <3>4. GoesOn(proc[p], k)
        BY <3>1, <3>2, <3>3 DEF GoesOn, At
      <3> QED
        BY <1>a, <3>3, <3>4
    <2> QED
      BY <2>1, <2>2
  <1> QED
    BY <1>1, <1>2, <1>3, <1>4, <1>5

LEMMA QuietCommit ==
  ASSUME TypeOK, ControlOK, NEW p \in Procs, PutCommit(p)
  PROVE  Quietly(p)
  <1> DEFINE parents == (IF proc[p].prev = Absent THEN <<>> ELSE <<proc[p].prev>>)
                 \o (IF proc[p].cmd = "merge" THEN <<proc[p].theirs>> ELSE <<>>)
  <1>0. proc[p] \in Locals /\ FilesUnchanged /\ At(p, "commit") /\ Len(commits) \in Nat
    BY DEF TypeOK, PutCommit
  <1>1. commits' = Append(commits, [snapshot |-> proc[p].snap, parents |-> parents])
    BY DEF PutCommit
  <1>2. /\ Len(commits') = Len(commits) + 1
        /\ \A i \in CommitIds : commits'[i] = commits[i]
        /\ commits'[Len(commits) + 1].parents = parents
    BY <1>1 DEF TypeOK, CommitIds
  <1>3. proc[p].prev # Absent
          => proc[p].prev \in ParentsOf(commits', Len(commits) + 1)
    <2>1. proc[p].prev # Absent => parents[1] = proc[p].prev /\ 1 \in DOMAIN parents
      OBVIOUS
    <2> QED
      BY <1>2, <2>1 DEF ParentsOf
  <1>4. PICK c : /\ c = Len(commits) + 1
                 /\ Step(p, [proc[p] EXCEPT !.new = c], "refTrunc")
    BY DEF PutCommit
  <1> DEFINE k == [[proc[p] EXCEPT !.new = c] EXCEPT !.pc = "refTrunc"]
  <1>5. /\ k.pc = "refTrunc" /\ k.linked = proc[p].linked /\ k.cmd = proc[p].cmd
        /\ k.branch = proc[p].branch /\ k.prev = proc[p].prev /\ k.new = c
    BY <1>0 DEF Locals
  <1>6. proc' = [proc EXCEPT ![p] = k]
    BY <1>4 DEF Step
  <1> HIDE DEF k, parents
  <1>7. GoesOn(proc[p], k)
    BY <1>0, <1>2, <1>3, <1>4, <1>5 DEF GoesOn, At
  <1> QED
    BY <1>0, <1>6, <1>7 DEF Quiet, Quietly

LEMMA QuietMerge ==
  ASSUME TypeOK, NEW p \in Procs, MergeOurs(p) \/ MergeTheirs(p) \/ ThreeWayMerge(p)
  PROVE  Quietly(p)
  <1>0. proc[p] \in Locals /\ FilesUnchanged
    BY DEF TypeOK, MergeOurs, MergeTheirs, ThreeWayMerge
  <1>a. ASSUME NEW k, proc' = [proc EXCEPT ![p] = k], GoesOn(proc[p], k)
        PROVE  Quietly(p)
    BY <1>0, <1>a DEF Quiet, Quietly
  <1>b. CASE Stop(p)
    BY <1>0, <1>b, QuietStop
  <1>1. CASE MergeOurs(p) /\ ~Stop(p)
    <2>1. PICK c : /\ c = IF At(p, "mergeInto") THEN refs[proc[p].branch] ELSE HeadCommit
                   /\ c > 0 /\ Step(p, [proc[p] EXCEPT !.prev = c], "mergeTheirs")
      BY <1>1 DEF MergeOurs
    <2> DEFINE k == [[proc[p] EXCEPT !.prev = c] EXCEPT !.pc = "mergeTheirs"]
    <2>2. /\ k.pc = "mergeTheirs" /\ k.linked = proc[p].linked /\ k.cmd = proc[p].cmd
          /\ k.branch = proc[p].branch /\ k.prev = c
      BY <1>0 DEF Locals
    <2>3. proc' = [proc EXCEPT ![p] = k] /\ (At(p, "mergeOurs") \/ At(p, "mergeInto"))
      BY <1>1, <2>1 DEF MergeOurs, Step
    <2> HIDE DEF k
    <2>4. GoesOn(proc[p], k)
      BY <2>1, <2>2, <2>3 DEF GoesOn, At
    <2> QED
      BY <1>a, <2>3, <2>4
  <1>2. CASE MergeTheirs(p) /\ ~Stop(p)
    <2>1. PICK c : Step(p, [proc[p] EXCEPT !.theirs = c], "mergeRows")
      BY <1>2 DEF MergeTheirs
    <2> DEFINE k == [[proc[p] EXCEPT !.theirs = c] EXCEPT !.pc = "mergeRows"]
    <2>2. /\ k.pc = "mergeRows" /\ k.linked = proc[p].linked /\ k.cmd = proc[p].cmd
          /\ k.branch = proc[p].branch /\ k.prev = proc[p].prev
      BY <1>0 DEF Locals
    <2>3. proc' = [proc EXCEPT ![p] = k] /\ At(p, "mergeTheirs")
      BY <1>2, <2>1 DEF MergeTheirs, Step
    <2> HIDE DEF k
    <2>4. GoesOn(proc[p], k)
      BY <2>2, <2>3 DEF GoesOn, At
    <2> QED
      BY <1>a, <2>3, <2>4
  <1>3. CASE ThreeWayMerge(p) /\ ~Stop(p)
    <2>0. At(p, "mergeRows")
      BY <1>3 DEF ThreeWayMerge
    <2>1. \/ \E m : Step(p, [proc[p] EXCEPT !.manifest = m], "manifest")
          \/ /\ MergeOutcome(proc[p].prev, proc[p].theirs) = "fast-forward"
             /\ Step(p, [proc[p] EXCEPT !.new = proc[p].theirs], "refTrunc")
      BY <1>3 DEF ThreeWayMerge
    <2>2. ASSUME NEW m, Step(p, [proc[p] EXCEPT !.manifest = m], "manifest")
          PROVE  Quietly(p)
      <3> DEFINE k == [[proc[p] EXCEPT !.manifest = m] EXCEPT !.pc = "manifest"]
      <3>1. /\ k.pc = "manifest" /\ k.linked = proc[p].linked /\ k.cmd = proc[p].cmd
            /\ k.branch = proc[p].branch /\ k.prev = proc[p].prev
        BY <1>0 DEF Locals
      <3>2. proc' = [proc EXCEPT ![p] = k]
        BY <2>2 DEF Step
      <3> HIDE DEF k
      <3>3. GoesOn(proc[p], k)
        BY <2>0, <3>1 DEF GoesOn, At
      <3> QED
        BY <1>a, <3>2, <3>3
    <2>3. CASE /\ MergeOutcome(proc[p].prev, proc[p].theirs) = "fast-forward"
               /\ Step(p, [proc[p] EXCEPT !.new = proc[p].theirs], "refTrunc")
      <3> DEFINE k == [[proc[p] EXCEPT !.new = proc[p].theirs] EXCEPT !.pc = "refTrunc"]
      <3>1. /\ k.pc = "refTrunc" /\ k.linked = proc[p].linked /\ k.cmd = proc[p].cmd
            /\ k.branch = proc[p].branch /\ k.prev = proc[p].prev
            /\ k.new = proc[p].theirs
        BY <1>0 DEF Locals
      <3>2. proc' = [proc EXCEPT ![p] = k]
        BY <2>3 DEF Step
      <3>3. /\ proc[p].prev # proc[p].theirs
            /\ FindLCA(commits, proc[p].prev, proc[p].theirs) = proc[p].prev
        <4>1. MergeKind(commits, [c \in CommitIds |-> ManifestOf(c)],
                        proc[p].prev, proc[p].theirs) = "fast-forward"
          BY <2>3 DEF MergeOutcome
        <4> QED
          BY <4>1 DEF MergeKind
      <3> HIDE DEF k
      <3>4. GoesOn(proc[p], k)
        BY <2>0, <3>1, <3>3 DEF GoesOn, At
      <3> QED
        BY <1>a, <3>2, <3>4
    <2> QED
      BY <2>1, <2>2, <2>3
  <1> QED
    BY <1>b, <1>1, <1>2, <1>3

LEMMA QuietGc ==
  ASSUME TypeOK, NEW p \in Procs,
         \/ GcReadRef(p) \/ GcReadHead(p) \/ GcMark(p) \/ GcSweep(p) \/ GcDone(p)
         \/ MergeDryRun(p) \/ Crash(p)
  PROVE  Quietly(p)
  <1>0. proc[p] \in Locals /\ FilesUnchanged
    BY DEF TypeOK, GcReadRef, GcReadHead, GcMark, GcSweep, GcDone, MergeDryRun, Crash
  <1>a. CASE Stop(p)
    BY <1>0, <1>a, QuietStop
  <1>b. ASSUME NEW k, proc' = [proc EXCEPT ![p] = k], k.linked = proc[p].linked,
               k.cmd = proc[p].cmd, k.pc \in GcPCs, proc[p].pc \in GcPCs
        PROVE  Quietly(p)
    <2>1. GoesOn(proc[p], k)
      BY <1>b DEF GoesOn
    <2> QED
      BY <1>0, <1>b, <2>1 DEF Quiet, Quietly
  <1>1. CASE GcReadRef(p)
    <2>1. \/ \E n, s : Step(p, [proc[p] EXCEPT !.names = n, !.seeds = s], "gcRefs")
          \/ Step(p, proc[p], "gcHead")
      BY <1>1 DEF GcReadRef
    <2>2. proc[p].pc \in GcPCs
      BY <1>1 DEF GcReadRef, At, GcPCs
    <2>3. ASSUME NEW n, NEW s,
                 Step(p, [proc[p] EXCEPT !.names = n, !.seeds = s], "gcRefs")
          PROVE  Quietly(p)
      BY <1>0, <1>b, <2>2, <2>3 DEF Step, Locals, GcPCs
    <2>4. CASE Step(p, proc[p], "gcHead")
      BY <1>0, <1>b, <2>2, <2>4 DEF Step, Locals, GcPCs
    <2> QED
      BY <2>1, <2>3, <2>4
  <1>2. CASE GcReadHead(p) /\ ~Stop(p)
    <2>1. PICK s : Step(p, [proc[p] EXCEPT !.seeds = s], "gcMark")
      BY <1>2 DEF GcReadHead
    <2>2. proc[p].pc \in GcPCs
      BY <1>2 DEF GcReadHead, At, GcPCs
    <2> QED
      BY <1>0, <1>b, <2>1, <2>2 DEF Step, Locals, GcPCs
  <1>3. CASE GcMark(p) /\ ~Stop(p)
    <2>1. PICK m, w : Step(p, [proc[p] EXCEPT !.mark = m, !.pending = w], "gcSweep")
      BY <1>3 DEF GcMark
    <2>2. proc[p].pc \in GcPCs
      BY <1>3 DEF GcMark, At, GcPCs
    <2> QED
      BY <1>0, <1>b, <2>1, <2>2 DEF Step, Locals, GcPCs
  <1>4. CASE GcSweep(p)
    <2>1. proc' = [proc EXCEPT ![p] = proc[p]] /\ proc[p].pc \in GcPCs
      BY <1>4 DEF GcSweep, At, GcPCs, TypeOK
    <2> QED
      BY <1>b, <2>1
  <1> QED
    BY <1>a, <1>1, <1>2, <1>3, <1>4 DEF GcDone, MergeDryRun, Crash

\* A step either writes a ref or HEAD or is quiet.
LEMMA Outline ==
  ASSUME TypeOK, ControlOK, Next
  PROVE  \E p \in Procs :
           \/ Quietly(p) \/ TruncateRef(p) \/ CreateRef(p) \/ WriteRef(p)
           \/ TruncateHead(p) \/ WriteHead(p) \/ Unlink(p)
  <1>1. ASSUME NEW p \in Procs,
               \/ StartAnalyze(p) \/ Checkout(p) \/ BranchFrom(p) \/ DeleteBranch(p)
               \/ StartMerge(p) \/ StartGc(p)
        PROVE  Quietly(p)
    <2>1. \E cmd : Start(p, cmd)
      BY <1>1 DEF StartAnalyze, Checkout, BranchFrom, DeleteBranch, StartMerge, StartGc
    <2> QED
      BY <1>1, <2>1, QuietBegins
  <1> QED
    BY <1>1, QuietAnalyze, QuietCommit, QuietMerge, QuietGc DEF Next

-----------------------------------------------------------------------------
(* Who holds the file of a branch *)

Holds(p) == At(p, "refWrite") /\ proc[p].linked

\* The file a process has opened is still there unless it was unlinked, and a
\* branch create never opens a file by truncating one.
Files ==
  \A p \in Procs : /\ Holds(p) => refs[proc[p].branch] # Absent
                   /\ At(p, "refTrunc") => proc[p].cmd # "branch"

Creating == CreateExclusive /\ Files

\* A quiet step opens no ref file, and goes on to truncate one only for a commit
\* or a fast forward.
LEMMA QuietFiles ==
  ASSUME TypeOK, ControlOK, NEW p \in Procs, NEW l, Quiet(p, l)
  PROVE  l.pc # "refWrite" /\ (l.pc = "refTrunc" => l.cmd # "branch")
  <1>1. Control(proc[p])
    BY DEF ControlOK
  <1>2. CASE l = Idle
    BY <1>2 DEF Idle
  <1>3. CASE Begins(l)
    BY <1>3 DEF Begins
  <1>4. CASE GoesOn(proc[p], l)
    BY <1>1, <1>4 DEF GoesOn, Control, GcPCs
  <1> QED
    BY <1>2, <1>3, <1>4 DEF Quiet

LEMMA CreatingQuiet ==
  ASSUME TypeOK, ControlOK, Creating, NEW p \in Procs, NEW l, Quiet(p, l)
  PROVE  Creating'
  <1>1. /\ proc'[p] = l /\ \A q \in Procs : q # p => proc'[q] = proc[q]
        /\ refs' = refs
    BY DEF TypeOK, Quiet, FilesUnchanged
  <1>2. l.pc # "refWrite" /\ (l.pc = "refTrunc" => l.cmd # "branch")
    BY QuietFiles
  <1> QED
    BY <1>1, <1>2 DEF Creating, CreateExclusive, Files, Holds, At

\* What the steps that write a ref or HEAD do to the locals of p.
LEMMA FilesStep ==
  ASSUME TypeOK, NEW p \in Procs,
         \/ TruncateRef(p) \/ CreateRef(p) \/ WriteRef(p)
         \/ TruncateHead(p) \/ WriteHead(p)
  PROVE  \E l :
    /\ proc' = [proc EXCEPT ![p] = l]
    /\ \/ l = Idle
       \/ /\ l.cmd = proc[p].cmd /\ l.linked = proc[p].linked
          /\ l.branch = proc[p].branch /\ l.prev = proc[p].prev
          /\ l.new = proc[p].new
          /\ \/ proc[p].pc \in {"refTrunc", "refCreate"} /\ l.pc = "refWrite"
             \/ /\ proc[p].pc = "refWrite" /\ l.pc = "headTrunc"
                /\ l.newHead = OnBranch(proc[p].branch)
                /\ proc[p].cmd = "analyze" /\ proc[p].prev = Absent
             \/ /\ proc[p].pc = "headTrunc" /\ l.pc = "headWrite"
                /\ l.newHead = proc[p].newHead
  <1>0. proc[p] \in Locals
    BY DEF TypeOK
  <1>1. CASE Stop(p)
    BY <1>1 DEF Stop
  <1>2. CASE TruncateRef(p) \/ (CreateRef(p) /\ ~Stop(p))
    <2> DEFINE k == [proc[p] EXCEPT !.pc = "refWrite"]
    <2>1. /\ k.pc = "refWrite" /\ k.cmd = proc[p].cmd /\ k.linked = proc[p].linked
          /\ k.branch = proc[p].branch /\ k.prev = proc[p].prev
          /\ k.new = proc[p].new
      BY <1>0 DEF Locals
    <2>2. proc' = [proc EXCEPT ![p] = k] /\ proc[p].pc \in {"refTrunc", "refCreate"}
      BY <1>2 DEF TruncateRef, CreateRef, Step, At
    <2> HIDE DEF k
    <2> QED
      BY <2>1, <2>2
  <1>3. CASE WriteRef(p) /\ ~Stop(p)
    <2>1. PICK h : /\ h = OnBranch(proc[p].branch)
                   /\ Step(p, [proc[p] EXCEPT !.newHead = h], "headTrunc")
                   /\ proc[p].cmd = "analyze" /\ proc[p].prev = Absent
      BY <1>3 DEF WriteRef
    <2> DEFINE k == [[proc[p] EXCEPT !.newHead = h] EXCEPT !.pc = "headTrunc"]
    <2>2. /\ k.pc = "headTrunc" /\ k.cmd = proc[p].cmd /\ k.linked = proc[p].linked
          /\ k.branch = proc[p].branch /\ k.prev = proc[p].prev
          /\ k.new = proc[p].new /\ k.newHead = h
      BY <1>0 DEF Locals
    <2>3. proc' = [proc EXCEPT ![p] = k] /\ proc[p].pc = "refWrite"
      BY <1>3, <2>1 DEF WriteRef, Step, At
    <2> HIDE DEF k
    <2> QED
      BY <2>1, <2>2, <2>3
  <1>4. CASE TruncateHead(p)
    <2> DEFINE k == [proc[p] EXCEPT !.pc = "headWrite"]
    <2>1. /\ k.pc = "headWrite" /\ k.cmd = proc[p].cmd /\ k.linked = proc[p].linked
          /\ k.branch = proc[p].branch /\ k.prev = proc[p].prev
          /\ k.new = proc[p].new /\ k.newHead = proc[p].newHead
      BY <1>0 DEF Locals
    <2>2. proc' = [proc EXCEPT ![p] = k] /\ proc[p].pc = "headTrunc"
      BY <1>4 DEF TruncateHead, Step, At
    <2> HIDE DEF k
    <2> QED
      BY <2>1, <2>2
  <1> QED
    BY <1>1, <1>2, <1>3, <1>4 DEF WriteHead

\* One process opens the file of a branch: by truncating it, or by creating it.
LEMMA CreatingOpens ==
  ASSUME TypeOK, ControlOK, Creating, NEW p \in Procs, TruncateRef(p) \/ CreateRef(p)
  PROVE  Creating'
  <1>1. PICK l : /\ proc' = [proc EXCEPT ![p] = l]
                 /\ \/ l = Idle
                    \/ /\ l.cmd = proc[p].cmd /\ l.linked = proc[p].linked
                       /\ l.branch = proc[p].branch /\ l.pc = "refWrite"
    BY FilesStep DEF TruncateRef, CreateRef, At
  <1>2. /\ proc'[p] = l /\ \A q \in Procs : q # p => proc'[q] = proc[q]
        /\ proc[p].branch \in Branches
    BY <1>1 DEF TypeOK, Locals
  <1>3. Idle.pc = "idle"
    BY DEF Idle
  <1>4. /\ refs' = refs \/ refs' = [refs EXCEPT ![proc[p].branch] = Torn]
        /\ l.pc = "refWrite" => refs' = [refs EXCEPT ![proc[p].branch] = Torn]
    <2>1. CASE TruncateRef(p)
      BY <2>1 DEF TruncateRef
    <2>2. CASE CreateRef(p)
      <3>1. CASE refs[proc[p].branch] = Absent
        BY <2>2, <3>1 DEF CreateRef
      <3>2. CASE refs[proc[p].branch] # Absent
        <4>1. Stop(p) /\ refs' = refs
          BY <2>2, <3>2 DEF CreateRef
        <4>2. proc'[p] = Idle
          BY <4>1 DEF Stop, TypeOK
        <4> QED
          BY <1>2, <1>3, <4>1, <4>2
      <3> QED
        BY <3>1, <3>2
    <2> QED
      BY <2>1, <2>2
  <1>5. \A b \in Branches : refs[b] # Absent => refs'[b] # Absent
    BY <1>4 DEF TypeOK, Torn, Absent
  <1>6. Files'
    <2>1. ASSUME NEW q \in Procs, q # p
          PROVE  /\ Holds(q)' => refs'[proc'[q].branch] # Absent
                 /\ At(q, "refTrunc")' => proc'[q].cmd # "branch"
      <3>1. proc'[q] = proc[q] /\ proc[q].branch \in Branches
        BY <1>2, <2>1 DEF TypeOK, Locals
      <3> QED
        BY <1>5, <3>1 DEF Creating, Files, Holds, At
    <2>2. /\ Holds(p)' => refs'[proc'[p].branch] # Absent
          /\ ~At(p, "refTrunc")'
      BY <1>1, <1>2, <1>3, <1>4 DEF Holds, At, TypeOK, Torn, Absent
    <2> QED
      BY <2>1, <2>2 DEF Files
  <1>7. CreateExclusive'
    <2>1. ASSUME NEW q \in Procs, q # p, proc[p].cmd = "branch", Holds(q),
                 proc[q].branch = proc[p].branch
          PROVE  proc'[p].pc # "refWrite"
      <3>1. refs[proc[p].branch] # Absent /\ ~At(p, "refTrunc")
        BY <2>1 DEF Creating, Files
      <3>2. Stop(p)
        BY <3>1 DEF TruncateRef, CreateRef
      <3> QED
        BY <1>3, <3>2 DEF Stop, TypeOK
    <2> QED
      BY <1>1, <1>2, <1>3, <2>1 DEF Creating, CreateExclusive, Holds, At
  <1> QED
    BY <1>6, <1>7 DEF Creating

LEMMA CreatingWrites ==
  ASSUME TypeOK, ControlOK, Creating, NEW p \in Procs,
         WriteRef(p) \/ TruncateHead(p) \/ WriteHead(p)
  PROVE  Creating'
  <1>1. PICK l : proc' = [proc EXCEPT ![p] = l] /\ l.pc \notin {"refWrite", "refTrunc"}
    <2>1. Idle.pc = "idle"
      BY DEF Idle
    <2>2. proc[p].pc \in {"refWrite", "headTrunc", "headWrite"}
      BY DEF WriteRef, TruncateHead, WriteHead, At
    <2> QED
      BY <2>1, <2>2, FilesStep
  <1>2. /\ proc'[p] = l /\ \A q \in Procs : q # p => proc'[q] = proc[q]
        /\ proc[p].branch \in Branches
    BY <1>1 DEF TypeOK, Locals
  <1>3. \A b \in Branches : refs[b] # Absent => refs'[b] # Absent
    <2>1. WriteRef(p) => proc[p].new # Absent
      BY DEF WriteRef, ControlOK, Control, At
    <2> QED
      BY <2>1 DEF WriteRef, TruncateHead, WriteHead, TypeOK
  <1>4. \A q \in Procs : proc[q].branch \in Branches
    BY DEF TypeOK, Locals
  <1> QED
    BY <1>1, <1>2, <1>3, <1>4 DEF Creating, CreateExclusive, Files, Holds, At

LEMMA CreatingUnlink ==
  ASSUME TypeOK, Creating, NEW p \in Procs, Unlink(p)
  PROVE  Creating'
  <1>1. refs' = [refs EXCEPT ![proc[p].branch] = Absent]
    BY DEF Unlink
  <1>2. ASSUME NEW q \in Procs
        PROVE  /\ proc'[q].pc \in {proc[q].pc, "idle"}
               /\ proc'[q].pc # "idle" => /\ proc'[q].cmd = proc[q].cmd
                                          /\ proc'[q].branch = proc[q].branch
               /\ Holds(q)' => Holds(q) /\ proc[q].branch # proc[p].branch
    <2>0. proc[q] \in Locals
      BY DEF TypeOK
    <2>1. CASE q = p
      BY <2>1 DEF Unlink, Idle, Holds, At
    <2>2. CASE q # p /\ At(q, "refWrite") /\ proc[q].branch = proc[p].branch
      <3>1. proc'[q] = [proc[q] EXCEPT !.linked = FALSE]
        BY <2>2 DEF Unlink
      <3> QED
        BY <2>0, <3>1 DEF Locals, Holds
    <2>3. CASE q # p /\ ~(At(q, "refWrite") /\ proc[q].branch = proc[p].branch)
      <3>1. proc'[q] = proc[q]
        BY <2>3 DEF Unlink
      <3> QED
        BY <2>3, <3>1 DEF Holds, At
    <2> QED
      BY <2>1, <2>2, <2>3
  <1>3. Files'
    <2>1. ASSUME NEW q \in Procs, Holds(q)' PROVE refs'[proc'[q].branch] # Absent
      <3>1. /\ Holds(q) /\ proc[q].branch # proc[p].branch
            /\ proc'[q].branch = proc[q].branch
        BY <1>2, <2>1 DEF Holds, At
      <3>2. refs'[proc[q].branch] = refs[proc[q].branch]
        BY <1>1, <3>1 DEF TypeOK, Locals
      <3> QED
        BY <3>1, <3>2 DEF Creating, Files
    <2>2. ASSUME NEW q \in Procs, At(q, "refTrunc")' PROVE proc'[q].cmd # "branch"
      BY <1>2, <2>2 DEF Creating, Files, At
    <2> QED
      BY <2>1, <2>2 DEF Files
  <1>4. CreateExclusive'
    BY <1>2 DEF Creating, CreateExclusive, Holds, At
  <1> QED
    BY <1>3, <1>4 DEF Creating

LEMMA CreatingNext ==
  ASSUME TypeOK, ControlOK, Creating, Next
  PROVE  Creating'
  BY Outline, CreatingQuiet, CreatingOpens, CreatingWrites, CreatingUnlink DEF Quietly

\* Two branch creates never both hold the file of one branch, with any number
\* of processes that create, delete, merge and analyze at the same time: flag wx
\* keeps a second one out as long as the file is there, and a file that is
\* unlinked is nobody's any more.
THEOREM CreatesExclude == Spec => []CreateExclusive
  <1> DEFINE Inv == TypeOK /\ ControlOK /\ Creating
  <1>1. Init => Inv
    <2> SUFFICES ASSUME Init PROVE Inv
      OBVIOUS
    <2>1. \A p \in Procs : proc[p].pc = "idle"
      BY DEF Init, Idle
    <2> QED
      BY <2>1, InitType, ControlIdle
         DEF Init, ControlOK, Creating, CreateExclusive, Files, Holds, At
  <1>2. Inv /\ [Next]_vars => Inv'
    <2> SUFFICES ASSUME Inv, [Next]_vars PROVE Inv'
      OBVIOUS
    <2>1. CASE Next
      BY <2>1, TypeNext, ControlNext, CreatingNext
    <2>2. CASE UNCHANGED vars
      <3>1. TypeOK'
        BY <2>2, LocalStep DEF vars, TypeOK, ObjectsUnchanged, FilesUnchanged
      <3>2. ControlOK' /\ Creating'
        BY <2>2 DEF vars, ControlOK, Creating, CreateExclusive, Files, Holds, At
      <3> QED
        BY <3>1, <3>2
    <2> QED
      BY <2>1, <2>2
  <1>3. Inv => CreateExclusive
    BY DEF Creating
  <1> QED
    BY <1>1, <1>2, <1>3, PTL DEF Spec

-----------------------------------------------------------------------------
(* HEAD keeps its branch, as long as one command runs at a time *)

\* Everybody but p is between two commands.
Alone(p) == \A q \in Procs : q # p => At(q, "idle")

LEMMA QuietAlone ==
  ASSUME Serial, TypeOK, IdleOK, OneAtATime, NEW p \in Procs, NEW l, Quiet(p, l)
  PROVE  /\ (l = proc[p] /\ proc' = proc) \/ Alone(p)
         /\ l = Idle \/ l.pc # "idle"
  <1>1. CASE l = Idle
    <2>1. CASE At(p, "idle")
      <3>1. proc[p] = Idle
        BY <2>1 DEF IdleOK
      <3> QED
        BY <1>1, <3>1 DEF Quiet, TypeOK
    <2> QED
      BY <1>1, <2>1 DEF OneAtATime, Alone
  <1>2. CASE At(p, "idle") /\ Begins(l)
    BY <1>2 DEF Begins, Alone
  <1>3. CASE GoesOn(proc[p], l)
    <2>1. ~At(p, "idle") /\ l.pc # "idle"
      BY <1>3 DEF GoesOn, At, GcPCs
    <2> QED
      BY <2>1 DEF OneAtATime, Alone
  <1> QED
    BY <1>1, <1>2, <1>3 DEF Quiet

LEMMA FilesAlone ==
  ASSUME Serial, TypeOK, OneAtATime, NEW p \in Procs,
         \/ TruncateRef(p) \/ CreateRef(p) \/ WriteRef(p)
         \/ TruncateHead(p) \/ WriteHead(p) \/ Unlink(p)
  PROVE  Alone(p)
  BY ActsAlone
     DEF TruncateRef, CreateRef, WriteRef, TruncateHead, WriteHead, Unlink, At, Alone

LEMMA UnlinkAlone ==
  ASSUME TypeOK, NEW p \in Procs, Unlink(p), Alone(p)
  PROVE  proc' = [proc EXCEPT ![p] = Idle]
  BY DEF Unlink, TypeOK, Alone, At

LEMMA AloneNext ==
  ASSUME Serial, TypeOK, ControlOK, IdleOK, OneAtATime, Next
  PROVE  OneAtATime' /\ IdleOK'
  <1>0. Idle.pc = "idle"
    BY DEF Idle
  <1>1. ASSUME NEW p \in Procs, NEW l, proc' = [proc EXCEPT ![p] = l], Alone(p),
               l = Idle \/ l.pc # "idle"
        PROVE  OneAtATime' /\ IdleOK'
    BY <1>0, <1>1, MovesAlone DEF Moves, Alone
  <1>2. ASSUME NEW p \in Procs, Quietly(p) PROVE OneAtATime' /\ IdleOK'
    <2>1. PICK l : Quiet(p, l)
      BY <1>2 DEF Quietly
    <2>2. CASE proc' = proc
      BY <2>2 DEF OneAtATime, IdleOK, At
    <2> QED
      BY <1>1, <2>1, <2>2, QuietAlone DEF Quiet
  <1>3. ASSUME NEW p \in Procs,
               \/ TruncateRef(p) \/ CreateRef(p) \/ WriteRef(p)
               \/ TruncateHead(p) \/ WriteHead(p)
        PROVE  OneAtATime' /\ IdleOK'
    <2>1. \E l : proc' = [proc EXCEPT ![p] = l] /\ (l = Idle \/ l.pc # "idle")
      <3>1. PICK l : /\ proc' = [proc EXCEPT ![p] = l]
                     /\ l = Idle \/ l.pc \in {"refWrite", "headTrunc", "headWrite"}
        BY <1>3, FilesStep
      <3> QED
        BY <3>1
    <2> QED
      BY <1>1, <1>3, <2>1, FilesAlone
  <1>4. ASSUME NEW p \in Procs, Unlink(p) PROVE OneAtATime' /\ IdleOK'
    BY <1>1, <1>4, FilesAlone, UnlinkAlone
  <1> QED
    BY <1>2, <1>3, <1>4, Outline

\* What the running command must know for HEAD to keep its branch: the file it
\* has opened is the branch's, the branch it is about to check out exists, and
\* the one it is about to delete is not checked out.
Anchored(l) ==
  /\ l.linked
  /\ l.pc = "refWrite" => refs[l.branch] # Absent
  /\ l.pc \in {"headTrunc", "headWrite"} /\ l.newHead.kind = "branch"
       => refs[l.newHead.branch] # Absent
  /\ l.pc = "unlink" => ~(head.kind = "branch" /\ head.branch = l.branch)

AnchorOK == HeadHasBranch /\ \A p \in Procs : Anchored(proc[p])

LEMMA AnchorIdle == Anchored(Idle) /\ Anchored(Idle)'
  BY DEF Anchored, Idle

LEMMA AnchorStep ==
  ASSUME TypeOK, IdleOK, NEW p \in Procs, Alone(p), NEW l,
         proc' = [proc EXCEPT ![p] = l], Anchored(l)', HeadHasBranch'
  PROVE  AnchorOK'
  <1>1. \A q \in Procs : proc'[q] = IF q = p THEN l ELSE Idle
    BY DEF TypeOK, IdleOK, Alone
  <1>2. ASSUME NEW q \in Procs PROVE Anchored(proc[q])'
    <2>1. CASE q = p
      <3>1. proc'[q] = l
        BY <1>1, <2>1
      <3> QED
        BY <3>1 DEF Anchored
    <2>2. CASE q # p
      <3>1. proc'[q] = Idle
        BY <1>1, <2>2
      <3> QED
        BY <3>1, AnchorIdle DEF Anchored
    <2> QED
      BY <2>1, <2>2
  <1> QED
    BY <1>2 DEF AnchorOK

LEMMA AnchorQuiet ==
  ASSUME TypeOK, ControlOK, AnchorOK, NEW p \in Procs, NEW l, Quiet(p, l)
  PROVE  Anchored(l)' /\ HeadHasBranch'
  <1>0. refs' = refs /\ head' = head /\ Anchored(proc[p]) /\ Control(proc[p])
    BY DEF Quiet, FilesUnchanged, AnchorOK, ControlOK
  <1>1. HeadHasBranch'
    BY <1>0 DEF AnchorOK, HeadHasBranch
  <1>2. CASE l = Idle
    BY <1>1, <1>2, AnchorIdle
  <1>3. CASE Begins(l)
    <2>1. ASSUME NEW b \in Branches, refs[b] > 0, l.newHead = OnBranch(b)
          PROVE  refs[l.newHead.branch] # Absent
      BY <2>1 DEF OnBranch, Absent
    <2>2. ASSUME NEW c, l.newHead = Detached(c) PROVE l.newHead.kind # "branch"
      BY <2>2 DEF Detached
    <2> QED
      BY <1>0, <1>1, <1>3, <2>1, <2>2 DEF Begins, Anchored
  <1>4. CASE GoesOn(proc[p], l)
    <2>1. /\ l.pc \notin {"refWrite", "headTrunc", "headWrite", "unlink"}
          /\ l.linked = proc[p].linked
      BY <1>4 DEF GoesOn, GcPCs
    <2> QED
      BY <1>0, <1>1, <2>1 DEF Anchored
  <1> QED
    BY <1>2, <1>3, <1>4 DEF Quiet

LEMMA HeadBranchType ==
  ASSUME TypeOK, head.kind = "branch"
  PROVE  head.branch \in Branches
  BY DEF TypeOK, HeadStates, Unborn, TornHead, OnBranch, Detached

\* A step that writes a ref or HEAD.
LEMMA AnchorFiles ==
  ASSUME TypeOK, ControlOK, AnchorOK, IdleOK, NEW p \in Procs, Alone(p),
         \/ TruncateRef(p) \/ CreateRef(p) \/ WriteRef(p)
         \/ TruncateHead(p) \/ WriteHead(p) \/ Unlink(p)
  PROVE  AnchorOK'
  <1>0. /\ proc[p] \in Locals /\ Anchored(proc[p]) /\ Control(proc[p])
        /\ proc[p].branch \in Branches
    BY DEF TypeOK, Locals, AnchorOK, ControlOK
  <1>1. CASE TruncateRef(p) \/ CreateRef(p)
    <2>1. PICK l : /\ proc' = [proc EXCEPT ![p] = l]
                   /\ \/ l = Idle
                      \/ /\ l.pc = "refWrite" /\ l.linked = proc[p].linked
                         /\ l.branch = proc[p].branch
      BY <1>1, FilesStep DEF TruncateRef, CreateRef, At
    <2>2. /\ head' = head
          /\ refs' = refs \/ refs' = [refs EXCEPT ![proc[p].branch] = Torn]
          /\ l = Idle \/ refs' = [refs EXCEPT ![proc[p].branch] = Torn]
      <3>1. CASE refs[proc[p].branch] # Absent /\ CreateRef(p)
        <4>1. Stop(p) /\ refs' = refs /\ head' = head
          BY <3>1 DEF CreateRef
        <4>2. l = Idle
          BY <2>1, <4>1 DEF Stop, TypeOK
        <4> QED
          BY <4>1, <4>2
      <3> QED
        BY <1>1, <3>1 DEF TruncateRef, CreateRef
    <2>3. \A b \in Branches : refs[b] # Absent => refs'[b] # Absent
      BY <2>2 DEF TypeOK, Torn, Absent
    <2>4. HeadHasBranch'
      BY <2>2, <2>3, HeadBranchType DEF AnchorOK, HeadHasBranch
    <2>5. Anchored(l)'
      <3>1. CASE l = Idle
        BY <3>1, AnchorIdle
      <3>2. CASE l # Idle
        <4>1. refs'[proc[p].branch] # Absent
          BY <1>0, <2>2, <3>2 DEF TypeOK, Torn, Absent
        <4> QED
          BY <1>0, <2>1, <3>2, <4>1 DEF Anchored
      <3> QED
        BY <3>1, <3>2
    <2> QED
      BY <2>1, <2>4, <2>5, AnchorStep
  <1>2. CASE WriteRef(p)
    <2>1. PICK l : /\ proc' = [proc EXCEPT ![p] = l]
                   /\ \/ l = Idle
                      \/ /\ l.pc = "headTrunc" /\ l.linked = proc[p].linked
                         /\ l.newHead = OnBranch(proc[p].branch)
      BY <1>2, FilesStep DEF WriteRef, At
    <2>2. /\ head' = head /\ refs' = [refs EXCEPT ![proc[p].branch] = proc[p].new]
          /\ proc[p].new # Absent
      BY <1>0, <1>2 DEF WriteRef, Anchored, Control, At
    <2>3. /\ \A b \in Branches : refs[b] # Absent => refs'[b] # Absent
          /\ refs'[proc[p].branch] # Absent
      BY <1>0, <2>2 DEF TypeOK
    <2>4. HeadHasBranch'
      BY <2>2, <2>3, HeadBranchType DEF AnchorOK, HeadHasBranch
    <2>5. Anchored(l)'
      <3>1. CASE l = Idle
        BY <3>1, AnchorIdle
      <3>2. CASE l # Idle
        <4>1. /\ l.newHead = OnBranch(proc[p].branch) /\ l.pc = "headTrunc"
              /\ l.linked = proc[p].linked
          BY <2>1, <3>2
        <4>2. l.newHead.branch = proc[p].branch
          BY <4>1 DEF OnBranch
        <4>3. l.linked
          BY <1>0, <4>1 DEF Anchored
        <4> QED
          BY <2>3, <4>1, <4>2, <4>3 DEF Anchored
      <3> QED
        BY <3>1, <3>2
    <2> QED
      BY <2>1, <2>4, <2>5, AnchorStep
  <1>3. CASE TruncateHead(p)
    <2>1. PICK l : /\ proc' = [proc EXCEPT ![p] = l]
                   /\ \/ l = Idle
                      \/ /\ l.pc = "headWrite" /\ l.linked = proc[p].linked
                         /\ l.newHead = proc[p].newHead
      BY <1>3, FilesStep DEF TruncateHead, At
    <2>2. refs' = refs /\ head'.kind # "branch" /\ proc[p].pc = "headTrunc"
      BY <1>3 DEF TruncateHead, TornHead, At
    <2>3. HeadHasBranch'
      BY <2>2 DEF HeadHasBranch
    <2>4. Anchored(l)'
      <3>1. CASE l = Idle
        BY <3>1, AnchorIdle
      <3>2. CASE l # Idle
        BY <1>0, <2>1, <2>2, <3>2 DEF Anchored
      <3> QED
        BY <3>1, <3>2
    <2> QED
      BY <2>1, <2>3, <2>4, AnchorStep
  <1>4. CASE WriteHead(p)
    <2>1. /\ proc' = [proc EXCEPT ![p] = Idle] /\ refs' = refs
          /\ head' = proc[p].newHead /\ proc[p].pc = "headWrite"
      BY <1>4 DEF WriteHead, Stop, At
    <2>2. HeadHasBranch'
      BY <1>0, <2>1 DEF Anchored, HeadHasBranch
    <2> QED
      BY <2>1, <2>2, AnchorStep, AnchorIdle
  <1>5. CASE Unlink(p)
    <2>1. /\ proc' = [proc EXCEPT ![p] = Idle] /\ head' = head
          /\ refs' = [refs EXCEPT ![proc[p].branch] = Absent]
          /\ proc[p].pc = "unlink"
      BY <1>5, UnlinkAlone DEF Unlink, At
    <2>2. HeadHasBranch'
      <3> SUFFICES ASSUME head.kind = "branch" PROVE refs'[head.branch] # Absent
        BY <2>1 DEF HeadHasBranch
      <3>1. head.branch \in Branches /\ head.branch # proc[p].branch
        BY <1>0, <2>1, HeadBranchType DEF Anchored
      <3> QED
        BY <2>1, <3>1 DEF TypeOK, AnchorOK, HeadHasBranch
    <2> QED
      BY <2>1, <2>2, AnchorStep, AnchorIdle
  <1> QED
    BY <1>1, <1>2, <1>3, <1>4, <1>5

LEMMA AnchorNext ==
  ASSUME Serial, TypeOK, ControlOK, IdleOK, OneAtATime, AnchorOK, Next
  PROVE  AnchorOK'
  <1>1. ASSUME NEW p \in Procs, NEW l, Quiet(p, l) PROVE AnchorOK'
    <2>1. Anchored(l)' /\ HeadHasBranch'
      BY <1>1, AnchorQuiet
    <2>2. CASE Alone(p)
      BY <1>1, <2>1, <2>2, AnchorStep DEF Quiet
    <2>3. CASE proc' = proc
      <3>1. refs' = refs /\ head' = head
        BY <1>1 DEF Quiet, FilesUnchanged
      <3> QED
        BY <2>3, <3>1 DEF AnchorOK, HeadHasBranch, Anchored
    <2> QED
      BY <1>1, <2>2, <2>3, QuietAlone
  <1> QED
    BY <1>1, Outline, FilesAlone, AnchorFiles DEF Quietly

\* One command at a time, dying anywhere, any commit typed: HEAD never names a
\* branch without a ref.
THEOREM HeadKeepsBranch ==
  ASSUME Serial
  PROVE  Spec => []HeadHasBranch
  <1> DEFINE Inv == TypeOK /\ ControlOK /\ IdleOK /\ OneAtATime /\ AnchorOK
  <1>1. Init => Inv
    <2> SUFFICES ASSUME Init PROVE Inv
      OBVIOUS
    <2>1. \A p \in Procs : proc[p] = Idle
      BY DEF Init
    <2>2. Idle.pc = "idle"
      BY DEF Idle
    <2>3. HeadHasBranch
      BY DEF Init, HeadHasBranch, Unborn
    <2> QED
      BY <2>1, <2>2, <2>3, InitType, ControlIdle, AnchorIdle
         DEF ControlOK, IdleOK, OneAtATime, AnchorOK, At
  <1>2. Inv /\ [Next]_vars => Inv'
    <2> SUFFICES ASSUME Inv, [Next]_vars PROVE Inv'
      OBVIOUS
    <2>1. CASE Next
      BY <2>1, TypeNext, ControlNext, AloneNext, AnchorNext
    <2>2. CASE UNCHANGED vars
      <3>1. TypeOK'
        BY <2>2, LocalStep DEF vars, TypeOK, ObjectsUnchanged, FilesUnchanged
      <3>2. ControlOK' /\ IdleOK' /\ OneAtATime'
        BY <2>2 DEF vars, ControlOK, IdleOK, OneAtATime, At
      <3>3. AnchorOK'
        BY <2>2 DEF vars, AnchorOK, HeadHasBranch, Anchored
      <3> QED
        BY <3>1, <3>2, <3>3
    <2> QED
      BY <2>1, <2>2
  <1>3. Inv => HeadHasBranch
    BY DEF AnchorOK
  <1> QED
    BY <1>1, <1>2, <1>3, PTL DEF Spec

-----------------------------------------------------------------------------
(* gc leaves no garbage, as long as one command runs at a time *)

LiveSnapshots == {commits[c].snapshot : c \in Reach(Heads)}
LiveManifests == {snaps[s] : s \in LiveSnapshots}
LiveRows      == UNION {RowsOf(m) : m \in LiveManifests}

\* The collector has found no seed but the heads, so it marks nothing but what
\* they lead to, and what is on disk is marked or waits to be deleted.
Precise(l) ==
  /\ l.pc \in {"gcRefs", "gcHead", "gcMark"} => l.seeds \subseteq Heads
  /\ l.pc = "gcSweep" =>
       /\ l.mark.commit \subseteq Reach(Heads)
       /\ l.mark.snapshot \subseteq LiveSnapshots
       /\ l.mark.manifest \subseteq LiveManifests
       /\ l.mark.row \subseteq LiveRows
       /\ store.commit \subseteq l.mark.commit \cup l.pending.commit
       /\ store.snapshot \subseteq l.mark.snapshot \cup l.pending.snapshot
       /\ store.manifest \subseteq l.mark.manifest \cup l.pending.manifest
       /\ store.row \subseteq l.mark.row \cup l.pending.row

PreciseOK == \A p \in Procs : Precise(proc[p])

\* Nothing is precise about a process that does not collect.
LEMMA PreciseElsewhere ==
  ASSUME NEW l, l.pc \notin GcPCs
  PROVE  Precise(l) /\ Precise(l)'
  BY DEF Precise, GcPCs

LEMMA PreciseIdle == Precise(Idle) /\ Precise(Idle)'
  BY PreciseElsewhere DEF Idle, GcPCs

LEMMA PreciseStep ==
  ASSUME TypeOK, IdleOK, NEW p \in Procs, Alone(p), NEW l,
         proc' = [proc EXCEPT ![p] = l], Precise(l)'
  PROVE  PreciseOK'
  <1>1. \A q \in Procs : proc'[q] = IF q = p THEN l ELSE Idle
    BY DEF TypeOK, IdleOK, Alone
  <1>2. ASSUME NEW q \in Procs PROVE Precise(proc[q])'
    <2>1. CASE q = p
      <3>1. proc'[q] = l
        BY <1>1, <2>1
      <3> QED
        BY <3>1 DEF Precise
    <2>2. CASE q # p
      <3>1. proc'[q] = Idle
        BY <1>1, <2>2
      <3>2. Idle.pc \notin GcPCs
        BY DEF Idle, GcPCs
      <3> QED
        BY <3>1, <3>2 DEF Precise, GcPCs
    <2> QED
      BY <2>1, <2>2
  <1> QED
    BY <1>2 DEF PreciseOK

\* Files and objects stay as they are, and so does what is live.
LEMMA SameLive ==
  ASSUME UNCHANGED <<commits, snaps>>, FilesUnchanged
  PROVE  /\ Heads' = Heads /\ Reach(Heads)' = Reach(Heads)
         /\ LiveSnapshots' = LiveSnapshots /\ LiveManifests' = LiveManifests
         /\ LiveRows' = LiveRows
  BY DEF FilesUnchanged, Heads, Reach, LiveSnapshots, LiveManifests, LiveRows

LEMMA PreciseQuiet ==
  ASSUME ObjectsUnchanged, FilesUnchanged, NEW l, Precise(l)
  PROVE  Precise(l)'
  BY SameLive DEF Precise, ObjectsUnchanged

LEMMA HeadIsRoot == head.kind = "detached" => head.commit \in Heads
  BY DEF Heads

LEMMA PreciseReads ==
  ASSUME TypeOK, PreciseOK, NEW p \in Procs,
         StartGc(p) \/ GcReadRef(p) \/ (GcReadHead(p) /\ ~Stop(p))
  PROVE  \E l : proc' = [proc EXCEPT ![p] = l] /\ Precise(l)
  <1>0. proc[p] \in Locals /\ Precise(proc[p])
    BY DEF TypeOK, PreciseOK
  <1>1. CASE StartGc(p)
    <2> DEFINE k == [[Idle EXCEPT !.cmd = "gc", !.names = Listed]
                      EXCEPT !.pc = "gcRefs"]
    <2>1. k.pc = "gcRefs" /\ k.seeds = {}
      BY DEF Idle
    <2>2. proc' = [proc EXCEPT ![p] = k]
      BY <1>1 DEF StartGc, Step
    <2> HIDE DEF k
    <2>3. Precise(k)
      BY <2>1 DEF Precise
    <2> QED
      BY <2>2, <2>3
  <1>2. CASE GcReadRef(p)
    <2>0. proc[p].pc = "gcRefs" /\ proc[p].seeds \subseteq Heads
      BY <1>0, <1>2 DEF GcReadRef, At, Precise
    <2>1. ASSUME NEW b \in proc[p].names,
                 Step(p, [proc[p] EXCEPT !.names = @ \ {b},
                            !.seeds = IF refs[b] > 0 THEN @ \cup {refs[b]} ELSE @],
                      "gcRefs")
          PROVE  \E l : proc' = [proc EXCEPT ![p] = l] /\ Precise(l)
      <3> DEFINE k == [[proc[p] EXCEPT !.names = @ \ {b},
                            !.seeds = IF refs[b] > 0 THEN @ \cup {refs[b]} ELSE @]
                        EXCEPT !.pc = "gcRefs"]
      <3>1. /\ k.pc = "gcRefs"
            /\ k.seeds = IF refs[b] > 0 THEN proc[p].seeds \cup {refs[b]}
                         ELSE proc[p].seeds
        BY <1>0 DEF Locals
      <3>2. proc' = [proc EXCEPT ![p] = k]
        BY <2>1 DEF Step
      <3> HIDE DEF k
      <3>3. refs[b] > 0 => refs[b] \in Heads
        BY <1>0, <2>1 DEF Heads, Locals
      <3>4. Precise(k)
        BY <2>0, <3>1, <3>3 DEF Precise
      <3> QED
        BY <3>2, <3>4
    <2>2. CASE Step(p, proc[p], "gcHead")
      <3> DEFINE k == [proc[p] EXCEPT !.pc = "gcHead"]
      <3>1. k.pc = "gcHead" /\ k.seeds = proc[p].seeds
        BY <1>0 DEF Locals
      <3>2. proc' = [proc EXCEPT ![p] = k]
        BY <2>2 DEF Step
      <3> HIDE DEF k
      <3>3. Precise(k)
        BY <2>0, <3>1 DEF Precise
      <3> QED
        BY <3>2, <3>3
    <2> QED
      BY <1>2, <2>1, <2>2 DEF GcReadRef
  <1>3. CASE GcReadHead(p) /\ ~Stop(p)
    <2>0. proc[p].pc = "gcHead" /\ proc[p].seeds \subseteq Heads
      BY <1>0, <1>3 DEF GcReadHead, At, Precise
    <2> DEFINE k == [[proc[p] EXCEPT !.seeds =
                        IF head.kind = "detached" THEN @ \cup {head.commit} ELSE @]
                      EXCEPT !.pc = "gcMark"]
    <2>1. /\ k.pc = "gcMark"
          /\ k.seeds = IF head.kind = "detached" THEN proc[p].seeds \cup {head.commit}
                       ELSE proc[p].seeds
      BY <1>0 DEF Locals
    <2>2. proc' = [proc EXCEPT ![p] = k]
      BY <1>3 DEF GcReadHead, Step
    <2> HIDE DEF k
    <2>3. Precise(k)
      BY <2>0, <2>1, HeadIsRoot DEF Precise
    <2> QED
      BY <2>2, <2>3
  <1> QED
    BY <1>1, <1>2, <1>3

\* The marking phase marks what the seeds lead to.
LEMMA MarkedPrecisely ==
  ASSUME TypeOK, NEW S, S \subseteq Heads
  PROVE  /\ Marked(S).commit \subseteq Reach(Heads)
         /\ Marked(S).snapshot \subseteq LiveSnapshots
         /\ Marked(S).manifest \subseteq LiveManifests
         /\ Marked(S).row \subseteq LiveRows
  <1> DEFINE ss == {commits[d].snapshot : d \in Reach(S)}
             ms == {snaps[s] : s \in ss \cap store.snapshot}
             rs == UNION {RowsOf(m) : m \in ms \cap store.manifest}
  <1>1. Reach(S) \subseteq Reach(Heads)
    BY DEF Reach, Reachable
  <1>2. ss \subseteq LiveSnapshots
    BY <1>1 DEF LiveSnapshots
  <1>3. ms \subseteq LiveManifests
    BY <1>2 DEF LiveManifests
  <1>4. rs \subseteq LiveRows
    BY <1>3 DEF LiveRows
  <1>5. Marked(S) = [commit |-> Reach(S), snapshot |-> ss, manifest |-> ms, row |-> rs]
    BY DEF Marked
  <1>6. /\ Marked(S).commit = Reach(S) /\ Marked(S).snapshot = ss
        /\ Marked(S).manifest = ms /\ Marked(S).row = rs
    BY <1>5
  <1> HIDE DEF ss, ms, rs
  <1> QED
    BY <1>1, <1>2, <1>3, <1>4, <1>6

LEMMA MinusCovers ==
  ASSUME NEW A, NEW B
  PROVE  /\ A.commit \subseteq B.commit \cup Minus(A, B).commit
         /\ A.snapshot \subseteq B.snapshot \cup Minus(A, B).snapshot
         /\ A.manifest \subseteq B.manifest \cup Minus(A, B).manifest
         /\ A.row \subseteq B.row \cup Minus(A, B).row
  BY DEF Minus

LEMMA PreciseMarks ==
  ASSUME TypeOK, PreciseOK, NEW p \in Procs, GcMark(p), ~Stop(p)
  PROVE  \E l : proc' = [proc EXCEPT ![p] = l] /\ Precise(l)
  <1>0. proc[p] \in Locals /\ proc[p].seeds \subseteq Heads
    BY DEF TypeOK, PreciseOK, Precise, GcMark, At
  <1>1. PICK m, w : /\ m = Marked(proc[p].seeds) /\ w = Minus(store, m)
                    /\ Step(p, [proc[p] EXCEPT !.mark = m, !.pending = w], "gcSweep")
    BY DEF GcMark
  <1> DEFINE k == [[proc[p] EXCEPT !.mark = m, !.pending = w] EXCEPT !.pc = "gcSweep"]
  <1>2. k.pc = "gcSweep" /\ k.mark = m /\ k.pending = w
    BY <1>0 DEF Locals
  <1>3. proc' = [proc EXCEPT ![p] = k]
    BY <1>1 DEF Step
  <1> HIDE DEF k
  <1>4. Precise(k)
    BY <1>0, <1>1, <1>2, MarkedPrecisely, MinusCovers DEF Precise
  <1> QED
    BY <1>3, <1>4

LEMMA PreciseSweep ==
  ASSUME TypeOK, PreciseOK, NEW p \in Procs, GcSweep(p)
  PROVE  PreciseOK'
  <1>1. /\ store'.row \subseteq store.row /\ store'.manifest \subseteq store.manifest
        /\ store'.snapshot \subseteq store.snapshot
        /\ store'.commit \subseteq store.commit
    BY DEF GcSweep, TypeOK, Stores
  <1>2. UNCHANGED <<commits, snaps, proc>> /\ FilesUnchanged
    BY DEF GcSweep
  <1> QED
    BY <1>1, <1>2, SameLive DEF PreciseOK, Precise

LEMMA PreciseNext ==
  ASSUME Serial, TypeOK, ControlOK, IdleOK, OneAtATime, PreciseOK, Next
  PROVE  PreciseOK'
  <1>1. ASSUME NEW p \in Procs,
               \/ StartAnalyze(p) \/ PutRow(p) \/ PutManifest(p) \/ PutSnapshot(p)
               \/ ResolveBranch(p) \/ ResolvePrevious(p) \/ PutCommit(p)
               \/ TruncateRef(p) \/ CreateRef(p) \/ WriteRef(p)
               \/ TruncateHead(p) \/ WriteHead(p) \/ Checkout(p) \/ BranchFrom(p)
               \/ DeleteBranch(p) \/ StartMerge(p) \/ MergeOurs(p) \/ MergeTheirs(p)
               \/ ThreeWayMerge(p) \/ MergeDryRun(p) \/ Crash(p)
        PROVE  PreciseOK'
    <2>1. ~At(p, "idle") \/ \E cmd \in AllCommands : Start(p, cmd)
      <3> USE DEF AllCommands
      <3>1. CASE \/ StartAnalyze(p) \/ Checkout(p) \/ BranchFrom(p)
                 \/ DeleteBranch(p) \/ StartMerge(p)
        BY <3>1 DEF StartAnalyze, Checkout, BranchFrom, DeleteBranch, StartMerge
      <3>2. CASE ~(\/ StartAnalyze(p) \/ Checkout(p) \/ BranchFrom(p)
                   \/ DeleteBranch(p) \/ StartMerge(p))
        BY <1>1, <3>2
           DEF PutRow, PutManifest, PutSnapshot, ResolveBranch, ResolvePrevious,
               PutCommit, TruncateRef, CreateRef, WriteRef, TruncateHead, WriteHead,
               MergeOurs, MergeTheirs, ThreeWayMerge, MergeDryRun, Crash, At
      <3> QED
        BY <3>1, <3>2
    <2>2. Alone(p)
      BY <2>1, ActsAlone DEF Alone
    <2>3. \E l : proc' = [proc EXCEPT ![p] = l] /\ l.pc \notin GcPCs
      BY <1>1, MovesElsewhere DEF Moves
    <2> QED
      BY <2>2, <2>3, PreciseStep, PreciseElsewhere
  <1>2. ASSUME NEW p \in Procs, Unlink(p) PROVE PreciseOK'
    BY <1>2, FilesAlone, UnlinkAlone, PreciseStep, PreciseIdle
  <1>3. ASSUME NEW p \in Procs,
               \/ StartGc(p) \/ GcReadRef(p) \/ GcReadHead(p) \/ GcMark(p) \/ GcDone(p)
        PROVE  PreciseOK'
    <2>1. ~At(p, "idle") \/ \E cmd \in AllCommands : Start(p, cmd)
      BY <1>3 DEF AllCommands, StartGc, GcReadRef, GcReadHead, GcMark, GcDone, At
    <2>2. Alone(p)
      BY <2>1, ActsAlone DEF Alone
    <2>3. ObjectsUnchanged /\ FilesUnchanged
      BY <1>3 DEF StartGc, GcReadRef, GcReadHead, GcMark, GcDone
    <2>4. CASE Stop(p)
      BY <2>2, <2>4, PreciseStep, PreciseIdle DEF Stop
    <2>5. CASE ~Stop(p)
      <3>1. \E l : proc' = [proc EXCEPT ![p] = l] /\ Precise(l)
        BY <1>3, <2>5, PreciseReads, PreciseMarks DEF GcDone
      <3> QED
        BY <2>2, <2>3, <3>1, PreciseStep, PreciseQuiet
    <2> QED
      BY <2>4, <2>5
  <1> QED
    BY <1>1, <1>2, <1>3, PreciseSweep DEF Next

\* One command at a time, dying anywhere, any commit typed: a gc that gets to
\* its end has deleted every object that no ref leads to.
THEOREM GcCollectsAll ==
  ASSUME Serial
  PROVE  Spec => GcCollects
  <1> DEFINE Inv == TypeOK /\ ControlOK /\ IdleOK /\ OneAtATime /\ PreciseOK
  <1>1. Init => Inv
    <2> SUFFICES ASSUME Init PROVE Inv
      OBVIOUS
    <2>1. \A p \in Procs : proc[p] = Idle
      BY DEF Init
    <2>2. Idle.pc = "idle"
      BY DEF Idle
    <2> QED
      BY <2>1, <2>2, InitType, ControlIdle, PreciseIdle
         DEF ControlOK, IdleOK, OneAtATime, PreciseOK, At
  <1>2. Inv /\ [Next]_vars => Inv'
    <2> SUFFICES ASSUME Inv, [Next]_vars PROVE Inv'
      OBVIOUS
    <2>1. CASE Next
      BY <2>1, TypeNext, ControlNext, AloneNext, PreciseNext
    <2>2. CASE UNCHANGED vars
      <3>1. TypeOK'
        BY <2>2, LocalStep DEF vars, TypeOK, ObjectsUnchanged, FilesUnchanged
      <3>2. ControlOK' /\ IdleOK' /\ OneAtATime'
        BY <2>2 DEF vars, ControlOK, IdleOK, OneAtATime, At
      <3>3. PreciseOK'
        BY <2>2, SameLive DEF vars, FilesUnchanged, PreciseOK, Precise
      <3> QED
        BY <3>1, <3>2, <3>3
    <2> QED
      BY <2>1, <2>2
  <1> DEFINE Collects ==
        \A p \in Procs : GcDone(p) =>
          LET live == Reach(Heads)
              snapshots == {commits[c].snapshot : c \in live}
              manifests == {snaps[s] : s \in snapshots}
          IN /\ store.commit \subseteq live
             /\ store.snapshot \subseteq snapshots
             /\ store.manifest \subseteq manifests
             /\ store.row \subseteq UNION {RowsOf(m) : m \in manifests}
  <1>3. Inv => Collects
    <2> SUFFICES ASSUME Inv, NEW p \in Procs, GcDone(p)
                 PROVE  /\ store.commit \subseteq Reach(Heads)
                        /\ store.snapshot \subseteq LiveSnapshots
                        /\ store.manifest \subseteq LiveManifests
                        /\ store.row \subseteq LiveRows
      BY DEF LiveSnapshots, LiveManifests, LiveRows
    <2>1. Precise(proc[p]) /\ proc[p].pc = "gcSweep"
      BY DEF PreciseOK, GcDone, At
    <2>2. /\ proc[p].pending.row \cap store.row = {}
          /\ proc[p].pending.manifest \cap store.manifest = {}
          /\ proc[p].pending.snapshot \cap store.snapshot = {}
          /\ proc[p].pending.commit \cap store.commit = {}
      BY DEF GcDone
    <2> QED
      BY <2>1, <2>2 DEF Precise
  <1>4. Spec => []Inv
    BY <1>1, <1>2, PTL DEF Spec
  <1> QED
    BY <1>3, <1>4, PTL DEF GcCollects

-----------------------------------------------------------------------------
(* Branches only advance, as long as commands run one at a time to their end on
   branches *)

LEMMA DagNext ==
  ASSUME TypeOK, ControlOK, IsDag(commits), Next
  PROVE  IsDag(commits') /\ Len(commits) <= Len(commits')
         /\ \A c \in CommitIds : commits'[c] = commits[c]
  <1>0. Len(commits) \in Nat
    BY DEF TypeOK
  <1>1. CASE commits' = commits
    BY <1>0, <1>1
  <1>2. ASSUME NEW p \in Procs, PutCommit(p)
        PROVE  IsDag(commits') /\ Len(commits) <= Len(commits')
               /\ \A c \in CommitIds : commits'[c] = commits[c]
    <2> DEFINE n == Len(commits)
    <2>1. PICK ps : /\ ps = (IF proc[p].prev = Absent THEN <<>> ELSE <<proc[p].prev>>)
                            \o (IF proc[p].cmd = "merge" THEN <<proc[p].theirs>> ELSE <<>>)
                    /\ commits' = Append(commits, [snapshot |-> proc[p].snap, parents |-> ps])
      BY <1>2 DEF PutCommit
    <2>2. /\ Control(proc[p]) /\ At(p, "commit")
          /\ proc[p].prev \in CommitIds \cup {Absent}
          /\ proc[p].theirs \in CommitIds \cup {Absent}
      BY <1>2 DEF ControlOK, PutCommit, TypeOK, Locals
    <2>3. proc[p].cmd = "merge" => proc[p].theirs \in CommitIds
      BY <2>2 DEF Control, At
    <2>4. ps \in Seq(1..n) /\ Len(ps) <= 2
      <3> PICK D : D = CommitIds
        OBVIOUS
      <3>1. PICK a : a = IF proc[p].prev = Absent THEN <<>> ELSE <<proc[p].prev>>
        OBVIOUS
      <3>2. PICK b : b = IF proc[p].cmd = "merge" THEN <<proc[p].theirs>> ELSE <<>>
        OBVIOUS
      <3>3. \A x \in D : <<x>> \in Seq(D) /\ Len(<<x>>) = 1
        OBVIOUS
      <3>4. <<>> \in Seq(D) /\ Len(<<>>) = 0
        OBVIOUS
      <3>5. a \in Seq(D) /\ Len(a) \in {0, 1}
        BY <2>2, <3>1, <3>3, <3>4
      <3>6. b \in Seq(D) /\ Len(b) \in {0, 1}
        BY <2>3, <3>2, <3>3, <3>4
      <3>7. a \o b \in Seq(D) /\ Len(a \o b) = Len(a) + Len(b)
        BY <3>5, <3>6
      <3> QED
        BY <2>1, <3>1, <3>2, <3>5, <3>6, <3>7 DEF CommitIds
    <2>5. PICK r : r = [snapshot |-> proc[p].snap, parents |-> ps]
      OBVIOUS
    <2>6. /\ Len(commits') = n + 1 /\ DOMAIN commits' = 1..(n + 1)
          /\ \A c \in 1..n : commits'[c] = commits[c]
          /\ commits'[n + 1] = r
      BY <2>1, <2>5 DEF TypeOK
    <2>7. ASSUME NEW c \in 1..(n + 1)
          PROVE  commits'[c].parents \in Seq(1..(c - 1)) /\ Len(commits'[c].parents) <= 2
      <3>1. CASE c \in 1..n
        BY <2>6, <3>1 DEF IsDag
      <3>2. CASE c = n + 1
        <4>1. c - 1 = n /\ commits'[c].parents = ps
          BY <1>0, <2>5, <2>6, <3>2
        <4> QED
          BY <2>4, <4>1
      <3> QED
        BY <1>0, <3>1, <3>2
    <2>8. IsDag(commits')
      BY <1>0, <2>6, <2>7 DEF IsDag
    <2> QED
      BY <1>0, <2>6, <2>8 DEF CommitIds
  <1>3. (\E p \in Procs : PutCommit(p)) \/ commits' = commits
    BY DEF Next, StartAnalyze, PutRow, PutManifest, PutSnapshot, ResolveBranch,
           ResolvePrevious, TruncateRef, CreateRef, WriteRef, TruncateHead, WriteHead,
           Checkout, BranchFrom, DeleteBranch, Unlink, StartMerge, MergeOurs,
           MergeTheirs, ThreeWayMerge, MergeDryRun, StartGc, GcReadRef, GcReadHead,
           GcMark, GcSweep, GcDone, Crash, ObjectsUnchanged
  <1> QED
    BY <1>1, <1>2, <1>3

\* A command that moves a branch and knows the commit it is going to drop.
HasPrev(l) == \/ l.pc \in {"mergeTheirs", "mergeRows", "commit", "refTrunc"}
              \/ l.pc \in {"manifest", "snapshot"} /\ l.cmd = "merge"

\* What the running command knows of the files: the branch it read from HEAD, the
\* head of the branch it moves, and that before the first commit there is
\* nothing to merge, to check out or to make a branch of.
Aware(l) ==
  /\ l.pc \in {"headTrunc", "headWrite"} => l.newHead.kind = "branch"
  /\ l.pc = "prev" => l.branch = IF head.kind = "branch" THEN head.branch ELSE Main
  /\ l.pc = "mergeOurs" => head.kind = "branch" /\ l.branch = head.branch
  /\ HasPrev(l) /\ refs[l.branch] > 0 => refs[l.branch] = l.prev
  /\ l.pc = "refTrunc" /\ refs[l.branch] > 0 => l.prev \in Ancestors(commits, l.new)
  /\ head.kind = "unborn" =>
       /\ l.pc \notin {"mergeOurs", "mergeTheirs", "mergeRows", "refCreate"}
       /\ l.pc \in {"manifest", "snapshot"} => l.cmd = "analyze"
       /\ l.pc \in {"commit", "refTrunc", "refWrite"} => l.cmd = "analyze" /\ l.prev = Absent

\* HEAD is torn while it is written; it is unborn until the first analyze has
\* written the first ref.
HeadKnown ==
  /\ head.kind # "detached"
  /\ head.kind = "torn" => \E p \in Procs : At(p, "headWrite")
  /\ head.kind = "unborn" => \/ \A b \in Branches : refs[b] = Absent
                             \/ \E p \in Procs : At(p, "refWrite") \/ At(p, "headTrunc")

AdvanceOK == HeadKnown /\ \A p \in Procs : Aware(proc[p])

LEMMA AwareIdle == Aware(Idle) /\ Aware(Idle)'
  BY DEF Aware, Idle, HasPrev

LEMMA AwareStep ==
  ASSUME TypeOK, IdleOK, NEW p \in Procs, Alone(p), NEW l,
         proc' = [proc EXCEPT ![p] = l], Aware(l)', HeadKnown'
  PROVE  AdvanceOK'
  <1>1. \A q \in Procs : proc'[q] = IF q = p THEN l ELSE Idle
    BY DEF TypeOK, IdleOK, Alone
  <1>2. ASSUME NEW q \in Procs PROVE Aware(proc[q])'
    <2>1. CASE q = p
      <3>1. proc'[q] = l
        BY <1>1, <2>1
      <3> QED
        BY <3>1 DEF Aware, HasPrev
    <2>2. CASE q # p
      <3>1. proc'[q] = Idle
        BY <1>1, <2>2
      <3> QED
        BY <3>1, AwareIdle DEF Aware, HasPrev
    <2> QED
      BY <2>1, <2>2
  <1> QED
    BY <1>2 DEF AdvanceOK

\* What p may rely on when nobody else runs.
LEMMA HeadSeen ==
  ASSUME HeadKnown, NEW p \in Procs, Alone(p), TypeOK
  PROVE  /\ ~At(p, "headWrite") => head.kind \in {"unborn", "branch"}
         /\ head.kind = "unborn" /\ ~At(p, "refWrite") /\ ~At(p, "headTrunc")
              => \A b \in Branches : refs[b] = Absent
         /\ head.kind = "branch" => HeadCommit = refs[head.branch]
         /\ head.kind = "unborn" => HeadCommit = Absent
  <1>1. head.kind \in {"unborn", "torn", "branch", "detached"}
    BY DEF TypeOK, HeadStates, Unborn, TornHead, OnBranch, Detached
  <1> QED
    BY <1>1 DEF HeadKnown, Alone, At, HeadCommit

\* A command in the middle of writing a file goes on quietly only by dying.
LEMMA QuietElsewhere ==
  ASSUME ~Crashes, NEW p \in Procs,
         \/ StartAnalyze(p) \/ PutRow(p) \/ PutManifest(p) \/ PutSnapshot(p)
         \/ ResolveBranch(p) \/ ResolvePrevious(p) \/ PutCommit(p)
         \/ Checkout(p) \/ BranchFrom(p) \/ DeleteBranch(p)
         \/ StartMerge(p) \/ MergeOurs(p) \/ MergeTheirs(p) \/ ThreeWayMerge(p)
         \/ MergeDryRun(p)
         \/ StartGc(p) \/ GcReadRef(p) \/ GcReadHead(p) \/ GcMark(p)
         \/ GcSweep(p) \/ GcDone(p)
         \/ Crash(p)
  PROVE  proc[p].pc \notin {"refWrite", "headTrunc", "headWrite"}
  BY DEF StartAnalyze, PutRow, PutManifest, PutSnapshot, ResolveBranch,
         ResolvePrevious, PutCommit, Checkout, BranchFrom, DeleteBranch, StartMerge,
         MergeOurs, MergeTheirs, ThreeWayMerge, MergeDryRun, StartGc, GcReadRef,
         GcReadHead, GcMark, GcSweep, GcDone, Crash, Start, At

LEMMA OutlineAlive ==
  ASSUME TypeOK, ControlOK, Next, ~Crashes
  PROVE  \E p \in Procs :
           \/ Quietly(p) /\ proc[p].pc \notin {"refWrite", "headTrunc", "headWrite"}
           \/ TruncateRef(p) \/ CreateRef(p) \/ WriteRef(p)
           \/ TruncateHead(p) \/ WriteHead(p) \/ Unlink(p)
  <1>1. ASSUME NEW p \in Procs,
               \/ StartAnalyze(p) \/ Checkout(p) \/ BranchFrom(p) \/ DeleteBranch(p)
               \/ StartMerge(p) \/ StartGc(p)
        PROVE  Quietly(p)
    <2>1. \E cmd : Start(p, cmd)
      BY <1>1 DEF StartAnalyze, Checkout, BranchFrom, DeleteBranch, StartMerge, StartGc
    <2> QED
      BY <1>1, <2>1, QuietBegins
  <1> QED
    BY <1>1, QuietAnalyze, QuietCommit, QuietMerge, QuietGc, QuietElsewhere DEF Next

\* A command that goes on knows of the files what it has just read of them.
LEMMA AwareGoesOn ==
  ASSUME Typed = "none", TypeOK, ControlOK, IsDag(commits), IsDag(commits'),
         Len(commits) <= Len(commits'),
         \A c \in CommitIds : commits'[c] = commits[c],
         AdvanceOK, NEW p \in Procs, Alone(p), NEW l, Quiet(p, l), GoesOn(proc[p], l)
  PROVE  Aware(l)'
  <1> DEFINE k == proc[p]
  <1>0. /\ refs' = refs /\ head' = head /\ Aware(k) /\ Control(k) /\ HeadKnown
        /\ k.pc \in PCs
        /\ k.prev \in CommitIds \cup {Absent} /\ k.theirs \in CommitIds \cup {Absent}
        /\ k.branch \in Branches
        /\ refs \in [Branches -> CommitIds \cup {Absent, Torn}]
    BY DEF Quiet, FilesUnchanged, AdvanceOK, ControlOK, TypeOK, Locals
  <1>1. /\ ~At(p, "headWrite") /\ ~At(p, "refWrite") /\ ~At(p, "headTrunc")
    BY DEF GoesOn, At, GcPCs
  <1>2. /\ head.kind \in {"unborn", "branch"}
        /\ head.kind = "unborn" => \A b \in Branches : refs[b] = Absent
        /\ head.kind = "branch" => HeadCommit = refs[head.branch]
        /\ head.kind = "unborn" => HeadCommit = Absent
    BY <1>0, <1>1, HeadSeen
  <1> PICK m : m = k
    OBVIOUS
  <1>3. CASE m.pc \in {"rows", "manifest", "snapshot"}
    <2>1. /\ l.cmd = m.cmd /\ l.branch = m.branch /\ l.prev = m.prev
          /\ \/ l.pc \in {"rows", "manifest", "snapshot"}
             \/ l.pc = "commit" /\ m.cmd = "merge"
             \/ l.pc = "branch" /\ m.cmd # "merge"
      BY <1>3 DEF GoesOn, GcPCs
    <2>2. /\ m.pc = "rows" => m.cmd = "analyze"
          /\ m.pc \in {"manifest", "snapshot"} => m.cmd \in {"analyze", "merge"}
          /\ head.kind = "unborn" /\ m.pc \in {"manifest", "snapshot"} => m.cmd = "analyze"
          /\ m.cmd = "merge" /\ refs[m.branch] > 0 => refs[m.branch] = m.prev
      BY <1>0, <1>3 DEF Control, Aware, HasPrev
    <2> HIDE DEF k
    <2> QED
      BY <1>0, <1>3, <2>1, <2>2 DEF Aware, HasPrev
  <1>4. CASE m.pc = "branch"
    <2>1. /\ l.pc = "prev"
          /\ l.branch = IF head.kind = "branch" THEN head.branch ELSE Main
      BY <1>4 DEF GoesOn, GcPCs
    <2> QED
      BY <1>0, <2>1 DEF Aware, HasPrev
  <1>5. CASE m.pc = "prev"
    <2>1. l.pc = "commit" /\ l.branch = m.branch /\ l.prev = HeadCommit /\ l.cmd = m.cmd
      BY <1>5 DEF GoesOn, GcPCs
    <2>2. m.cmd = "analyze" /\ m.branch = IF head.kind = "branch" THEN head.branch ELSE Main
      BY <1>0, <1>5 DEF Control, Aware
    <2>3. refs[l.branch] > 0 => refs[l.branch] = l.prev
      BY <1>0, <1>2, <2>1, <2>2, GraphStoreConstants DEF Absent
    <2> QED
      BY <1>0, <1>2, <2>1, <2>2, <2>3 DEF Aware, HasPrev
  <1>6. CASE m.pc = "commit"
    <2>1. /\ l.pc = "refTrunc" /\ l.branch = m.branch /\ l.prev = m.prev
          /\ l.cmd = m.cmd /\ l.new = Len(commits) + 1
          /\ Len(commits') = Len(commits) + 1
          /\ m.prev # Absent => m.prev \in ParentsOf(commits', Len(commits) + 1)
      BY <1>6 DEF GoesOn, GcPCs
    <2>2. /\ refs[m.branch] > 0 => refs[m.branch] = m.prev
          /\ head.kind = "unborn" => m.cmd = "analyze" /\ m.prev = Absent
      BY <1>0, <1>6 DEF Aware, HasPrev
    <2>3. refs[l.branch] > 0 => l.prev \in Ancestors(commits', l.new)
      <3> SUFFICES ASSUME refs[l.branch] > 0 PROVE l.prev \in Ancestors(commits', l.new)
        OBVIOUS
      <3>1. l.prev \in ParentsOf(commits', l.new)
        BY <2>1, <2>2 DEF Absent
      <3>2. l.new \in 1..Len(commits')
        BY <2>1 DEF TypeOK
      <3> QED
        BY <3>1, <3>2, AncestorsContain
    <2> QED
      BY <1>0, <2>1, <2>2, <2>3 DEF Aware, HasPrev
  <1>7. CASE m.pc \in {"mergeOurs", "mergeInto"}
    <2>1. /\ l.pc = "mergeTheirs" /\ l.branch = m.branch /\ l.prev > 0
          /\ l.prev = IF m.pc = "mergeInto" THEN refs[m.branch] ELSE HeadCommit
      BY <1>7 DEF GoesOn, GcPCs
    <2>2. m.pc = "mergeOurs" => head.kind = "branch" /\ m.branch = head.branch
      BY <1>0 DEF Aware
    <2>3. l.prev = refs[l.branch] /\ head.kind # "unborn"
      BY <1>0, <1>2, <1>7, <2>1, <2>2 DEF Absent
    <2> QED
      BY <1>0, <2>1, <2>3 DEF Aware, HasPrev
  <1>8. CASE m.pc = "mergeTheirs" \/ (m.pc = "mergeRows" /\ l.pc = "manifest")
    <2>1. /\ l.pc \in {"mergeRows", "manifest"} /\ l.branch = m.branch /\ l.prev = m.prev
      BY <1>8 DEF GoesOn, GcPCs
    <2>2. /\ refs[m.branch] > 0 => refs[m.branch] = m.prev
          /\ head.kind # "unborn"
      BY <1>0, <1>8 DEF Aware, HasPrev
    <2> QED
      BY <1>0, <2>1, <2>2 DEF Aware, HasPrev
  <1>9. CASE m.pc = "mergeRows" /\ l.pc # "manifest"
    <2>1. /\ l.pc = "refTrunc" /\ l.branch = m.branch /\ l.prev = m.prev
          /\ l.new = m.theirs
          /\ FindLCA(commits, m.prev, m.theirs) = m.prev
      BY <1>9 DEF GoesOn, GcPCs
    <2>2. /\ refs[m.branch] > 0 => refs[m.branch] = m.prev
          /\ head.kind # "unborn"
      BY <1>0, <1>9 DEF Aware, HasPrev
    <2>3. m.prev # Absent /\ m.theirs # Absent
      BY <1>0, <1>9 DEF Control
    <2>4. m.prev \in 1..Len(commits) /\ m.theirs \in 1..Len(commits) /\ m.prev # 0
      BY <1>0, <2>3 DEF CommitIds, Absent
    <2>5. m.prev \in Ancestors(commits, m.theirs)
      BY <2>1, <2>4, LCAIsSound
    <2>6. Ancestors(commits', m.theirs) = Ancestors(commits, m.theirs)
      <3>1. \A c \in 1..Len(commits) : commits'[c].parents = commits[c].parents
        BY DEF CommitIds
      <3> QED
        BY <2>4, <3>1, AncestorsOfOlder
    <2>7. l.prev \in Ancestors(commits', l.new)
      BY <2>1, <2>5, <2>6
    <2> QED
      BY <1>0, <2>1, <2>2, <2>7 DEF Aware, HasPrev
  <1>10. CASE m.pc \in GcPCs
    <2>1. l.pc \in GcPCs
      BY <1>10 DEF GoesOn, GcPCs
    <2> QED
      BY <1>0, <2>1 DEF Aware, HasPrev, GcPCs
  <1> QED
    BY <1>3, <1>4, <1>5, <1>6, <1>7, <1>8, <1>9, <1>10 DEF GoesOn

LEMMA AwareBegins ==
  ASSUME Typed = "none", TypeOK, AdvanceOK, NEW p \in Procs, Alone(p), At(p, "idle"),
         NEW l, Quiet(p, l), Begins(l)
  PROVE  Aware(l)'
  <1>0. refs' = refs /\ head' = head /\ HeadKnown /\ TypedIds = {}
    BY DEF Quiet, FilesUnchanged, AdvanceOK, TypedIds
  <1>1. /\ head.kind \in {"unborn", "branch"}
        /\ head.kind = "unborn" => \A b \in Branches : refs[b] = Absent
        /\ head.kind = "unborn" => HeadCommit = Absent
    BY <1>0, HeadSeen DEF At
  <1>2. CASE l.pc = "rows" \/ l.pc = "unlink" \/ l.pc = "mergeInto" \/ l.pc = "gcRefs"
    BY <1>0, <1>2 DEF Aware, HasPrev
  <1>3. CASE l.pc = "headTrunc"
    <2>1. PICK b \in Branches : l.newHead = OnBranch(b)
      BY <1>0, <1>3 DEF Begins
    <2>2. l.newHead.kind = "branch"
      BY <2>1 DEF OnBranch
    <2> QED
      BY <1>0, <1>3, <2>2 DEF Aware, HasPrev
  <1>4. CASE l.pc = "refCreate"
    <2>1. l.new > 0 /\ l.new \in {refs[x] : x \in Branches} \cup {HeadCommit}
      BY <1>0, <1>4 DEF Begins
    <2>2. head.kind # "unborn"
      BY <1>1, <2>1 DEF Absent
    <2> QED
      BY <1>0, <1>4, <2>2 DEF Aware, HasPrev
  <1>5. CASE l.pc = "mergeOurs"
    <2>1. head.kind = "branch" /\ l.branch = head.branch
      BY <1>5 DEF Begins
    <2> QED
      BY <1>0, <1>5, <2>1 DEF Aware, HasPrev
  <1> QED
    BY <1>2, <1>3, <1>4, <1>5 DEF Begins

LEMMA HeadKnownQuiet ==
  ASSUME TypeOK, AdvanceOK, NEW p \in Procs, Alone(p), NEW l, Quiet(p, l),
         proc[p].pc \notin {"refWrite", "headTrunc", "headWrite"}
  PROVE  HeadKnown'
  <1>1. refs' = refs /\ head' = head /\ HeadKnown
    BY DEF Quiet, FilesUnchanged, AdvanceOK
  <1>2. /\ head.kind \in {"unborn", "branch"}
        /\ head.kind = "unborn" => \A b \in Branches : refs[b] = Absent
    BY <1>1, HeadSeen DEF At
  <1> QED
    BY <1>1, <1>2 DEF HeadKnown

\* A step that writes a ref or HEAD.
LEMMA AdvanceFiles ==
  ASSUME TypeOK, ControlOK, IdleOK, AdvanceOK, NEW p \in Procs, Alone(p),
         \/ TruncateRef(p) \/ CreateRef(p) \/ WriteRef(p)
         \/ TruncateHead(p) \/ WriteHead(p) \/ Unlink(p)
  PROVE  AdvanceOK'
  <1>0. /\ proc[p] \in Locals /\ Aware(proc[p]) /\ HeadKnown
        /\ proc[p].branch \in Branches
    BY DEF TypeOK, Locals, AdvanceOK
  <1>1. CASE TruncateRef(p)
    <2>1. PICK l : l = [proc[p] EXCEPT !.pc = "refWrite"]
      OBVIOUS
    <2>2. /\ l.pc = "refWrite" /\ l.cmd = proc[p].cmd /\ l.prev = proc[p].prev
          /\ proc' = [proc EXCEPT ![p] = l] /\ head' = head
          /\ proc[p].pc = "refTrunc"
      BY <1>0, <1>1, <2>1 DEF TruncateRef, Step, At, Locals
    <2>3. head.kind \in {"unborn", "branch"}
      BY <1>0, <2>2, HeadSeen DEF At
    <2>4. At(p, "refWrite")'
      BY <2>2 DEF At, TypeOK
    <2>5. HeadKnown'
      BY <2>2, <2>3, <2>4 DEF HeadKnown
    <2>6. Aware(l)'
      BY <1>0, <2>2 DEF Aware, HasPrev
    <2> QED
      BY <2>2, <2>5, <2>6, AwareStep
  <1>2. CASE CreateRef(p)
    <2>1. PICK l : /\ proc' = [proc EXCEPT ![p] = l]
                   /\ l = Idle \/ l.pc = "refWrite"
      BY <1>2, FilesStep DEF CreateRef, At
    <2>2. head' = head /\ proc[p].pc = "refCreate"
      BY <1>2 DEF CreateRef, At
    <2>3. head.kind = "branch"
      <3>1. head.kind \in {"unborn", "branch"}
        BY <1>0, <2>2, HeadSeen DEF At
      <3> QED
        BY <1>0, <2>2, <3>1 DEF Aware
    <2>4. HeadKnown'
      BY <2>2, <2>3 DEF HeadKnown
    <2>5. Aware(l)'
      <3>1. CASE l = Idle
        BY <3>1, AwareIdle
      <3>2. CASE l.pc = "refWrite"
        BY <2>2, <2>3, <3>2 DEF Aware, HasPrev
      <3> QED
        BY <2>1, <3>1, <3>2
    <2> QED
      BY <2>1, <2>4, <2>5, AwareStep
  <1>3. CASE WriteRef(p)
    <2>1. PICK l : /\ proc' = [proc EXCEPT ![p] = l]
                   /\ \/ l = Idle
                      \/ l.pc = "headTrunc" /\ l.newHead = OnBranch(proc[p].branch)
      BY <1>3, FilesStep DEF WriteRef, At
    <2>2. head' = head /\ proc[p].pc = "refWrite"
      BY <1>3 DEF WriteRef, At
    <2>3. head.kind \in {"unborn", "branch"}
      BY <1>0, <2>2, HeadSeen DEF At
    <2>4. head.kind = "unborn" => At(p, "headTrunc")'
      <3> SUFFICES ASSUME head.kind = "unborn" PROVE At(p, "headTrunc")'
        OBVIOUS
      <3>1. proc[p].cmd = "analyze" /\ proc[p].prev = Absent
        BY <1>0, <2>2 DEF Aware
      <3>2. PICK h : Step(p, [proc[p] EXCEPT !.newHead = h], "headTrunc")
        BY <1>3, <3>1 DEF WriteRef
      <3> QED
        BY <1>0, <3>2 DEF Step, At, TypeOK, Locals
    <2>5. HeadKnown'
      BY <2>2, <2>3, <2>4 DEF HeadKnown
    <2>6. Aware(l)'
      <3>1. CASE l = Idle
        BY <3>1, AwareIdle
      <3>2. CASE l # Idle
        <4>1. l.pc = "headTrunc" /\ l.newHead.kind = "branch"
          BY <2>1, <3>2 DEF OnBranch
        <4> QED
          BY <4>1 DEF Aware, HasPrev
      <3> QED
        BY <3>1, <3>2
    <2> QED
      BY <2>1, <2>5, <2>6, AwareStep
  <1>4. CASE TruncateHead(p)
    <2>1. PICK l : l = [proc[p] EXCEPT !.pc = "headWrite"]
      OBVIOUS
    <2>2. /\ l.pc = "headWrite" /\ l.newHead = proc[p].newHead
          /\ proc' = [proc EXCEPT ![p] = l]
          /\ head'.kind = "torn" /\ proc[p].pc = "headTrunc"
      BY <1>0, <1>4, <2>1 DEF TruncateHead, Step, At, Locals, TornHead
    <2>3. At(p, "headWrite")'
      BY <2>2 DEF At, TypeOK
    <2>4. HeadKnown'
      BY <2>2, <2>3 DEF HeadKnown
    <2>5. Aware(l)'
      BY <1>0, <2>2 DEF Aware, HasPrev
    <2> QED
      BY <2>2, <2>4, <2>5, AwareStep
  <1>5. CASE WriteHead(p)
    <2>1. /\ proc' = [proc EXCEPT ![p] = Idle] /\ proc[p].pc = "headWrite"
          /\ head' = proc[p].newHead
      BY <1>5 DEF WriteHead, Stop, At
    <2>2. head'.kind = "branch"
      BY <1>0, <2>1 DEF Aware
    <2>3. HeadKnown'
      BY <2>2 DEF HeadKnown
    <2> QED
      BY <2>1, <2>3, AwareStep, AwareIdle
  <1>6. CASE Unlink(p)
    <2>1. /\ proc' = [proc EXCEPT ![p] = Idle] /\ head' = head
          /\ refs' = [refs EXCEPT ![proc[p].branch] = Absent]
          /\ proc[p].pc = "unlink"
      BY <1>6, UnlinkAlone DEF Unlink, At
    <2>2. /\ head.kind \in {"unborn", "branch"}
          /\ head.kind = "unborn" => \A b \in Branches : refs[b] = Absent
      BY <1>0, <2>1, HeadSeen DEF At
    <2>3. head.kind = "unborn" => \A b \in Branches : refs'[b] = Absent
      BY <1>0, <2>1, <2>2 DEF TypeOK
    <2>4. HeadKnown'
      BY <2>1, <2>2, <2>3 DEF HeadKnown
    <2> QED
      BY <2>1, <2>4, AwareStep, AwareIdle
  <1> QED
    BY <1>1, <1>2, <1>3, <1>4, <1>5, <1>6

LEMMA AdvanceNext ==
  ASSUME Serial, ~Crashes, Typed = "none", TypeOK, ControlOK, IdleOK, OneAtATime,
         IsDag(commits), AdvanceOK, Next
  PROVE  AdvanceOK'
  <1>1. ASSUME NEW p \in Procs, NEW l, Quiet(p, l),
               proc[p].pc \notin {"refWrite", "headTrunc", "headWrite"}
        PROVE  AdvanceOK'
    <2>0. /\ IsDag(commits') /\ Len(commits) <= Len(commits')
          /\ \A c \in CommitIds : commits'[c] = commits[c]
      BY DagNext
    <2>1. CASE proc' = proc /\ l = proc[p] /\ ~Alone(p)
      <3>1. refs' = refs /\ head' = head
        BY <1>1 DEF Quiet, FilesUnchanged
      <3>2. ASSUME NEW q \in Procs, At(q, "refTrunc")
            PROVE  Ancestors(commits', proc[q].new) = Ancestors(commits, proc[q].new)
        <4>1. proc[q].new \in 1..Len(commits)
          BY <3>2 DEF ControlOK, Control, TypeOK, Locals, CommitIds, At
        <4>2. \A c \in 1..Len(commits) : commits'[c].parents = commits[c].parents
          BY <2>0 DEF CommitIds
        <4> QED
          BY <2>0, <4>1, <4>2, AncestorsOfOlder
      <3>3. ASSUME NEW q \in Procs PROVE Aware(proc[q])'
        <4>1. Aware(proc[q]) /\ proc'[q] = proc[q]
          BY <2>1 DEF AdvanceOK
        <4>2. proc[q].pc = "refTrunc" =>
                Ancestors(commits', proc[q].new) = Ancestors(commits, proc[q].new)
          BY <3>2 DEF At
        <4> QED
          BY <3>1, <4>1, <4>2 DEF Aware, HasPrev
      <3>4. HeadKnown'
        BY <2>1, <3>1 DEF AdvanceOK, HeadKnown, At
      <3> QED
        BY <3>3, <3>4 DEF AdvanceOK
    <2>2. CASE Alone(p)
      <3>1. HeadKnown'
        BY <1>1, <2>2, HeadKnownQuiet
      <3>2. Aware(l)'
        <4>1. CASE l = Idle
          BY <4>1, AwareIdle
        <4>2. CASE At(p, "idle") /\ Begins(l)
          BY <1>1, <2>2, <4>2, AwareBegins
        <4>3. CASE GoesOn(proc[p], l)
          BY <1>1, <2>0, <2>2, <4>3, AwareGoesOn
        <4> QED
          BY <1>1, <4>1, <4>2, <4>3 DEF Quiet
      <3> QED
        BY <1>1, <2>2, <3>1, <3>2, AwareStep DEF Quiet
    <2> QED
      BY <1>1, <2>1, <2>2, QuietAlone
  <1> QED
    BY <1>1, OutlineAlive, FilesAlone, AdvanceFiles DEF Quietly

\* One command at a time, each to its end, on branches: when setHead is about to
\* overwrite a branch, the commit it drops is an ancestor of the new one
\* (core/graphstore/index.ts, mergeCommand).
THEOREM BranchesAdvance ==
  ASSUME Serial, ~Crashes, Typed = "none"
  PROVE  Spec => []BranchOnlyAdvances
  <1> DEFINE Inv == /\ TypeOK /\ ControlOK /\ IdleOK /\ OneAtATime
                    /\ IsDag(commits) /\ AdvanceOK
  <1>1. Init => Inv
    <2> SUFFICES ASSUME Init PROVE Inv
      OBVIOUS
    <2>1. \A p \in Procs : proc[p] = Idle
      BY DEF Init
    <2>2. Idle.pc = "idle"
      BY DEF Idle
    <2>3. HeadKnown
      BY DEF Init, HeadKnown, Unborn
    <2>4. IsDag(commits)
      BY DEF Init, IsDag
    <2> QED
      BY <2>1, <2>2, <2>3, <2>4, InitType, ControlIdle, AwareIdle
         DEF ControlOK, IdleOK, OneAtATime, AdvanceOK, At
  <1>2. Inv /\ [Next]_vars => Inv'
    <2> SUFFICES ASSUME Inv, [Next]_vars PROVE Inv'
      OBVIOUS
    <2>1. CASE Next
      BY <2>1, TypeNext, ControlNext, AloneNext, DagNext, AdvanceNext
    <2>2. CASE UNCHANGED vars
      <3>1. TypeOK'
        BY <2>2, LocalStep DEF vars, TypeOK, ObjectsUnchanged, FilesUnchanged
      <3>2. ControlOK' /\ IdleOK' /\ OneAtATime'
        BY <2>2 DEF vars, ControlOK, IdleOK, OneAtATime, At
      <3>3. AdvanceOK' /\ IsDag(commits')
        BY <2>2 DEF vars, AdvanceOK, HeadKnown, Aware, HasPrev, At
      <3> QED
        BY <3>1, <3>2, <3>3
    <2> QED
      BY <2>1, <2>2
  <1>3. Inv => BranchOnlyAdvances
    <2> SUFFICES ASSUME Inv, NEW p \in Procs, At(p, "refTrunc"),
                        refs[proc[p].branch] > 0
                 PROVE  refs[proc[p].branch] \in Ancestors(commits, proc[p].new)
      BY DEF BranchOnlyAdvances
    <2>1. Aware(proc[p])
      BY DEF AdvanceOK
    <2> QED
      BY <2>1 DEF Aware, HasPrev, At
  <1> QED
    BY <1>1, <1>2, <1>3, PTL DEF Spec

-----------------------------------------------------------------------------
(***************************************************************************)
(* The refinement.  The mapping follows from the files and the locals of   *)
(* the one command that runs (HeadOf, CurrentOf); the invariant says what  *)
(* that command knows of History (Tracks); each action has a lemma that    *)
(* shows its step of History.                                              *)
(***************************************************************************)

(* The commit graph that History sees *)

\* The operators of History are those of CommitHistory.
LEMMA HistoryLCA ==
  ASSUME NEW d, NEW a, NEW b
  PROVE  H!FindLCA(d, a, b) = FindLCA(d, a, b)
  BY DEF H!FindLCA, FindLCA, H!Walk, Walk, H!WalkStep, WalkStep, H!Unseen, Unseen,
         H!Ancestors, Ancestors, H!Reachable, Reachable, H!ParentClosed, ParentClosed,
         H!ParentsOf, ParentsOf

LEMMA HistoryMerge ==
  ASSUME NEW d, NEW m, NEW a, NEW b
  PROVE  /\ H!MergeKind(d, m, a, b) = MergeKind(d, m, a, b)
         /\ H!Merged(d, m, a, b) = Merged(d, m, a, b)
  BY HistoryLCA DEF H!MergeKind, MergeKind, H!HasConflict, HasConflict, H!RowConflicts,
                    RowConflicts, H!Merged, Merged, H!MergeManifests, MergeManifests,
                    H!MergeRow, MergeRow

\* The common ancestor depends on the parents of the commits and on nothing else.
SameParents(d, e) ==
  /\ IsDag(d) /\ IsDag(e) /\ Len(e) = Len(d)
  /\ \A c \in 1..Len(d) : e[c].parents = d[c].parents

LEMMA SameAncestors ==
  ASSUME NEW d, NEW e, SameParents(d, e), NEW c \in 1..Len(d)
  PROVE  Ancestors(e, c) = Ancestors(d, c)
  <1>1. Len(d) <= Len(e)
    BY DEF SameParents, IsDag
  <1> QED
    BY <1>1, AncestorsOfOlder DEF SameParents

LEMMA SameStep ==
  ASSUME NEW d, NEW e, SameParents(d, e), NEW w \in WalkStates(d)
  PROVE  WalkStep(e, w) = WalkStep(d, w)
  <1>1. CASE w.queue = <<>>
    BY <1>1 DEF WalkStep
  <1>2. CASE w.queue # <<>>
    <2>1. Head(w.queue) \in 1..Len(d)
      BY <1>2, MembersOfTail DEF WalkStates
    <2> QED
      BY <2>1 DEF WalkStep, SameParents
  <1> QED
    BY <1>1, <1>2

LEMMA SameWalk ==
  ASSUME NEW d, NEW e, SameParents(d, e), NEW from \in 1..Len(d)
  PROVE  Walk(e, from) = Walk(d, from)
  <1> DEFINE N == 2 * Len(d) + 1
  <1>1. N \in Nat /\ Len(e) = Len(d) /\ IsDag(d) /\ IsDag(e)
    BY DEF SameParents, IsDag
  <1>2. PICK f : WalkRecursion(f, d, from) /\ Walk(d, from) = f[N].out
    BY <1>1, WalkUnfolds
  <1>3. PICK g : WalkRecursion(g, e, from) /\ Walk(e, from) = g[N].out
    BY <1>1, WalkUnfolds
  <1> DEFINE S == {n \in 0..N : g[n] = f[n]}
  <1>4. 0 \in S
    BY <1>1, <1>2, <1>3 DEF WalkRecursion
  <1>5. ASSUME NEW n \in 0..(N - 1), n \in S
        PROVE  n + 1 \in S
    <2>1. n \in 0..N /\ n + 1 \in 0..N /\ n + 1 # 0 /\ (n + 1) - 1 = n
      BY <1>1
    <2>2. f[n] \in WalkStates(d)
      BY <1>1, <1>2, <2>1, WalkInvariantHolds DEF WalkInvariant
    <2>3. f[n + 1] = WalkStep(d, f[n])
      BY <1>2, <2>1 DEF WalkRecursion
    <2>4. g[n + 1] = WalkStep(e, g[n])
      BY <1>1, <1>3, <2>1 DEF WalkRecursion
    <2>5. g[n] = f[n]
      BY <1>5
    <2>6. g[n + 1] = f[n + 1]
      BY <2>2, <2>3, <2>4, <2>5, SameStep
    <2> QED
      BY <2>1, <2>6
  <1> HIDE DEF N, S
  <1>6. \A n \in 0..N : n \in S
    BY <1>1, <1>4, <1>5, InductionUpTo
  <1>7. N \in S
    BY <1>1, <1>6
  <1> QED
    BY <1>2, <1>3, <1>7 DEF S

LEMMA SameLCA ==
  ASSUME NEW d, NEW e, SameParents(d, e), NEW a \in 1..Len(d), NEW b \in 1..Len(d)
  PROVE  FindLCA(e, a, b) = FindLCA(d, a, b)
  <1>1. Ancestors(e, a) = Ancestors(d, a) /\ Walk(e, b) = Walk(d, b)
    BY SameAncestors, SameWalk
  <1> QED
    BY <1>1 DEF FindLCA

\* The graph of the mapping has the parents and the manifests of the commits.
CommitManifests == [c \in CommitIds |-> ManifestOf(c)]

LEMMA FunctionsAreSequences ==
  ASSUME NEW n \in Nat, NEW D, NEW f \in [1..n -> D]
  PROVE  f \in Seq(D) /\ Len(f) = n
  OBVIOUS

LEMMA DagIs ==
  ASSUME TypeOK, IsDag(commits)
  PROVE  /\ Len(Dag) = Len(commits)
         /\ SameParents(commits, Dag)
         /\ H!CommitIds = CommitIds
         /\ H!ManifestsOf = CommitManifests
  <1>1. Len(commits) \in Nat /\ DOMAIN Dag = 1..Len(commits)
    BY DEF IsDag, Dag, CommitIds
  <1>2. Dag \in [1..Len(commits) -> {Dag[c] : c \in 1..Len(commits)}]
    BY DEF Dag, CommitIds
  <1>3. Len(Dag) = Len(commits)
    BY <1>1, <1>2, FunctionsAreSequences
  <1>4. \A c \in CommitIds : /\ Dag[c].parents = commits[c].parents
                             /\ Dag[c].manifest = ManifestOf(c)
    BY DEF Dag
  <1>5. SameParents(commits, Dag)
    BY <1>1, <1>3, <1>4 DEF SameParents, IsDag, CommitIds
  <1>6. H!CommitIds = CommitIds
    BY <1>3 DEF H!CommitIds, CommitIds
  <1>7. H!ManifestsOf = CommitManifests
    BY <1>4, <1>6 DEF H!ManifestsOf, CommitManifests
  <1> QED
    BY <1>3, <1>5, <1>6, <1>7

LEMMA DagMerge ==
  ASSUME TypeOK, IsDag(commits), NEW a \in CommitIds, NEW b \in CommitIds
  PROVE  /\ H!MergeKind(Dag, H!ManifestsOf, a, b) = MergeKind(commits, CommitManifests, a, b)
         /\ H!Merged(Dag, H!ManifestsOf, a, b) = Merged(commits, CommitManifests, a, b)
  <1>1. FindLCA(Dag, a, b) = FindLCA(commits, a, b)
    BY DagIs, SameLCA DEF CommitIds
  <1>2. H!ManifestsOf = CommitManifests
    BY DagIs
  <1> QED
    BY <1>1, <1>2, HistoryMerge DEF MergeKind, Merged

-----------------------------------------------------------------------------
(* The branches and the current branch that History sees, when one process *)
(* p may be running: they follow from the files and the locals l of p      *)

HeadOf(l, b) == IF l.pc \in {"refTrunc", "refWrite"} /\ l.branch = b THEN l.new
                ELSE IF refs[b] = Torn THEN Absent
                ELSE refs[b]

Switches(l) == \/ l.pc \in {"headTrunc", "headWrite"}
               \/ /\ l.pc \in {"refTrunc", "refWrite"}
                  /\ l.cmd = "analyze" /\ l.prev = Absent

CurrentOf(l) == IF Switches(l)
                  THEN IF l.cmd = "checkout" THEN l.newHead.branch ELSE l.branch
                ELSE IF head.kind = "branch" THEN head.branch
                ELSE Null

MappedHeads == [b \in Branches |-> BranchHead(b)]

LEMMA MappedLocally ==
  ASSUME NEW p \in Procs
  PROVE  Alone(p) => /\ MappedHeads = [b \in Branches |-> HeadOf(proc[p], b)]
                     /\ CurrentBranch = CurrentOf(proc[p])
  <1> SUFFICES ASSUME Alone(p)
               PROVE  /\ MappedHeads = [b \in Branches |-> HeadOf(proc[p], b)]
                      /\ CurrentBranch = CurrentOf(proc[p])
    OBVIOUS
  <1>1. ASSUME NEW b \in Branches PROVE BranchHead(b) = HeadOf(proc[p], b)
    <2>1. Moving(b) = IF proc[p].pc \in {"refTrunc", "refWrite"} /\ proc[p].branch = b
                        THEN {p} ELSE {}
      BY DEF Moving, Alone, At
    <2>2. (CHOOSE q \in {p} : TRUE) = p
      OBVIOUS
    <2> QED
      BY <2>1, <2>2 DEF BranchHead, HeadOf
  <1>2. CurrentBranch = CurrentOf(proc[p])
    <2>1. Switching = IF Switches(proc[p]) THEN {p} ELSE {}
      BY DEF Switching, Switches, Alone, At
    <2>2. (CHOOSE q \in {p} : TRUE) = p
      OBVIOUS
    <2> QED
      BY <2>1, <2>2 DEF CurrentBranch, CurrentOf, Target
  <1> QED
    BY <1>1, <1>2 DEF MappedHeads

LEMMA MappedLocallyNext ==
  ASSUME NEW p \in Procs
  PROVE  Alone(p)' => /\ MappedHeads' = [b \in Branches |-> HeadOf(proc[p], b)']
                      /\ CurrentBranch' = CurrentOf(proc[p])'
  <1>1. Alone(p) => /\ MappedHeads = [b \in Branches |-> HeadOf(proc[p], b)]
                    /\ CurrentBranch = CurrentOf(proc[p])
    BY MappedLocally
  <1>2. (Alone(p) => /\ MappedHeads = [b \in Branches |-> HeadOf(proc[p], b)]
                     /\ CurrentBranch = CurrentOf(proc[p]))'
    BY <1>1, PTL
  <1> QED
    BY <1>2

LEMMA MappedAfter ==
  ASSUME TypeOK, NEW p \in Procs, Alone(p), NEW l, proc' = [proc EXCEPT ![p] = l]
  PROVE  /\ MappedHeads' = [b \in Branches |-> HeadOf(l, b)']
         /\ CurrentBranch' = CurrentOf(l)'
  <1>1. Alone(p)' /\ proc'[p] = l
    BY DEF TypeOK, Alone, At
  <1>2. /\ MappedHeads' = [b \in Branches |-> HeadOf(proc[p], b)']
        /\ CurrentBranch' = CurrentOf(proc[p])'
    BY <1>1, MappedLocallyNext
  <1>3. /\ \A b : HeadOf(proc[p], b)' = HeadOf(l, b)'
        /\ CurrentOf(proc[p])' = CurrentOf(l)'
    BY <1>1 DEF HeadOf, CurrentOf, Switches
  <1> QED
    BY <1>2, <1>3

LEMMA MappedStutter ==
  ASSUME TypeOK, NEW p \in Procs, Alone(p), NEW l, proc' = [proc EXCEPT ![p] = l],
         Dag' = Dag, \A b \in Branches : HeadOf(l, b)' = HeadOf(proc[p], b),
         CurrentOf(l)' = CurrentOf(proc[p])
  PROVE  UNCHANGED H!vars
  <1>1. /\ MappedHeads = [b \in Branches |-> HeadOf(proc[p], b)]
        /\ CurrentBranch = CurrentOf(proc[p])
    BY MappedLocally
  <1>2. /\ MappedHeads' = [b \in Branches |-> HeadOf(l, b)']
        /\ CurrentBranch' = CurrentOf(l)'
    BY MappedAfter
  <1>3. MappedHeads' = MappedHeads /\ CurrentBranch' = CurrentBranch
    BY <1>1, <1>2
  <1> QED
    BY <1>3 DEF H!vars, MappedHeads

\* Snapshots that are added leave the manifests of the commits as they are.
LEMMA DagKept ==
  ASSUME TypeOK, commits' = commits,
         \/ snaps' = snaps
         \/ \E m \in Manifests : snaps' = Append(snaps, m)
  PROVE  Dag' = Dag /\ CommitManifests' = CommitManifests
  <1>1. \A c \in CommitIds : commits[c].snapshot \in SnapIds
    <2>1. \A c \in CommitIds : commits[c] \in CommitRecords
      BY DEF TypeOK, CommitIds
    <2> QED
      BY <2>1 DEF CommitRecords
  <1>2. \A s \in SnapIds : snaps'[s] = snaps[s]
    BY AppendFacts DEF TypeOK, SnapIds
  <1>3. \A c \in CommitIds : ManifestOf(c)' = ManifestOf(c)
    BY <1>1, <1>2 DEF ManifestOf
  <1>4. CommitIds' = CommitIds
    BY DEF CommitIds
  <1> QED
    BY <1>3, <1>4 DEF Dag, CommitManifests

-----------------------------------------------------------------------------
(* What the running command knows of the commits and branches History sees *)

\* A merge that has found the head of its branch, and one that will succeed.
Merging(l) == \/ l.pc \in {"mergeTheirs", "mergeRows"}
              \/ l.pc \in {"manifest", "snapshot", "commit"} /\ l.cmd = "merge"

Merges(l) == l.pc \in {"manifest", "snapshot", "commit"} /\ l.cmd = "merge"

\* The commit of a new branch and the other side of a merge are heads, the head a
\* commit is put on is still the head of its branch, HEAD goes where the command
\* says, and a merge writes the manifest that History says.
Tracks(l) ==
  /\ l.pc = "refCreate" => l.cmd = "branch" /\ \E b \in Branches : refs[b] = l.new
  /\ l.pc \in {"headTrunc", "headWrite"} /\ l.cmd # "checkout"
       => l.newHead.branch = l.branch
  /\ l.pc = "commit" /\ l.cmd = "analyze" =>
       /\ l.branch = IF head.kind = "branch" THEN head.branch ELSE Main
       /\ l.prev = HeadCommit
  /\ Merging(l) => refs[l.branch] = l.prev
  /\ l.pc = "mergeRows" \/ Merges(l) => \E b \in Branches : refs[b] = l.theirs
  /\ Merges(l) =>
       /\ MergeKind(commits, CommitManifests, l.prev, l.theirs) = "merged"
       /\ Merged(commits, CommitManifests, l.prev, l.theirs) =
            IF l.pc = "commit" THEN snaps[l.snap] ELSE l.manifest

TracksOK == \A p \in Procs : Tracks(proc[p])

\* There is nothing to know.
Plain(l) ==
  /\ l.pc \notin {"refCreate", "headTrunc", "headWrite", "commit", "mergeTheirs",
                  "mergeRows"}
  /\ l.pc \in {"manifest", "snapshot"} => l.cmd # "merge"

LEMMA PlainTracks ==
  ASSUME NEW l, Plain(l)
  PROVE  Tracks(l) /\ Tracks(l)'
  BY DEF Plain, Tracks, Merging, Merges

LEMMA PlainIdle == Plain(Idle)
  BY DEF Plain, Idle

LEMMA TracksStep ==
  ASSUME TypeOK, IdleOK, NEW p \in Procs, Alone(p), NEW l,
         proc' = [proc EXCEPT ![p] = l], Tracks(l)'
  PROVE  TracksOK'
  <1>1. \A q \in Procs : proc'[q] = IF q = p THEN l ELSE Idle
    BY DEF TypeOK, IdleOK, Alone
  <1>2. ASSUME NEW q \in Procs PROVE Tracks(proc[q])'
    <2>1. CASE q = p
      <3>1. proc'[q] = l
        BY <1>1, <2>1
      <3> QED
        BY <3>1 DEF Tracks, Merging, Merges
    <2>2. CASE q # p
      <3>1. proc'[q] = Idle
        BY <1>1, <2>2
      <3> QED
        BY <3>1, PlainIdle, PlainTracks DEF Tracks, Merging, Merges
    <2> QED
      BY <2>1, <2>2
  <1> QED
    BY <1>2 DEF TracksOK

\* The command is not about to write a ref or HEAD that History has seen move.
Settled(l) == l.pc \notin {"refTrunc", "refWrite", "headTrunc", "headWrite"}

\* History does not see a step that writes no file and no commit.
LEMMA Hidden ==
  ASSUME TypeOK, NEW p \in Procs, Alone(p), NEW l, proc' = [proc EXCEPT ![p] = l],
         FilesUnchanged, commits' = commits,
         \/ snaps' = snaps
         \/ \E m \in Manifests : snaps' = Append(snaps, m),
         Settled(proc[p]), Settled(l)
  PROVE  UNCHANGED H!vars
  <1>1. Dag' = Dag
    BY DagKept
  <1>2. refs' = refs /\ head' = head
    BY DEF FilesUnchanged
  <1>3. \A b \in Branches : HeadOf(l, b)' = HeadOf(proc[p], b)
    BY <1>2 DEF HeadOf, Settled
  <1>4. CurrentOf(l)' = CurrentOf(proc[p])
    BY <1>2 DEF CurrentOf, Switches, Settled
  <1> QED
    BY <1>1, <1>3, <1>4, MappedStutter

\* What a step of p has to show.
Refines(p) == \E l : /\ proc' = [proc EXCEPT ![p] = l]
                     /\ Tracks(l)'
                     /\ [H!Next]_H!vars

\* The steps that leave nothing to know.
LEMMA PlainFiles ==
  ASSUME NEW p \in Procs,
         \/ StartAnalyze(p) \/ PutRow(p) \/ ResolveBranch(p)
         \/ DeleteBranch(p) \/ StartMerge(p) \/ MergeDryRun(p)
         \/ StartGc(p) \/ GcReadRef(p) \/ GcReadHead(p) \/ GcMark(p)
         \/ GcSweep(p) \/ GcDone(p)
  PROVE  FilesUnchanged /\ commits' = commits /\ snaps' = snaps /\ Settled(proc[p])
  BY DEF StartAnalyze, PutRow, ResolveBranch, DeleteBranch, StartMerge, MergeDryRun,
         StartGc, GcReadRef, GcReadHead, GcMark, GcSweep, GcDone, ObjectsUnchanged,
         Start, At, Settled

LEMMA PlainStep ==
  ASSUME TypeOK, ControlOK, NEW p \in Procs,
         \/ StartAnalyze(p) \/ PutRow(p) \/ ResolveBranch(p)
         \/ DeleteBranch(p) \/ StartMerge(p) \/ MergeDryRun(p)
         \/ StartGc(p) \/ GcReadRef(p) \/ GcReadHead(p) \/ GcMark(p)
         \/ GcSweep(p) \/ GcDone(p)
  PROVE  \E l : proc' = [proc EXCEPT ![p] = l] /\ Plain(l) /\ Settled(l)
  <1>0. /\ proc[p] \in Locals /\ Idle \in Locals /\ Control(proc[p])
        /\ proc \in [Procs -> Locals]
    BY IdleType DEF TypeOK, ControlOK
  <1>a. ASSUME NEW k, NEW pc, Step(p, k, pc), k \in Locals,
               pc \in {"rows", "branch", "prev", "unlink", "mergeOurs", "mergeInto",
                       "gcRefs", "gcHead", "gcMark", "gcSweep"}
        PROVE  \E l : proc' = [proc EXCEPT ![p] = l] /\ Plain(l) /\ Settled(l)
    <2> DEFINE l == [k EXCEPT !.pc = pc]
    <2>1. l.pc = pc /\ proc' = [proc EXCEPT ![p] = l]
      BY <1>a DEF Locals, Step
    <2> HIDE DEF l
    <2>2. Plain(l) /\ Settled(l)
      BY <1>a, <2>1 DEF Plain, Settled
    <2> QED
      BY <2>1, <2>2
  <1>b. CASE Stop(p)
    <2>1. Settled(Idle)
      BY DEF Settled, Idle
    <2> QED
      BY <1>b, <2>1, PlainIdle DEF Stop
  <1>2. CASE StartAnalyze(p)
    <2>1. PICK g \in Manifests :
            Step(p, [Idle EXCEPT !.cmd = "analyze", !.manifest = g, !.rows = RowsOf(g)],
                 "rows")
      BY <1>2 DEF StartAnalyze
    <2>2. [Idle EXCEPT !.cmd = "analyze", !.manifest = g, !.rows = RowsOf(g)] \in Locals
      BY <1>0, RowsType DEF Locals, AllCommands
    <2> QED
      BY <1>a, <2>1, <2>2
  <1>3. CASE PutRow(p)
    <2>1. CASE \E r \in proc[p].rows : Step(p, [proc[p] EXCEPT !.rows = @ \ {r}], "rows")
      <3>1. PICK r \in proc[p].rows : Step(p, [proc[p] EXCEPT !.rows = @ \ {r}], "rows")
        BY <2>1
      <3>2. [proc[p] EXCEPT !.rows = @ \ {r}] \in Locals
        BY <1>0 DEF Locals
      <3> QED
        BY <1>a, <3>1, <3>2
    <2>2. CASE Step(p, proc[p], "manifest")
      <3> DEFINE l == [proc[p] EXCEPT !.pc = "manifest"]
      <3>1. l.pc = "manifest" /\ l.cmd = proc[p].cmd /\ proc' = [proc EXCEPT ![p] = l]
        BY <1>0, <2>2 DEF Locals, Step
      <3>2. proc[p].cmd = "analyze"
        BY <1>0, <1>3 DEF Control, PutRow, At
      <3> HIDE DEF l
      <3>3. Plain(l) /\ Settled(l)
        BY <3>1, <3>2 DEF Plain, Settled
      <3> QED
        BY <3>1, <3>3
    <2> QED
      BY <1>3, <2>1, <2>2 DEF PutRow
  <1>4. CASE ResolveBranch(p) /\ ~Stop(p)
    <2>1. PICK b \in Branches : Step(p, [proc[p] EXCEPT !.branch = b], "prev")
      BY <1>4, HeadBranchType, GraphStoreConstants DEF ResolveBranch
    <2>2. [proc[p] EXCEPT !.branch = b] \in Locals
      BY <1>0 DEF Locals
    <2> QED
      BY <1>a, <2>1, <2>2
  <1>5. CASE DeleteBranch(p)
    <2>1. PICK b \in Branches : Step(p, [Idle EXCEPT !.cmd = "delete", !.branch = b],
                                     "unlink")
      BY <1>5 DEF DeleteBranch
    <2>2. [Idle EXCEPT !.cmd = "delete", !.branch = b] \in Locals
      BY <1>0 DEF Locals, AllCommands
    <2> QED
      BY <1>a, <2>1, <2>2
  <1>6. CASE StartMerge(p)
    <2>1. PICK b \in Branches, pc \in {"mergeOurs", "mergeInto"} :
            Step(p, [Idle EXCEPT !.cmd = "merge", !.branch = b], pc)
      BY <1>6, HeadBranchType DEF StartMerge
    <2>2. [Idle EXCEPT !.cmd = "merge", !.branch = b] \in Locals
      BY <1>0 DEF Locals, AllCommands
    <2> QED
      BY <1>a, <2>1, <2>2
  <1>7. CASE StartGc(p)
    <2>1. Step(p, [Idle EXCEPT !.cmd = "gc", !.names = Listed], "gcRefs")
      BY <1>7 DEF StartGc
    <2>2. [Idle EXCEPT !.cmd = "gc", !.names = Listed] \in Locals
      BY <1>0 DEF Locals, AllCommands, Listed
    <2> QED
      BY <1>a, <2>1, <2>2
  <1>8. CASE \/ GcReadRef(p) \/ GcReadHead(p) \/ GcMark(p) \/ GcSweep(p) \/ GcDone(p)
             \/ MergeDryRun(p)
    <2>1. PICK l : Quiet(p, l)
      BY <1>8, QuietGc DEF Quietly
    <2>2. proc[p].pc \in GcPCs \/ Stop(p)
      BY <1>8 DEF GcReadRef, GcReadHead, GcMark, GcSweep, GcDone, MergeDryRun, At, GcPCs
    <2>3. CASE ~Stop(p)
      <3>1. proc' = [proc EXCEPT ![p] = l]
        BY <2>1 DEF Quiet
      <3>2. l # Idle
        BY <2>3, <3>1 DEF Stop
      <3>3. l.pc \in GcPCs
        BY <2>1, <2>2, <2>3, <3>2 DEF Quiet, GoesOn, GcPCs, At
      <3>4. Plain(l) /\ Settled(l)
        BY <3>3 DEF Plain, Settled, GcPCs
      <3> QED
        BY <3>1, <3>4
    <2> QED
      BY <1>b, <2>3
  <1> QED
    BY <1>b, <1>2, <1>3, <1>4, <1>5, <1>6, <1>7, <1>8

LEMMA PlainRefines ==
  ASSUME TypeOK, ControlOK, NEW p \in Procs, Alone(p),
         \/ StartAnalyze(p) \/ PutRow(p) \/ ResolveBranch(p)
         \/ DeleteBranch(p) \/ StartMerge(p) \/ MergeDryRun(p)
         \/ StartGc(p) \/ GcReadRef(p) \/ GcReadHead(p) \/ GcMark(p)
         \/ GcSweep(p) \/ GcDone(p)
  PROVE  Refines(p)
  <1>1. PICK l : proc' = [proc EXCEPT ![p] = l] /\ Plain(l) /\ Settled(l)
    BY PlainStep
  <1>2. FilesUnchanged /\ commits' = commits /\ snaps' = snaps /\ Settled(proc[p])
    BY PlainFiles
  <1>3. UNCHANGED H!vars
    BY <1>1, <1>2, Hidden
  <1> QED
    BY <1>1, <1>3, PlainTracks DEF Refines

-----------------------------------------------------------------------------
(* Steps of analyze and merge that History does not see *)

\* A step of p to locals l that writes no file and adds a snapshot at most.
HiddenStep(p, l) ==
  /\ proc' = [proc EXCEPT ![p] = l]
  /\ FilesUnchanged /\ commits' = commits
  /\ \/ snaps' = snaps
     \/ \E m \in Manifests : snaps' = Append(snaps, m)
  /\ Settled(proc[p]) /\ Settled(l)

LEMMA HiddenRefines ==
  ASSUME TypeOK, NEW p \in Procs, Alone(p), NEW l, HiddenStep(p, l), Tracks(l)'
  PROVE  Refines(p)
  <1>1. UNCHANGED H!vars
    BY Hidden DEF HiddenStep
  <1> QED
    BY <1>1 DEF Refines, HiddenStep

LEMMA StopRefines ==
  ASSUME TypeOK, NEW p \in Procs, Alone(p), Stop(p), FilesUnchanged,
         commits' = commits, snaps' = snaps, Settled(proc[p])
  PROVE  Refines(p)
  <1>1. HiddenStep(p, Idle)
    BY DEF HiddenStep, Stop, Settled, Idle
  <1> QED
    BY <1>1, HiddenRefines, PlainIdle, PlainTracks

LEMMA PutManifestRefines ==
  ASSUME TypeOK, TracksOK, NEW p \in Procs, Alone(p), PutManifest(p)
  PROVE  Refines(p)
  <1>0. proc[p] \in Locals /\ Tracks(proc[p]) /\ proc[p].pc = "manifest"
    BY DEF TypeOK, TracksOK, PutManifest, At
  <1>l. PICK l : l = [proc[p] EXCEPT !.pc = "snapshot"]
    OBVIOUS
  <1>1. /\ l.pc = "snapshot" /\ l.cmd = proc[p].cmd /\ l.manifest = proc[p].manifest
        /\ l.branch = proc[p].branch /\ l.prev = proc[p].prev
        /\ l.theirs = proc[p].theirs
    BY <1>l, <1>0 DEF Locals
  <1>2. proc' = [proc EXCEPT ![p] = l]
    BY <1>l DEF PutManifest, Step
  <1>3. HiddenStep(p, l)
    BY <1>0, <1>1, <1>2 DEF HiddenStep, PutManifest, Settled
  <1>4. CommitManifests' = CommitManifests
    BY <1>3, DagKept DEF HiddenStep
  <1>5. refs' = refs /\ commits' = commits
    BY <1>3 DEF HiddenStep, FilesUnchanged
  <1>6. Tracks(l)'
    BY <1>0, <1>1, <1>4, <1>5 DEF Tracks, Merging, Merges
  <1> QED
    BY <1>3, <1>6, HiddenRefines

LEMMA PutSnapshotRefines ==
  ASSUME TypeOK, ControlOK, TracksOK, NEW p \in Procs, Alone(p), PutSnapshot(p)
  PROVE  Refines(p)
  <1>0. /\ proc[p] \in Locals /\ Tracks(proc[p]) /\ proc[p].pc = "snapshot"
        /\ proc[p].manifest \in Manifests
    BY DEF TypeOK, TracksOK, PutSnapshot, At, Locals
  <1>1. PICK s : s = Len(snaps) + 1
    OBVIOUS
  <1>2. PICK pc : pc = IF proc[p].cmd = "merge" THEN "commit" ELSE "branch"
    OBVIOUS
  <1>l. PICK l : l = [[proc[p] EXCEPT !.snap = s] EXCEPT !.pc = pc]
    OBVIOUS
  <1>3. /\ l.pc = pc /\ l.cmd = proc[p].cmd /\ l.manifest = proc[p].manifest
        /\ l.branch = proc[p].branch /\ l.prev = proc[p].prev
        /\ l.theirs = proc[p].theirs /\ l.snap = s
    BY <1>l, <1>0 DEF Locals
  <1>4. proc' = [proc EXCEPT ![p] = l]
    BY <1>l, <1>1, <1>2 DEF PutSnapshot, Step
  <1>5. snaps' = Append(snaps, proc[p].manifest)
    BY DEF PutSnapshot
  <1>6. snaps'[s] = proc[p].manifest
    BY <1>0, <1>1, <1>5 DEF TypeOK
  <1>7. HiddenStep(p, l)
    BY <1>0, <1>2, <1>3, <1>4, <1>5 DEF HiddenStep, PutSnapshot, Settled
  <1>8. CommitManifests' = CommitManifests
    BY <1>7, DagKept DEF HiddenStep
  <1>9. refs' = refs /\ commits' = commits
    BY <1>7 DEF HiddenStep, FilesUnchanged
  <1>10. Tracks(l)'
    <2>1. CASE pc = "branch"
      BY <1>3, <2>1, PlainTracks DEF Plain
    <2>2. CASE pc = "commit"
      <3>1. Merging(proc[p]) /\ Merges(proc[p]) /\ proc[p].cmd = "merge"
        BY <1>0, <1>2, <2>2 DEF Merging, Merges
      <3>2. /\ refs[proc[p].branch] = proc[p].prev
            /\ \E b \in Branches : refs[b] = proc[p].theirs
            /\ MergeKind(commits, CommitManifests, proc[p].prev, proc[p].theirs) = "merged"
            /\ Merged(commits, CommitManifests, proc[p].prev, proc[p].theirs)
                 = proc[p].manifest
        BY <1>0, <3>1 DEF Tracks
      <3> QED
        BY <1>3, <1>6, <1>8, <1>9, <2>2, <3>1, <3>2 DEF Tracks, Merging, Merges
    <2> QED
      BY <1>2, <2>1, <2>2
  <1> QED
    BY <1>7, <1>10, HiddenRefines

LEMMA ResolvePreviousRefines ==
  ASSUME TypeOK, ControlOK, AdvanceOK, NEW p \in Procs, Alone(p), ResolvePrevious(p)
  PROVE  Refines(p)
  <1>0. /\ proc[p] \in Locals /\ Control(proc[p]) /\ proc[p].pc = "prev"
        /\ Aware(proc[p])
    BY DEF TypeOK, ControlOK, AdvanceOK, ResolvePrevious, At
  <1>1. CASE Stop(p)
    BY <1>0, <1>1, StopRefines DEF ResolvePrevious, ObjectsUnchanged, Settled
  <1>2. CASE ~Stop(p)
    <2>1. PICK c : c = HeadCommit /\ Step(p, [proc[p] EXCEPT !.prev = c], "commit")
      BY <1>2 DEF ResolvePrevious
    <2>l. PICK l : l = [[proc[p] EXCEPT !.prev = c] EXCEPT !.pc = "commit"]
      OBVIOUS
    <2>2. /\ l.pc = "commit" /\ l.cmd = proc[p].cmd /\ l.branch = proc[p].branch
          /\ l.prev = c
      BY <2>l, <1>0 DEF Locals
    <2>3. proc' = [proc EXCEPT ![p] = l]
      BY <2>l, <2>1 DEF Step
    <2>4. HiddenStep(p, l)
      BY <1>0, <2>2, <2>3 DEF HiddenStep, ResolvePrevious, ObjectsUnchanged, Settled
    <2>5. refs' = refs /\ head' = head /\ HeadCommit' = HeadCommit
      BY <2>4 DEF HiddenStep, FilesUnchanged, HeadCommit
    <2>6. proc[p].cmd = "analyze"
      BY <1>0 DEF Control
    <2>7. proc[p].branch = IF head.kind = "branch" THEN head.branch ELSE Main
      BY <1>0 DEF Aware
    <2>8. Tracks(l)'
      BY <2>1, <2>2, <2>5, <2>6, <2>7 DEF Tracks, Merging, Merges
    <2> QED
      BY <2>4, <2>8, HiddenRefines
  <1> QED
    BY <1>1, <1>2

LEMMA MergeOursRefines ==
  ASSUME TypeOK, AdvanceOK, NEW p \in Procs, Alone(p), MergeOurs(p)
  PROVE  Refines(p)
  <1>0. /\ proc[p] \in Locals /\ proc[p].pc \in {"mergeOurs", "mergeInto"}
        /\ Aware(proc[p])
    BY DEF TypeOK, AdvanceOK, MergeOurs, At
  <1>1. CASE Stop(p)
    BY <1>0, <1>1, StopRefines DEF MergeOurs, ObjectsUnchanged, Settled
  <1>2. CASE ~Stop(p)
    <2>1. PICK c : /\ c = IF At(p, "mergeInto") THEN refs[proc[p].branch] ELSE HeadCommit
                   /\ Step(p, [proc[p] EXCEPT !.prev = c], "mergeTheirs")
      BY <1>2 DEF MergeOurs
    <2>l. PICK l : l = [[proc[p] EXCEPT !.prev = c] EXCEPT !.pc = "mergeTheirs"]
      OBVIOUS
    <2>2. l.pc = "mergeTheirs" /\ l.branch = proc[p].branch /\ l.prev = c
      BY <2>l, <1>0 DEF Locals
    <2>3. proc' = [proc EXCEPT ![p] = l]
      BY <2>l, <2>1 DEF Step
    <2>4. HiddenStep(p, l)
      BY <1>0, <2>2, <2>3 DEF HiddenStep, MergeOurs, ObjectsUnchanged, Settled
    <2>5. refs' = refs
      BY <2>4 DEF HiddenStep, FilesUnchanged
    <2>6. c = refs[proc[p].branch]
      BY <1>0, <2>1 DEF Aware, HeadCommit, At
    <2>7. Tracks(l)'
      BY <2>2, <2>5, <2>6 DEF Tracks, Merging, Merges
    <2> QED
      BY <2>4, <2>7, HiddenRefines
  <1> QED
    BY <1>1, <1>2

LEMMA MergeTheirsRefines ==
  ASSUME Typed = "none", TypeOK, TracksOK, NEW p \in Procs, Alone(p), MergeTheirs(p)
  PROVE  Refines(p)
  <1>0. /\ proc[p] \in Locals /\ proc[p].pc = "mergeTheirs" /\ Tracks(proc[p])
    BY DEF TypeOK, TracksOK, MergeTheirs, At
  <1>1. CASE Stop(p)
    BY <1>0, <1>1, StopRefines DEF MergeTheirs, ObjectsUnchanged, Settled
  <1>2. CASE ~Stop(p)
    <2>1. PICK c \in {refs[x] : x \in Branches} :
            Step(p, [proc[p] EXCEPT !.theirs = c], "mergeRows")
      BY <1>2 DEF MergeTheirs, TypedIds
    <2>l. PICK l : l = [[proc[p] EXCEPT !.theirs = c] EXCEPT !.pc = "mergeRows"]
      OBVIOUS
    <2>2. /\ l.pc = "mergeRows" /\ l.branch = proc[p].branch /\ l.prev = proc[p].prev
          /\ l.theirs = c
      BY <2>l, <1>0 DEF Locals
    <2>3. proc' = [proc EXCEPT ![p] = l]
      BY <2>l, <2>1 DEF Step
    <2>4. HiddenStep(p, l)
      BY <1>0, <2>2, <2>3 DEF HiddenStep, MergeTheirs, ObjectsUnchanged, Settled
    <2>5. refs' = refs
      BY <2>4 DEF HiddenStep, FilesUnchanged
    <2>6. refs[proc[p].branch] = proc[p].prev
      BY <1>0 DEF Tracks, Merging
    <2>7. Tracks(l)'
      BY <2>1, <2>2, <2>5, <2>6 DEF Tracks, Merging, Merges
    <2> QED
      BY <2>4, <2>7, HiddenRefines
  <1> QED
    BY <1>1, <1>2

-----------------------------------------------------------------------------
(* The writes of ref and HEAD files that History has seen already *)

LEMMA TruncateRefRefines ==
  ASSUME TypeOK, NEW p \in Procs, Alone(p), TruncateRef(p)
  PROVE  Refines(p)
  <1>0. proc[p] \in Locals /\ proc[p].pc = "refTrunc"
    BY DEF TypeOK, TruncateRef, At
  <1>l. PICK l : l = [proc[p] EXCEPT !.pc = "refWrite"]
    OBVIOUS
  <1>1. /\ l.pc = "refWrite" /\ l.cmd = proc[p].cmd /\ l.branch = proc[p].branch
        /\ l.prev = proc[p].prev /\ l.new = proc[p].new
    BY <1>l, <1>0 DEF Locals
  <1>2. proc' = [proc EXCEPT ![p] = l]
    BY <1>l DEF TruncateRef, Step
  <1>3. /\ refs' = [refs EXCEPT ![proc[p].branch] = Torn] /\ head' = head
        /\ commits' = commits /\ snaps' = snaps
    BY DEF TruncateRef, ObjectsUnchanged
  <1>4. Dag' = Dag
    BY <1>3, DagKept
  <1>5. \A b \in Branches : HeadOf(l, b)' = HeadOf(proc[p], b)
    BY <1>0, <1>1, <1>3 DEF HeadOf, TypeOK
  <1>6. CurrentOf(l)' = CurrentOf(proc[p])
    BY <1>0, <1>1, <1>3 DEF CurrentOf, Switches
  <1>7. UNCHANGED H!vars
    BY <1>2, <1>4, <1>5, <1>6, MappedStutter
  <1>8. Tracks(l)'
    BY <1>1, PlainTracks DEF Plain
  <1> QED
    BY <1>2, <1>7, <1>8 DEF Refines

LEMMA WriteRefRefines ==
  ASSUME TypeOK, ControlOK, AnchorOK, NEW p \in Procs, Alone(p), WriteRef(p)
  PROVE  Refines(p)
  <1>0. /\ proc[p] \in Locals /\ proc[p].pc = "refWrite" /\ Anchored(proc[p])
        /\ Control(proc[p]) /\ proc[p].branch \in Branches
        /\ proc[p].new \in CommitIds
    BY DEF TypeOK, WriteRef, At, AnchorOK, ControlOK, Control, Locals
  <1>1. /\ refs' = [refs EXCEPT ![proc[p].branch] = proc[p].new] /\ head' = head
        /\ commits' = commits /\ snaps' = snaps
    BY <1>0 DEF WriteRef, Anchored, ObjectsUnchanged
  <1>2. Dag' = Dag
    BY <1>1, DagKept
  <1>3. ASSUME NEW l, Settled(l) \/ l.pc = "headTrunc", NEW b \in Branches
        PROVE  HeadOf(l, b)' = HeadOf(proc[p], b)
    <2>1. HeadOf(l, b)' = IF refs'[b] = Torn THEN Absent ELSE refs'[b]
      BY <1>3 DEF HeadOf, Settled
    <2>2. CASE b = proc[p].branch
      <3>1. refs'[b] = proc[p].new /\ proc[p].new # Torn
        BY <1>0, <1>1, <2>2 DEF TypeOK, CommitIds, Torn
      <3> QED
        BY <1>0, <2>1, <2>2, <3>1 DEF HeadOf
    <2>3. CASE b # proc[p].branch
      <3>1. refs'[b] = refs[b]
        BY <1>1, <2>3 DEF TypeOK
      <3> QED
        BY <2>1, <2>3, <3>1 DEF HeadOf
    <2> QED
      BY <2>2, <2>3
  <1>4. CASE proc[p].cmd = "analyze" /\ proc[p].prev = Absent
    <2>1. PICK h : /\ h = OnBranch(proc[p].branch)
                   /\ Step(p, [proc[p] EXCEPT !.newHead = h], "headTrunc")
      BY <1>4 DEF WriteRef
    <2>l. PICK l : l = [[proc[p] EXCEPT !.newHead = h] EXCEPT !.pc = "headTrunc"]
      OBVIOUS
    <2>2. /\ l.pc = "headTrunc" /\ l.cmd = proc[p].cmd /\ l.branch = proc[p].branch
          /\ l.newHead = h
      BY <2>l, <1>0 DEF Locals
    <2>3. proc' = [proc EXCEPT ![p] = l]
      BY <2>l, <2>1 DEF Step
    <2>4. h.branch = proc[p].branch
      BY <2>1 DEF OnBranch
    <2>5. CurrentOf(l)' = CurrentOf(proc[p])
      BY <1>0, <1>4, <2>2 DEF CurrentOf, Switches
    <2>6. UNCHANGED H!vars
      BY <1>2, <1>3, <2>2, <2>3, <2>5, MappedStutter
    <2>7. Tracks(l)'
      BY <2>2, <2>4 DEF Tracks, Merging, Merges
    <2> QED
      BY <2>3, <2>6, <2>7 DEF Refines
  <1>5. CASE ~(proc[p].cmd = "analyze" /\ proc[p].prev = Absent)
    <2>1. proc' = [proc EXCEPT ![p] = Idle]
      BY <1>5 DEF WriteRef, Stop
    <2>2. Idle.pc = "idle"
      BY DEF Idle
    <2>3. CurrentOf(Idle)' = CurrentOf(proc[p])
      BY <1>0, <1>1, <1>5, <2>2 DEF CurrentOf, Switches
    <2>4. UNCHANGED H!vars
      BY <1>2, <1>3, <2>1, <2>2, <2>3, MappedStutter DEF Settled
    <2> QED
      BY <2>1, <2>4, PlainIdle, PlainTracks DEF Refines
  <1> QED
    BY <1>4, <1>5

LEMMA TruncateHeadRefines ==
  ASSUME TypeOK, TracksOK, NEW p \in Procs, Alone(p), TruncateHead(p)
  PROVE  Refines(p)
  <1>0. proc[p] \in Locals /\ proc[p].pc = "headTrunc" /\ Tracks(proc[p])
    BY DEF TypeOK, TracksOK, TruncateHead, At
  <1>l. PICK l : l = [proc[p] EXCEPT !.pc = "headWrite"]
    OBVIOUS
  <1>1. /\ l.pc = "headWrite" /\ l.cmd = proc[p].cmd /\ l.branch = proc[p].branch
        /\ l.newHead = proc[p].newHead
    BY <1>l, <1>0 DEF Locals
  <1>2. proc' = [proc EXCEPT ![p] = l]
    BY <1>l DEF TruncateHead, Step
  <1>3. refs' = refs /\ commits' = commits /\ snaps' = snaps
    BY DEF TruncateHead, ObjectsUnchanged
  <1>4. Dag' = Dag
    BY <1>3, DagKept
  <1>5. \A b \in Branches : HeadOf(l, b)' = HeadOf(proc[p], b)
    BY <1>0, <1>1, <1>3 DEF HeadOf
  <1>6. CurrentOf(l)' = CurrentOf(proc[p])
    BY <1>0, <1>1 DEF CurrentOf, Switches
  <1>7. UNCHANGED H!vars
    BY <1>2, <1>4, <1>5, <1>6, MappedStutter
  <1>8. Tracks(l)'
    BY <1>0, <1>1 DEF Tracks, Merging, Merges
  <1> QED
    BY <1>2, <1>7, <1>8 DEF Refines

LEMMA WriteHeadRefines ==
  ASSUME TypeOK, AdvanceOK, TracksOK, NEW p \in Procs, Alone(p), WriteHead(p)
  PROVE  Refines(p)
  <1>0. proc[p].pc = "headWrite" /\ Tracks(proc[p]) /\ Aware(proc[p])
    BY DEF TracksOK, AdvanceOK, WriteHead, At
  <1>1. /\ proc' = [proc EXCEPT ![p] = Idle] /\ head' = proc[p].newHead
        /\ refs' = refs /\ commits' = commits /\ snaps' = snaps
    BY DEF WriteHead, Stop, ObjectsUnchanged
  <1>2. Dag' = Dag
    BY <1>1, DagKept
  <1>3. Idle.pc = "idle"
    BY DEF Idle
  <1>4. \A b \in Branches : HeadOf(Idle, b)' = HeadOf(proc[p], b)
    BY <1>0, <1>1, <1>3 DEF HeadOf
  <1>5. CurrentOf(Idle)' = CurrentOf(proc[p])
    <2>1. head'.kind = "branch"
      BY <1>0, <1>1 DEF Aware
    <2>2. CurrentOf(Idle)' = head'.branch
      BY <1>3, <2>1 DEF CurrentOf, Switches
    <2>3. CurrentOf(proc[p]) = proc[p].newHead.branch
      BY <1>0 DEF CurrentOf, Switches, Tracks
    <2> QED
      BY <1>1, <2>2, <2>3
  <1>6. UNCHANGED H!vars
    BY <1>1, <1>2, <1>4, <1>5, MappedStutter
  <1> QED
    BY <1>1, <1>6, PlainIdle, PlainTracks DEF Refines

-----------------------------------------------------------------------------
(* The steps that are commands of History *)

LEMMA BranchFromRefines ==
  ASSUME Typed = "none", TypeOK, AdvanceOK, NEW p \in Procs, Alone(p), BranchFrom(p)
  PROVE  Refines(p)
  <1>0. proc[p].pc = "idle" /\ HeadKnown
    BY DEF BranchFrom, Start, At, AdvanceOK
  <1>1. PICK b \in Branches, c \in {refs[x] : x \in Branches} \cup {HeadCommit} :
          /\ c > 0
          /\ Step(p, [Idle EXCEPT !.cmd = "branch", !.branch = b, !.new = c], "refCreate")
    BY DEF BranchFrom, TypedIds
  <1>l. PICK l : l = [[Idle EXCEPT !.cmd = "branch", !.branch = b, !.new = c]
                    EXCEPT !.pc = "refCreate"]
    OBVIOUS
  <1>2. l.pc = "refCreate" /\ l.cmd = "branch" /\ l.new = c
    BY <1>l DEF Idle
  <1>3. proc' = [proc EXCEPT ![p] = l]
    BY <1>l, <1>1 DEF Step
  <1>4. HiddenStep(p, l)
    BY <1>0, <1>2, <1>3 DEF HiddenStep, BranchFrom, ObjectsUnchanged, Settled
  <1>5. refs' = refs
    BY <1>4 DEF HiddenStep, FilesUnchanged
  <1>6. \E x \in Branches : refs[x] = c
    <2>1. CASE c = HeadCommit
      <3>1. /\ head.kind \in {"unborn", "branch"}
            /\ head.kind = "branch" => HeadCommit = refs[head.branch]
            /\ head.kind = "unborn" => HeadCommit = Absent
        BY <1>0, HeadSeen DEF At
      <3>2. HeadCommit # Absent
        BY <1>1, <2>1 DEF Absent
      <3>3. head.kind = "branch" /\ head.branch \in Branches
        BY <3>1, <3>2, HeadBranchType
      <3> QED
        BY <2>1, <3>1, <3>3
    <2> QED
      BY <1>1, <2>1
  <1>7. Tracks(l)'
    BY <1>2, <1>5, <1>6 DEF Tracks, Merging, Merges
  <1> QED
    BY <1>4, <1>7, HiddenRefines

LEMMA CheckoutRefines ==
  ASSUME Typed = "none", TypeOK, NEW p \in Procs, Alone(p), Checkout(p)
  PROVE  Refines(p)
  <1>0. proc[p].pc = "idle"
    BY DEF Checkout, Start, At
  <1>1. PICK b \in Branches :
          /\ refs[b] > 0
          /\ Step(p, [Idle EXCEPT !.cmd = "checkout", !.newHead = OnBranch(b)], "headTrunc")
    BY DEF Checkout, TypedIds
  <1>2. PICK h : h = OnBranch(b)
    OBVIOUS
  <1>l. PICK l : l = [[Idle EXCEPT !.cmd = "checkout", !.newHead = h]
                    EXCEPT !.pc = "headTrunc"]
    OBVIOUS
  <1>3. l.pc = "headTrunc" /\ l.cmd = "checkout" /\ l.newHead = h
    BY <1>l DEF Idle
  <1>4. proc' = [proc EXCEPT ![p] = l]
    BY <1>l, <1>1, <1>2 DEF Step
  <1>5. refs' = refs /\ commits' = commits /\ snaps' = snaps
    BY DEF Checkout, ObjectsUnchanged, FilesUnchanged
  <1>6. Dag' = Dag
    BY <1>5, DagKept
  <1>7. /\ MappedHeads = [x \in Branches |-> HeadOf(proc[p], x)]
        /\ MappedHeads' = [x \in Branches |-> HeadOf(l, x)']
        /\ CurrentBranch' = CurrentOf(l)'
    BY <1>4, MappedLocally, MappedAfter
  <1>8. \A x \in Branches : HeadOf(l, x)' = HeadOf(proc[p], x)
    BY <1>0, <1>3, <1>5 DEF HeadOf
  <1>9. MappedHeads' = MappedHeads
    BY <1>7, <1>8
  <1>10. MappedHeads[b] # 0
    BY <1>0, <1>1, <1>7 DEF HeadOf, Torn
  <1>11. CurrentBranch' = b
    <2>1. h.branch = b
      BY <1>2 DEF OnBranch
    <2> QED
      BY <1>3, <1>7, <2>1 DEF CurrentOf, Switches
  <1>12. H!CheckoutBranch(b)
    BY <1>6, <1>9, <1>10, <1>11 DEF H!CheckoutBranch, MappedHeads
  <1>13. Tracks(l)'
    BY <1>3 DEF Tracks, Merging, Merges
  <1> QED
    BY <1>4, <1>12, <1>13 DEF Refines, H!Next

LEMMA UnlinkRefines ==
  ASSUME TypeOK, AnchorOK, NEW p \in Procs, Alone(p), Unlink(p)
  PROVE  Refines(p)
  <1>0. /\ proc[p].pc = "unlink" /\ Anchored(proc[p]) /\ proc[p].branch \in Branches
    BY DEF Unlink, At, AnchorOK, TypeOK, Locals
  <1>1. PICK b \in Branches : b = proc[p].branch
    BY <1>0
  <1>2. /\ proc' = [proc EXCEPT ![p] = Idle] /\ refs' = [refs EXCEPT ![b] = Absent]
        /\ head' = head /\ commits' = commits /\ snaps' = snaps
    BY <1>1, UnlinkAlone DEF Unlink, ObjectsUnchanged
  <1>3. Idle.pc = "idle"
    BY DEF Idle
  <1>4. Dag' = Dag
    BY <1>2, DagKept
  <1>5. /\ MappedHeads = [x \in Branches |-> HeadOf(proc[p], x)]
        /\ MappedHeads' = [x \in Branches |-> HeadOf(Idle, x)']
        /\ CurrentBranch = CurrentOf(proc[p])
        /\ CurrentBranch' = CurrentOf(Idle)'
    BY <1>2, MappedLocally, MappedAfter
  <1>6. \A x \in Branches : HeadOf(Idle, x)' = IF x = b THEN 0 ELSE HeadOf(proc[p], x)
    BY <1>0, <1>2, <1>3 DEF HeadOf, TypeOK, Absent, Torn
  <1>7. MappedHeads' = [MappedHeads EXCEPT ![b] = 0]
    BY <1>5, <1>6
  <1>8. CurrentBranch' = CurrentBranch
    BY <1>0, <1>2, <1>3, <1>5 DEF CurrentOf, Switches
  <1>9. CurrentBranch # b
    BY <1>0, <1>1, <1>5, NullNotABranch DEF CurrentOf, Switches, Anchored
  <1>10. H!DeleteBranch(b)
    BY <1>4, <1>7, <1>8, <1>9 DEF H!DeleteBranch, MappedHeads
  <1> QED
    BY <1>2, <1>10, PlainIdle, PlainTracks DEF Refines, H!Next

LEMMA CreateRefRefines ==
  ASSUME TypeOK, ControlOK, TracksOK, NEW p \in Procs, Alone(p), CreateRef(p)
  PROVE  Refines(p)
  <1>0. /\ proc[p] \in Locals /\ proc[p].pc = "refCreate" /\ Tracks(proc[p])
        /\ Control(proc[p]) /\ proc[p].branch \in Branches
        /\ proc[p].new \in CommitIds
    BY DEF TypeOK, CreateRef, At, TracksOK, ControlOK, Control, Locals
  <1>1. CASE Stop(p) /\ refs' = refs
    BY <1>0, <1>1, StopRefines
       DEF CreateRef, ObjectsUnchanged, FilesUnchanged, Settled
  <1>2. CASE ~(Stop(p) /\ refs' = refs)
    <2>1. PICK b \in Branches : b = proc[p].branch
      BY <1>0
    <2>2. PICK c \in CommitIds : c = proc[p].new
      BY <1>0
    <2>3. /\ refs[b] = Absent /\ refs' = [refs EXCEPT ![b] = Torn]
          /\ Step(p, proc[p], "refWrite")
      BY <1>2, <2>1 DEF CreateRef
    <2>4. head' = head /\ commits' = commits /\ snaps' = snaps
      BY DEF CreateRef, ObjectsUnchanged
    <2>l. PICK l : l = [proc[p] EXCEPT !.pc = "refWrite"]
      OBVIOUS
    <2>5. l.pc = "refWrite" /\ l.cmd = proc[p].cmd /\ l.branch = b /\ l.new = c
      BY <2>l, <1>0, <2>1, <2>2 DEF Locals
    <2>6. proc' = [proc EXCEPT ![p] = l]
      BY <2>l, <2>3 DEF Step
    <2>7. Dag' = Dag
      BY <2>4, DagKept
    <2>8. /\ MappedHeads = [x \in Branches |-> HeadOf(proc[p], x)]
          /\ MappedHeads' = [x \in Branches |-> HeadOf(l, x)']
          /\ CurrentBranch = CurrentOf(proc[p])
          /\ CurrentBranch' = CurrentOf(l)'
      BY <2>6, MappedLocally, MappedAfter
    <2>9. \A x \in Branches : HeadOf(l, x)' = IF x = b THEN c ELSE HeadOf(proc[p], x)
      BY <1>0, <2>3, <2>5 DEF HeadOf, TypeOK
    <2>10. MappedHeads' = [MappedHeads EXCEPT ![b] = c]
      BY <2>8, <2>9
    <2>11. MappedHeads[b] = 0
      BY <1>0, <2>3, <2>8 DEF HeadOf, Absent, Torn
    <2>12. CurrentBranch' = CurrentBranch
      BY <1>0, <2>4, <2>5, <2>8 DEF CurrentOf, Switches, Tracks
    <2>13. \E x \in Branches : MappedHeads[x] = c /\ c # 0
      <3>1. PICK x \in Branches : refs[x] = c
        BY <1>0, <2>2 DEF Tracks
      <3>2. c # 0 /\ c # Torn
        BY DEF CommitIds, Torn
      <3>3. MappedHeads[x] = c
        BY <1>0, <2>8, <3>1, <3>2 DEF HeadOf
      <3> QED
        BY <3>2, <3>3
    <2>14. c \in H!BranchHeads
      BY <2>13 DEF H!BranchHeads, MappedHeads
    <2>15. H!CreateBranch(b, c)
      BY <2>7, <2>10, <2>11, <2>12 DEF H!CreateBranch, MappedHeads
    <2>16. [H!Next]_H!vars
      BY <2>14, <2>15 DEF H!Next
    <2>17. Tracks(l)'
      BY <2>5, PlainTracks DEF Plain
    <2> QED
      BY <2>6, <2>16, <2>17 DEF Refines
  <1> QED
    BY <1>1, <1>2

LEMMA ThreeWayMergeRefines ==
  ASSUME TypeOK, ControlOK, IsDag(commits), TracksOK, NEW p \in Procs, Alone(p),
         ThreeWayMerge(p)
  PROVE  Refines(p)
  <1>0. /\ proc[p] \in Locals /\ proc[p].pc = "mergeRows" /\ Tracks(proc[p])
        /\ Control(proc[p]) /\ proc[p].branch \in Branches
        /\ proc[p].prev \in CommitIds /\ proc[p].theirs \in CommitIds
    BY DEF TypeOK, ThreeWayMerge, At, TracksOK, ControlOK, Control, Locals
  <1>1. PICK b \in Branches, a \in CommitIds, c \in CommitIds :
          b = proc[p].branch /\ a = proc[p].prev /\ c = proc[p].theirs
    BY <1>0
  <1>2. /\ refs[b] = a /\ proc[p].cmd = "merge"
        /\ \E x \in Branches : refs[x] = c
    BY <1>0, <1>1 DEF Tracks, Merging, Control
  <1>3. refs' = refs /\ head' = head /\ commits' = commits /\ snaps' = snaps
    BY DEF ThreeWayMerge, ObjectsUnchanged, FilesUnchanged
  <1>4. a # 0 /\ c # 0 /\ a # Torn /\ c # Torn
    BY DEF CommitIds, Torn
  <1>5. CASE Stop(p)
    BY <1>0, <1>3, <1>5, StopRefines DEF ThreeWayMerge, Settled
  <1>6. CASE MergeOutcome(a, c) = "merged" /\ ~Stop(p)
    <2>1. PICK m : /\ m = Merged(commits, CommitManifests, a, c)
                   /\ Step(p, [proc[p] EXCEPT !.manifest = m], "manifest")
      BY <1>1, <1>6 DEF ThreeWayMerge, CommitManifests
    <2>2. MergeKind(commits, CommitManifests, a, c) = "merged"
      BY <1>6 DEF MergeOutcome, CommitManifests
    <2>l. PICK l : l = [[proc[p] EXCEPT !.manifest = m] EXCEPT !.pc = "manifest"]
      OBVIOUS
    <2>3. /\ l.pc = "manifest" /\ l.cmd = proc[p].cmd /\ l.branch = b /\ l.prev = a
          /\ l.theirs = c /\ l.manifest = m
      BY <2>l, <1>0, <1>1 DEF Locals
    <2>4. proc' = [proc EXCEPT ![p] = l]
      BY <2>l, <2>1 DEF Step
    <2>5. HiddenStep(p, l)
      BY <1>0, <1>3, <2>3, <2>4 DEF HiddenStep, ThreeWayMerge, Settled
    <2>6. CommitManifests' = CommitManifests
      BY <1>3, DagKept
    <2>7. Tracks(l)'
      BY <1>2, <1>3, <2>1, <2>2, <2>3, <2>6 DEF Tracks, Merging, Merges
    <2> QED
      BY <2>5, <2>7, HiddenRefines
  <1>7. CASE MergeOutcome(a, c) = "fast-forward" /\ ~Stop(p)
    <2>1. Step(p, [proc[p] EXCEPT !.new = c], "refTrunc")
      BY <1>1, <1>7 DEF ThreeWayMerge
    <2>2. MergeKind(commits, CommitManifests, a, c) = "fast-forward"
      BY <1>7 DEF MergeOutcome, CommitManifests
    <2>l. PICK l : l = [[proc[p] EXCEPT !.new = c] EXCEPT !.pc = "refTrunc"]
      OBVIOUS
    <2>3. /\ l.pc = "refTrunc" /\ l.cmd = proc[p].cmd /\ l.branch = b /\ l.new = c
      BY <2>l, <1>0, <1>1 DEF Locals
    <2>4. proc' = [proc EXCEPT ![p] = l]
      BY <2>l, <2>1 DEF Step
    <2>5. Dag' = Dag
      BY <1>3, DagKept
    <2>6. /\ MappedHeads = [x \in Branches |-> HeadOf(proc[p], x)]
          /\ MappedHeads' = [x \in Branches |-> HeadOf(l, x)']
          /\ CurrentBranch = CurrentOf(proc[p])
          /\ CurrentBranch' = CurrentOf(l)'
      BY <2>4, MappedLocally, MappedAfter
    <2>7. \A x \in Branches : HeadOf(l, x)' = IF x = b THEN c ELSE HeadOf(proc[p], x)
      BY <1>0, <1>3, <2>3 DEF HeadOf
    <2>8. MappedHeads' = [MappedHeads EXCEPT ![b] = c]
      BY <2>6, <2>7
    <2>9. MappedHeads[b] = a
      BY <1>0, <1>2, <1>4, <2>6 DEF HeadOf
    <2>10. CurrentBranch' = CurrentBranch
      BY <1>0, <1>2, <1>3, <2>3, <2>6 DEF CurrentOf, Switches
    <2>11. c \in H!BranchHeads
      <3>1. PICK x \in Branches : refs[x] = c
        BY <1>2
      <3>2. MappedHeads[x] = c
        BY <1>0, <1>4, <2>6, <3>1 DEF HeadOf
      <3> QED
        BY <1>4, <3>2 DEF H!BranchHeads, MappedHeads
    <2>12. H!MergeKind(Dag, H!ManifestsOf, MappedHeads[b], c) = "fast-forward"
      BY <2>2, <2>9, DagMerge
    <2>13. H!FastForward(b, c)
      BY <1>4, <2>5, <2>8, <2>9, <2>10, <2>12 DEF H!FastForward, MappedHeads
    <2>14. [H!Next]_H!vars
      BY <2>11, <2>13 DEF H!Next
    <2>15. Tracks(l)'
      BY <2>3, PlainTracks DEF Plain
    <2> QED
      BY <2>4, <2>14, <2>15 DEF Refines
  <1> QED
    BY <1>1, <1>5, <1>6, <1>7 DEF ThreeWayMerge

\* The graph grows by the commit the process writes.
LEMMA AppendIs ==
  ASSUME NEW n \in Nat, NEW D, NEW f \in [1..n -> D], NEW r
  PROVE  Append(f, r) = [i \in 1..(n + 1) |-> IF i = n + 1 THEN r ELSE f[i]]
  <1> DEFINE g == Append(f, r)
             E == D \cup {r}
  <1>1. f \in Seq(E) /\ Len(f) = n /\ r \in E
    <2>1. f \in [1..n -> E]
      OBVIOUS
    <2> QED
      BY <2>1, FunctionsAreSequences
  <1>2. /\ g \in Seq(E) /\ DOMAIN g = 1..(n + 1)
        /\ \A i \in 1..n : g[i] = f[i]
        /\ g[n + 1] = r
    BY <1>1, AppendFacts
  <1>3. g = [i \in 1..(n + 1) |-> g[i]]
    <2>1. \A s \in Seq(E) : s = [i \in DOMAIN s |-> s[i]]
      OBVIOUS
    <2> HIDE DEF g, E
    <2> QED
      BY <1>2, <2>1
  <1>4. \A i \in 1..(n + 1) : g[i] = IF i = n + 1 THEN r ELSE f[i]
    <2>1. \A i \in 1..(n + 1) : i # n + 1 => i \in 1..n
      OBVIOUS
    <2> QED
      BY <1>2, <2>1
  <1> HIDE DEF g
  <1> QED
    BY <1>3, <1>4 DEF g

LEMMA DagGrows ==
  ASSUME TypeOK, NEW s \in SnapIds, NEW ps, snaps' = snaps,
         commits' = Append(commits, [snapshot |-> s, parents |-> ps])
  PROVE  Dag' = Append(Dag, [manifest |-> snaps[s], parents |-> ps])
  <1> DEFINE n == Len(commits)
             r == [manifest |-> snaps[s], parents |-> ps]
             D == {Dag[c] : c \in 1..n}
  <1>1. n \in Nat
    BY DEF TypeOK
  <1>2. /\ Len(commits') = n + 1
        /\ \A c \in 1..n : commits'[c] = commits[c]
        /\ commits'[n + 1] = [snapshot |-> s, parents |-> ps]
    BY DEF TypeOK
  <1>3. Dag \in [1..n -> D]
    BY DEF Dag, CommitIds
  <1>4. Append(Dag, r) = [c \in 1..(n + 1) |-> IF c = n + 1 THEN r ELSE Dag[c]]
    BY <1>1, <1>3, AppendIs
  <1>5. Dag' = [c \in 1..(n + 1) |-> [manifest |-> snaps[commits'[c].snapshot],
                                      parents |-> commits'[c].parents]]
    BY <1>2 DEF Dag, CommitIds, ManifestOf
  <1>6. ASSUME NEW c \in 1..(n + 1)
        PROVE  [manifest |-> snaps[commits'[c].snapshot], parents |-> commits'[c].parents]
                 = IF c = n + 1 THEN r ELSE Dag[c]
    <2>1. CASE c = n + 1
      BY <1>2, <2>1
    <2>2. CASE c # n + 1
      <3>1. c \in 1..n
        BY <1>1, <2>2
      <3> QED
        BY <1>2, <2>2, <3>1 DEF Dag, CommitIds, ManifestOf
    <2> QED
      BY <2>1, <2>2
  <1> HIDE DEF n, r, D
  <1>7. Dag' = [c \in 1..(n + 1) |-> IF c = n + 1 THEN r ELSE Dag[c]]
    BY <1>5, <1>6
  <1> QED
    BY <1>4, <1>7 DEF r

LEMMA PairIs ==
  ASSUME NEW D, NEW x \in D, NEW y \in D
  PROVE  <<x>> \o <<y>> = <<x, y>>
  <1>1. PICK s, t : s = <<x>> /\ t = <<y>>
    OBVIOUS
  <1>0. s \in Seq(D) /\ t \in Seq(D) /\ Len(s) = 1 /\ Len(t) = 1 /\ s[1] = x /\ t[1] = y
    BY <1>1
  <1>2. /\ s \o t \in Seq(D) /\ Len(s \o t) = 2
        /\ (s \o t)[1] = x /\ (s \o t)[2] = y
    <2>1. ASSUME NEW u \in Seq(D), NEW v \in Seq(D)
          PROVE  /\ u \o v \in Seq(D) /\ Len(u \o v) = Len(u) + Len(v)
                 /\ \A i \in 1..Len(u) : (u \o v)[i] = u[i]
                 /\ \A i \in 1..Len(v) : (u \o v)[Len(u) + i] = v[i]
      OBVIOUS
    <2>2. /\ s \o t \in Seq(D) /\ Len(s \o t) = Len(s) + Len(t)
          /\ \A i \in 1..Len(s) : (s \o t)[i] = s[i]
          /\ \A i \in 1..Len(t) : (s \o t)[Len(s) + i] = t[i]
      BY <1>0, <2>1
    <2>3. PICK w : w = s \o t
      OBVIOUS
    <2>4. w[1] = s[1] /\ w[1 + 1] = t[1] /\ Len(w) = 1 + 1 /\ w \in Seq(D)
      BY <1>0, <2>2, <2>3
    <2> QED
      BY <1>0, <2>3, <2>4
  <1>3. /\ <<x, y>> \in Seq(D) /\ Len(<<x, y>>) = 2
        /\ <<x, y>>[1] = x /\ <<x, y>>[2] = y
    OBVIOUS
  <1>4. \A u, v \in Seq(D) :
          Len(u) = 2 /\ Len(v) = 2 /\ u[1] = v[1] /\ u[2] = v[2] => u = v
    <2> SUFFICES ASSUME NEW u \in Seq(D), NEW v \in Seq(D), Len(u) = 2, Len(v) = 2,
                        u[1] = v[1], u[2] = v[2]
                 PROVE  u = v
      OBVIOUS
    <2>1. u = [i \in 1..2 |-> u[i]] /\ v = [i \in 1..2 |-> v[i]]
      OBVIOUS
    <2>2. \A i \in 1..2 : u[i] = v[i]
      OBVIOUS
    <2> QED
      BY <2>1, <2>2
  <1> QED
    BY <1>1, <1>2, <1>3, <1>4

\* The ref and HEAD are written after the commit: History sees them move with it.
LEMMA PutCommitRefines ==
  ASSUME TypeOK, ControlOK, AdvanceOK, AnchorOK, IsDag(commits), TracksOK,
         NEW p \in Procs, Alone(p), PutCommit(p)
  PROVE  Refines(p)
  <1>0. /\ proc[p] \in Locals /\ proc[p].pc = "commit" /\ Tracks(proc[p])
        /\ Control(proc[p]) /\ HeadKnown /\ HeadHasBranch
    BY DEF TypeOK, PutCommit, At, TracksOK, ControlOK, AdvanceOK, AnchorOK
  <1>1. PICK b \in Branches, s \in SnapIds, n \in Nat :
          b = proc[p].branch /\ s = proc[p].snap /\ n = Len(commits)
    BY <1>0 DEF Control, Locals, TypeOK
  <1>2. PICK ps : ps = (IF proc[p].prev = Absent THEN <<>> ELSE <<proc[p].prev>>)
                       \o (IF proc[p].cmd = "merge" THEN <<proc[p].theirs>> ELSE <<>>)
    OBVIOUS
  <1>3. /\ commits' = Append(commits, [snapshot |-> s, parents |-> ps])
        /\ Step(p, [proc[p] EXCEPT !.new = n + 1], "refTrunc")
        /\ Len(commits) < MaxCommits
        /\ snaps' = snaps /\ refs' = refs /\ head' = head
    BY <1>1, <1>2 DEF PutCommit, FilesUnchanged
  <1>l. PICK l : l = [[proc[p] EXCEPT !.new = n + 1] EXCEPT !.pc = "refTrunc"]
    OBVIOUS
  <1>4. /\ l.pc = "refTrunc" /\ l.cmd = proc[p].cmd /\ l.branch = b
        /\ l.prev = proc[p].prev /\ l.new = n + 1
    BY <1>l, <1>0, <1>1 DEF Locals
  <1>5. proc' = [proc EXCEPT ![p] = l]
    BY <1>l, <1>3 DEF Step
  <1>6. PICK m \in Manifests : m = snaps[s]
    BY DEF TypeOK, SnapIds
  <1>m. m \in H!Manifests
    BY DEF H!Manifests, Manifests
  <1>7. Dag' = Append(Dag, [manifest |-> m, parents |-> ps])
    BY <1>3, <1>6, DagGrows
  <1>8. Len(Dag) = n /\ Len(Dag) < MaxCommits
    BY <1>1, <1>3, DagIs
  <1>9. /\ MappedHeads = [x \in Branches |-> HeadOf(proc[p], x)]
        /\ MappedHeads' = [x \in Branches |-> HeadOf(l, x)']
        /\ CurrentBranch = CurrentOf(proc[p])
        /\ CurrentBranch' = CurrentOf(l)'
    BY <1>5, MappedLocally, MappedAfter
  <1>10. \A x \in Branches : HeadOf(l, x)' = IF x = b THEN n + 1 ELSE HeadOf(proc[p], x)
    BY <1>0, <1>3, <1>4 DEF HeadOf
  <1>11. MappedHeads' = [MappedHeads EXCEPT ![b] = Len(Dag) + 1]
    BY <1>8, <1>9, <1>10
  <1>12. H!AddCommit(b, m, ps)
    BY <1>7, <1>8, <1>11 DEF H!AddCommit, MappedHeads
  <1>13. CurrentBranch = IF head.kind = "branch" THEN head.branch ELSE Null
    BY <1>0, <1>9 DEF CurrentOf, Switches
  <1>14. Tracks(l)'
    BY <1>4, PlainTracks DEF Plain
  <1>15. proc[p].prev \in CommitIds \cup {Absent}
    BY <1>0 DEF Locals
  <1>16. CASE proc[p].cmd = "analyze"
    <2>1. /\ b = IF head.kind = "branch" THEN head.branch ELSE Main
          /\ proc[p].prev = HeadCommit
      BY <1>0, <1>1, <1>16 DEF Tracks
    <2>2. /\ head.kind \in {"unborn", "branch"}
          /\ head.kind = "branch" => HeadCommit = refs[head.branch]
          /\ head.kind = "unborn" => HeadCommit = Absent
      BY <1>0, HeadSeen DEF At
    <2>3. CASE head.kind = "unborn"
      <3>1. proc[p].prev = Absent
        BY <2>1, <2>2, <2>3
      <3>2. ps = <<>>
        BY <1>2, <1>16, <3>1
      <3>3. CurrentBranch = Null /\ b = Main
        BY <1>13, <2>1, <2>3
      <3>4. CurrentBranch' = b
        BY <1>4, <1>9, <1>16, <3>1 DEF CurrentOf, Switches
      <3>5. H!Analyze(m)
        BY <1>12, <3>2, <3>3, <3>4 DEF H!Analyze
      <3> QED
        BY <1>5, <1>m, <1>14, <3>5 DEF Refines, H!Next
    <2>4. CASE head.kind = "branch"
      <3>1. /\ b = head.branch /\ b # Null /\ CurrentBranch = b
            /\ proc[p].prev = refs[b]
        BY <1>13, <2>1, <2>2, <2>4, NullNotABranch
      <3>2. proc[p].prev # Absent /\ refs[b] # Torn
        BY <1>0, <1>15, <2>4, <3>1 DEF HeadHasBranch, CommitIds, Torn, Absent
      <3>3. MappedHeads[b] = proc[p].prev /\ MappedHeads[b] # 0
        BY <1>0, <1>9, <3>1, <3>2 DEF HeadOf, Absent
      <3>4. ps = <<MappedHeads[b]>>
        BY <1>2, <1>16, <3>2, <3>3
      <3>5. CurrentBranch' = b
        BY <1>3, <1>4, <1>9, <1>16, <2>4, <3>1, <3>2 DEF CurrentOf, Switches
      <3>6. H!Analyze(m)
        BY <1>12, <3>1, <3>3, <3>4, <3>5 DEF H!Analyze, MappedHeads
      <3> QED
        BY <1>5, <1>m, <1>14, <3>6 DEF Refines, H!Next
    <2> QED
      BY <2>2, <2>3, <2>4
  <1>17. CASE proc[p].cmd = "merge"
    <2>1. PICK a \in CommitIds, c \in CommitIds : a = proc[p].prev /\ c = proc[p].theirs
      BY <1>0, <1>17 DEF Control, Locals
    <2>2. /\ refs[b] = a /\ \E x \in Branches : refs[x] = c
          /\ MergeKind(commits, CommitManifests, a, c) = "merged"
          /\ Merged(commits, CommitManifests, a, c) = m
      BY <1>0, <1>1, <1>6, <1>17, <2>1 DEF Tracks, Merging, Merges
    <2>3. a # 0 /\ c # 0 /\ a # Torn /\ c # Torn
      BY DEF CommitIds, Torn
    <2>4. MappedHeads[b] = a
      BY <1>0, <1>9, <2>2, <2>3 DEF HeadOf
    <2>5. c \in H!BranchHeads
      <3>1. PICK x \in Branches : refs[x] = c
        BY <2>2
      <3>2. MappedHeads[x] = c
        BY <1>0, <1>9, <2>3, <3>1 DEF HeadOf
      <3> QED
        BY <2>3, <3>2 DEF H!BranchHeads, MappedHeads
    <2>6. /\ H!MergeKind(Dag, H!ManifestsOf, MappedHeads[b], c) = "merged"
          /\ H!Merged(Dag, H!ManifestsOf, MappedHeads[b], c) = m
      BY <2>2, <2>4, DagMerge
    <2>7. ps = <<MappedHeads[b], c>>
      <3>1. ps = <<a>> \o <<c>>
        BY <1>2, <1>17, <2>1, <2>3 DEF Absent
      <3> QED
        BY <2>4, <3>1, PairIs
    <2>8. CurrentBranch' = CurrentBranch
      BY <1>3, <1>4, <1>9, <1>13, <1>17 DEF CurrentOf, Switches
    <2>9. H!Merge(b, c)
      BY <1>12, <2>3, <2>4, <2>6, <2>7, <2>8 DEF H!Merge, MappedHeads
    <2> QED
      BY <1>5, <1>14, <2>5, <2>9 DEF Refines, H!Next
  <1> QED
    BY <1>0, <1>16, <1>17 DEF Control

-----------------------------------------------------------------------------

\* Whoever takes a step runs alone.
LEMMA EverybodyAlone ==
  ASSUME Serial, ~Crashes, TypeOK, OneAtATime, NEW p \in Procs,
         \/ StartAnalyze(p) \/ PutRow(p) \/ PutManifest(p) \/ PutSnapshot(p)
         \/ ResolveBranch(p) \/ ResolvePrevious(p) \/ PutCommit(p)
         \/ TruncateRef(p) \/ CreateRef(p) \/ WriteRef(p)
         \/ TruncateHead(p) \/ WriteHead(p)
         \/ Checkout(p) \/ BranchFrom(p) \/ DeleteBranch(p) \/ Unlink(p)
         \/ StartMerge(p) \/ MergeOurs(p) \/ MergeTheirs(p) \/ ThreeWayMerge(p)
         \/ MergeDryRun(p)
         \/ StartGc(p) \/ GcReadRef(p) \/ GcReadHead(p) \/ GcMark(p)
         \/ GcSweep(p) \/ GcDone(p)
  PROVE  Alone(p)
  <1>1. ~At(p, "idle") \/ \E cmd \in AllCommands : Start(p, cmd)
    <2>1. CASE \/ StartAnalyze(p) \/ Checkout(p) \/ BranchFrom(p) \/ DeleteBranch(p)
               \/ StartMerge(p) \/ StartGc(p)
      BY <2>1 DEF AllCommands, StartAnalyze, Checkout, BranchFrom, DeleteBranch,
                  StartMerge, StartGc
    <2>2. CASE ~(\/ StartAnalyze(p) \/ Checkout(p) \/ BranchFrom(p) \/ DeleteBranch(p)
                 \/ StartMerge(p) \/ StartGc(p))
      BY <2>2 DEF PutRow, PutManifest, PutSnapshot, ResolveBranch, ResolvePrevious,
                  PutCommit, TruncateRef, CreateRef, WriteRef, TruncateHead, WriteHead,
                  Unlink, MergeOurs, MergeTheirs, ThreeWayMerge, MergeDryRun,
                  GcReadRef, GcReadHead, GcMark, GcSweep, GcDone, At
    <2> QED
      BY <2>1, <2>2
  <1> QED
    BY <1>1, ActsAlone DEF Alone

LEMMA StepRefines ==
  ASSUME Serial, ~Crashes, Typed = "none", TypeOK, ControlOK, IdleOK, OneAtATime,
         IsDag(commits), AdvanceOK, AnchorOK, TracksOK, Next
  PROVE  TracksOK' /\ [H!Next]_H!vars
  <1>1. PICK p \in Procs : Alone(p) /\ Refines(p)
    <2>1. ASSUME NEW p \in Procs, Crash(p) PROVE FALSE
      BY <2>1 DEF Crash
    <2> QED
      BY <2>1, EverybodyAlone, PlainRefines, PutManifestRefines, PutSnapshotRefines,
         ResolvePreviousRefines, PutCommitRefines, TruncateRefRefines,
         CreateRefRefines, WriteRefRefines, TruncateHeadRefines, WriteHeadRefines,
         CheckoutRefines, BranchFromRefines, UnlinkRefines, MergeOursRefines,
         MergeTheirsRefines, ThreeWayMergeRefines DEF Next
  <1>2. PICK l : proc' = [proc EXCEPT ![p] = l] /\ Tracks(l)' /\ [H!Next]_H!vars
    BY <1>1 DEF Refines
  <1> QED
    BY <1>1, <1>2, TracksStep

\* GraphStore implements History when commands run one at a time, each to its end,
\* on branches: every step of the files is a command of History or invisible.
THEOREM StoreIsHistory ==
  ASSUME Serial, ~Crashes, Typed = "none"
  PROVE  Spec => ImplementsHistory
  <1> DEFINE Inv == /\ TypeOK /\ ControlOK /\ IdleOK /\ OneAtATime
                    /\ IsDag(commits) /\ AdvanceOK /\ AnchorOK /\ TracksOK
  <1>1. Init => Inv /\ H!Init
    <2> SUFFICES ASSUME Init PROVE Inv /\ H!Init
      OBVIOUS
    <2>1. \A p \in Procs : proc[p] = Idle
      BY DEF Init
    <2>2. Idle.pc = "idle"
      BY DEF Idle
    <2>3. HeadKnown /\ HeadHasBranch /\ IsDag(commits)
      BY DEF Init, HeadKnown, HeadHasBranch, Unborn, IsDag
    <2>4. Inv
      BY <2>1, <2>2, <2>3, InitType, ControlIdle, AwareIdle, AnchorIdle, PlainIdle,
         PlainTracks
         DEF ControlOK, IdleOK, OneAtATime, AdvanceOK, AnchorOK, TracksOK, At
    <2>5. Dag = <<>>
      BY DEF Init, Dag, CommitIds
    <2>6. Switching = {} /\ \A b \in Branches : Moving(b) = {}
      BY <2>1, <2>2 DEF Moving, Switching, At
    <2>7. \A b \in Branches : BranchHead(b) = 0
      BY <2>6 DEF BranchHead, Init, Torn, Absent
    <2>8. CurrentBranch = Null
      BY <2>6 DEF CurrentBranch, Init, Unborn
    <2>9. H!Init
      BY <2>5, <2>7, <2>8 DEF H!Init
    <2> QED
      BY <2>4, <2>9
  <1>2. Inv /\ [Next]_vars => Inv' /\ [H!Next]_H!vars
    <2> SUFFICES ASSUME Inv, [Next]_vars PROVE Inv' /\ [H!Next]_H!vars
      OBVIOUS
    <2>1. CASE Next
      BY <2>1, TypeNext, ControlNext, AloneNext, DagNext, AdvanceNext, AnchorNext,
         StepRefines
    <2>2. CASE UNCHANGED vars
      <3>1. TypeOK'
        BY <2>2, LocalStep DEF vars, TypeOK, ObjectsUnchanged, FilesUnchanged
      <3>2. ControlOK' /\ IdleOK' /\ OneAtATime'
        BY <2>2 DEF vars, ControlOK, IdleOK, OneAtATime, At
      <3>3. AdvanceOK' /\ IsDag(commits')
        BY <2>2 DEF vars, AdvanceOK, HeadKnown, Aware, HasPrev, At
      <3>4. AnchorOK'
        BY <2>2 DEF vars, AnchorOK, HeadHasBranch, Anchored
      <3>5. CommitManifests' = CommitManifests /\ HeadCommit' = HeadCommit
        BY <2>2 DEF vars, CommitManifests, CommitIds, ManifestOf, HeadCommit
      <3>6. TracksOK'
        BY <2>2, <3>5 DEF vars, TracksOK, Tracks, Merging, Merges
      <3>7. UNCHANGED H!vars
        BY <2>2 DEF vars, H!vars, Dag, CommitIds, ManifestOf, BranchHead, Moving,
                    CurrentBranch, Switching, Target, At
      <3> QED
        BY <3>1, <3>2, <3>3, <3>4, <3>6, <3>7
    <2> QED
      BY <2>1, <2>2
  <1> QED
    BY <1>1, <1>2, PTL DEF Spec, ImplementsHistory, H!Spec

=============================================================================
