------------------------ MODULE GraphStoreRefinement ------------------------
(***************************************************************************)
(* GraphStore implements History as long as some lock keeps commands apart,*)
(* none of them dies half-way and HEAD stays on branches: the file writes  *)
(* of a command then add up to one step of History, taken when the commit  *)
(* object is written (analyze, merge), when merge has found a fast forward,*)
(* when the new ref file is opened (branch create), when it is unlinked    *)
(* (branch delete) and when checkout has found its target.                 *)
(***************************************************************************)
EXTENDS GraphStore

\* While HEAD is unborn the current branch is Null, which is none of the branches.
ASSUME NullNotABranch == Null \notin Branches

\* The commit graph with every snapshot replaced by its manifest.
Dag == [c \in CommitIds |-> [manifest |-> ManifestOf(c),
                             parents |-> commits[c].parents]]

\* The processes that have decided where branch b goes and have yet to write it.
Moving(b) == {p \in Procs : /\ At(p, "refTrunc") \/ At(p, "refWrite")
                            /\ proc[p].branch = b}

\* The processes that have decided where HEAD goes and have yet to write it.
Switching == {p \in Procs : \/ At(p, "headTrunc") \/ At(p, "headWrite")
                            \/ /\ At(p, "refTrunc") \/ At(p, "refWrite")
                               /\ proc[p].cmd = "analyze"
                               /\ proc[p].prev = Absent}

BranchHead(b) == IF Moving(b) # {} THEN proc[CHOOSE p \in Moving(b) : TRUE].new
                 ELSE IF refs[b] = Torn THEN Absent
                 ELSE refs[b]

\* The branch a process that moves HEAD moves it to.
Target(p) == IF proc[p].cmd = "checkout" THEN proc[p].newHead.branch
             ELSE proc[p].branch

CurrentBranch == IF Switching # {} THEN Target(CHOOSE p \in Switching : TRUE)
                 ELSE IF head.kind = "branch" THEN head.branch
                 ELSE Null

H == INSTANCE History WITH dag <- Dag,
                           heads <- [b \in Branches |-> BranchHead(b)],
                           current <- CurrentBranch

\* The commands are atomic to their user: each of them has the effect History
\* says or none, whatever its file operations look like in between.
ImplementsHistory == H!Spec

=============================================================================
