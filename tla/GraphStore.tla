----------------------------- MODULE GraphStore -----------------------------
(***************************************************************************)
(* The versioned graph store (packages/graphstore) under the commands that *)
(* drive it (packages/core/src/cli/graphstore.ts and the snapshot taken by *)
(* every analyze): a content-addressed object store, branch refs and a     *)
(* HEAD file, commands made of several file operations each, a mark and    *)
(* sweep collector, and processes that may die between any two of those    *)
(* operations.                                                             *)
(*                                                                         *)
(* Objects are content-addressed and immutable, so what an object SAYS is  *)
(* kept apart from whether it is on DISK: commits[c] and snaps[s] are what *)
(* commit c and snapshot s say, store is what the disk holds.  A commit or *)
(* a snapshot carries a timestamp and is a new object each time it is      *)
(* written; a manifest or a row is its content, and writing it twice is    *)
(* writing it once.                                                        *)
(***************************************************************************)
EXTENDS Integers, Sequences, FiniteSets, CommitHistory

CONSTANTS
  Procs,      \* processes that run commands on one repository
  Branches,   \* branch names
  Main,       \* DEFAULT_BRANCH
  Commands,   \* the commands the processes run
  Serial,     \* TRUE: some lock lets one command run at a time
  Crashes,    \* TRUE: a process may die in the middle of a command
  Typed,      \* the commit ids users type: see TypedIds
  MaxCommits, \* bound on the commits ever written
  MaxSnaps    \* bound on the snapshots ever written

AllCommands == {"analyze", "merge", "checkout", "branch", "delete", "gc"}

ASSUME GraphStoreConstants ==
  /\ Main \in Branches
  /\ Commands \subseteq AllCommands
  /\ Serial \in BOOLEAN
  /\ Crashes \in BOOLEAN
  /\ Typed \in {"none", "reachable", "any"}
  /\ MaxCommits \in Nat
  /\ MaxSnaps \in Nat

VARIABLES
  store,    \* the objects on disk, by type
  commits,  \* commits[c]: what commit c says
  snaps,    \* snaps[s]: the manifest snapshot s points at
  refs,     \* refs/heads/<name>: a commit id, Absent or Torn
  head,     \* the HEAD file
  proc      \* the command each process is running, and its local variables

vars == <<store, commits, snaps, refs, head, proc>>

-----------------------------------------------------------------------------
(* The files *)

\* No such ref file; also null for a commit id.
Absent == 0

\* A ref file that has been opened for writing and holds nothing yet.
Torn == -1

Unborn      == [kind |-> "unborn", branch |-> Main, commit |-> Absent]
TornHead    == [kind |-> "torn", branch |-> Main, commit |-> Absent]
OnBranch(b) == [kind |-> "branch", branch |-> b, commit |-> Absent]
Detached(c) == [kind |-> "detached", branch |-> Main, commit |-> c]

CommitIds == 1..Len(commits)
SnapIds   == 1..Len(snaps)

EmptyStore == [row |-> {}, manifest |-> {}, snapshot |-> {}, commit |-> {}]

\* What the refs lead to: every branch head, and a detached HEAD.
Heads == {refs[b] : b \in {x \in Branches : refs[x] > 0}}
         \cup (IF head.kind = "detached" THEN {head.commit} ELSE {})

\* The commits walkCommits yields from any of the commits in S.
Reach(S) == Reachable(commits, S)

\* Commit c, its snapshot, its manifest and its rows are all on disk.
Intact(c) ==
  /\ c \in store.commit
  /\ commits[c].snapshot \in store.snapshot
  /\ snaps[commits[c].snapshot] \in store.manifest
  /\ RowsOf(snaps[commits[c].snapshot]) \subseteq store.row

-----------------------------------------------------------------------------
(* Processes *)

PCs == {"idle", "rows", "manifest", "snapshot", "branch", "prev", "commit",
        "refTrunc", "refCreate", "refWrite", "headTrunc", "headWrite",
        "mergeOurs", "mergeInto", "mergeTheirs", "mergeRows", "unlink",
        "gcRefs", "gcHead", "gcMark", "gcSweep"}

\* The local variables of a process between two commands.
Idle ==
  [pc |-> "idle", cmd |-> "gc", rows |-> {}, manifest |-> EmptyManifest,
   snap |-> 0, branch |-> Main, prev |-> Absent, theirs |-> Absent,
   new |-> Absent, linked |-> TRUE, newHead |-> Unborn, names |-> {},
   seeds |-> {}, mark |-> EmptyStore, pending |-> EmptyStore]

\* Process p moves on to pc with local variables l.
Step(p, l, pc) == proc' = [proc EXCEPT ![p] = [l EXCEPT !.pc = pc]]

\* Process p returns, throws or dies: its local variables are gone.
Stop(p) == proc' = [proc EXCEPT ![p] = Idle]

At(p, pc) == proc[p].pc = pc

\* A command starts: under Serial only when no other one runs.
Start(p, cmd) ==
  /\ At(p, "idle")
  /\ cmd \in Commands
  /\ Serial => \A q \in Procs : At(q, "idle")

FilesUnchanged   == UNCHANGED <<refs, head>>
ObjectsUnchanged == UNCHANGED <<store, commits, snaps>>

Init ==
  /\ store = EmptyStore
  /\ commits = <<>>
  /\ snaps = <<>>
  /\ refs = [b \in Branches |-> Absent]
  /\ head = Unborn
  /\ proc = [p \in Procs |-> Idle]

-----------------------------------------------------------------------------
(* recordAnalysisSnapshot: rows, manifest, snapshot, commit, ref, HEAD *)

\* analyze (or commit) snapshots the graph g the database holds; it has the
\* database open for writing, which one process at a time can.
StartAnalyze(p) ==
  /\ Start(p, "analyze")
  /\ \A q \in Procs : ~(proc[q].cmd = "analyze" /\ ~At(q, "idle"))
  /\ Len(commits) < MaxCommits /\ Len(snaps) < MaxSnaps
  /\ \E g \in Manifests :
       Step(p, [Idle EXCEPT !.cmd = "analyze", !.manifest = g,
                            !.rows = RowsOf(g)], "rows")
  /\ ObjectsUnchanged /\ FilesUnchanged

\* Mutant of PutRow: the puts are not awaited.
PutRowUnawaited(p) ==
  /\ At(p, "rows")
  /\ \/ \E r \in proc[p].rows :
          /\ store' = [store EXCEPT !.row = @ \cup {r}]
          /\ Step(p, [proc[p] EXCEPT !.rows = @ \ {r}], "rows")
     \/ Step(p, proc[p], "manifest") /\ UNCHANGED store
  /\ UNCHANGED <<commits, snaps>> /\ FilesUnchanged

\* Every row is put before the manifest that names it.
PutRow(p) ==
  /\ At(p, "rows")
  /\ \/ \E r \in proc[p].rows :
          /\ store' = [store EXCEPT !.row = @ \cup {r}]
          /\ Step(p, [proc[p] EXCEPT !.rows = @ \ {r}], "rows")
     \/ /\ proc[p].rows = {}
        /\ Step(p, proc[p], "manifest")
        /\ UNCHANGED store
  /\ UNCHANGED <<commits, snaps>> /\ FilesUnchanged

PutManifest(p) ==
  /\ At(p, "manifest")
  /\ store' = [store EXCEPT !.manifest = @ \cup {proc[p].manifest}]
  /\ Step(p, proc[p], "snapshot")
  /\ UNCHANGED <<commits, snaps>> /\ FilesUnchanged

\* A merge knows its branch and parents by now, an analyze does not.
PutSnapshot(p) ==
  LET s == Len(snaps) + 1 IN
  /\ At(p, "snapshot")
  /\ Len(snaps) < MaxSnaps
  /\ snaps' = Append(snaps, proc[p].manifest)
  /\ store' = [store EXCEPT !.snapshot = @ \cup {s}]
  /\ Step(p, [proc[p] EXCEPT !.snap = s],
          IF proc[p].cmd = "merge" THEN "commit" ELSE "branch")
  /\ UNCHANGED commits /\ FilesUnchanged

\* resolveCurrentBranch: a detached or unborn HEAD means DEFAULT_BRANCH, a
\* HEAD that does not parse makes the command throw.
ResolveBranch(p) ==
  /\ At(p, "branch")
  /\ \/ /\ head.kind # "torn"
        /\ Step(p, [proc[p] EXCEPT !.branch =
                      IF head.kind = "branch" THEN head.branch ELSE Main],
                "prev")
     \/ /\ head.kind = "torn"
        /\ Stop(p)
  /\ ObjectsUnchanged /\ FilesUnchanged

\* resolveHeadCommit, in one step: Torn when it throws.
HeadCommit ==
  CASE head.kind = "unborn"   -> Absent
    [] head.kind = "torn"     -> Torn
    [] head.kind = "detached" -> head.commit
    [] head.kind = "branch"   -> refs[head.branch]

\* Mutant of ResolvePrevious: the malformed ref is not an error.
ResolvePreviousUnchecked(p) ==
  /\ At(p, "prev")
  /\ Step(p, [proc[p] EXCEPT !.prev = HeadCommit], "commit")
  /\ ObjectsUnchanged /\ FilesUnchanged

\* Mutant of ResolvePrevious: the parent is always the head of main.
ResolvePreviousOfMain(p) ==
  /\ At(p, "prev")
  /\ HeadCommit # Torn /\ refs[Main] # Torn
  /\ Step(p, [proc[p] EXCEPT !.prev = refs[Main]], "commit")
  /\ ObjectsUnchanged /\ FilesUnchanged

\* The parent of the new commit; HEAD is read again for it.
ResolvePrevious(p) ==
  /\ At(p, "prev")
  /\ \/ /\ HeadCommit # Torn
        /\ Step(p, [proc[p] EXCEPT !.prev = HeadCommit], "commit")
     \/ /\ HeadCommit = Torn
        /\ Stop(p)
  /\ ObjectsUnchanged /\ FilesUnchanged

\* createCommit with the parents the command resolved.
PutCommit(p) ==
  LET c == Len(commits) + 1
      parents == (IF proc[p].prev = Absent THEN <<>> ELSE <<proc[p].prev>>)
                 \o (IF proc[p].cmd = "merge" THEN <<proc[p].theirs>> ELSE <<>>)
  IN
  /\ At(p, "commit")
  /\ Len(commits) < MaxCommits
  /\ commits' = Append(commits, [snapshot |-> proc[p].snap, parents |-> parents])
  /\ store' = [store EXCEPT !.commit = @ \cup {c}]
  /\ Step(p, [proc[p] EXCEPT !.new = c], "refTrunc")
  /\ UNCHANGED snaps /\ FilesUnchanged

-----------------------------------------------------------------------------
(* Ref and HEAD files: fs.writeFile opens (and truncates), then writes *)

\* setHead: whatever the branch pointed at is gone once the file is open.
TruncateRef(p) ==
  /\ At(p, "refTrunc")
  /\ refs' = [refs EXCEPT ![proc[p].branch] = Torn]
  /\ Step(p, proc[p], "refWrite")
  /\ UNCHANGED head /\ ObjectsUnchanged

\* Mutant of CreateRef: without flag wx.
CreateOrMoveRef(p) ==
  /\ At(p, "refCreate")
  /\ refs' = [refs EXCEPT ![proc[p].branch] = Torn]
  /\ Step(p, proc[p], "refWrite")
  /\ UNCHANGED head /\ ObjectsUnchanged

\* createBranch: flag wx refuses a ref that exists.
CreateRef(p) ==
  /\ At(p, "refCreate")
  /\ \/ /\ refs[proc[p].branch] = Absent
        /\ refs' = [refs EXCEPT ![proc[p].branch] = Torn]
        /\ Step(p, proc[p], "refWrite")
     \/ /\ refs[proc[p].branch] # Absent
        /\ Stop(p)
        /\ UNCHANGED refs
  /\ UNCHANGED head /\ ObjectsUnchanged

\* The bytes go to the file that was opened, which may have been unlinked in the
\* meantime.  The first commit ever also anchors HEAD on its branch.
WriteRef(p) ==
  /\ At(p, "refWrite")
  /\ refs' = IF proc[p].linked THEN [refs EXCEPT ![proc[p].branch] = proc[p].new]
             ELSE refs
  /\ IF proc[p].cmd = "analyze" /\ proc[p].prev = Absent
       THEN Step(p, [proc[p] EXCEPT !.newHead = OnBranch(proc[p].branch)],
                 "headTrunc")
       ELSE Stop(p)
  /\ UNCHANGED head /\ ObjectsUnchanged

TruncateHead(p) ==
  /\ At(p, "headTrunc")
  /\ head' = TornHead
  /\ Step(p, proc[p], "headWrite")
  /\ UNCHANGED refs /\ ObjectsUnchanged

WriteHead(p) ==
  /\ At(p, "headWrite")
  /\ head' = proc[p].newHead
  /\ Stop(p)
  /\ UNCHANGED refs /\ ObjectsUnchanged

-----------------------------------------------------------------------------
(* checkout, branch create, branch delete *)

\* The commit ids a user may type: none (branch names only), those that log and
\* branch list lead to, or any id ever printed.
TypedIds == CASE Typed = "none"      -> {}
              [] Typed = "reachable" -> Reach(Heads)
              [] Typed = "any"       -> CommitIds

\* A branch that listBranches lists, or a literal commit id; a literal is not
\* looked up in the store.
Checkout(p) ==
  /\ Start(p, "checkout")
  /\ \/ \E b \in Branches : /\ refs[b] > 0
                            /\ Step(p, [Idle EXCEPT !.cmd = "checkout",
                                        !.newHead = OnBranch(b)], "headTrunc")
     \/ \E c \in TypedIds : Step(p, [Idle EXCEPT !.cmd = "checkout",
                                     !.newHead = Detached(c)], "headTrunc")
  /\ ObjectsUnchanged /\ FilesUnchanged

\* branch create <name> [--from <target>].
BranchFrom(p) ==
  /\ Start(p, "branch")
  /\ \E b \in Branches,
        c \in TypedIds \cup ({refs[x] : x \in Branches} \cup {HeadCommit}) :
       /\ c > 0
       /\ Step(p, [Idle EXCEPT !.cmd = "branch", !.branch = b, !.new = c],
               "refCreate")
  /\ ObjectsUnchanged /\ FilesUnchanged

\* Mutant of DeleteBranch: HEAD is not looked at.
DeleteAnyBranch(p) ==
  /\ Start(p, "delete")
  /\ \E b \in Branches :
       Step(p, [Idle EXCEPT !.cmd = "delete", !.branch = b], "unlink")
  /\ ObjectsUnchanged /\ FilesUnchanged

\* branch delete: refuses the checked-out branch; a HEAD that does not parse
\* counts as unborn.
DeleteBranch(p) ==
  /\ Start(p, "delete")
  /\ \E b \in Branches :
       /\ ~(head.kind = "branch" /\ head.branch = b)
       /\ Step(p, [Idle EXCEPT !.cmd = "delete", !.branch = b], "unlink")
  /\ ObjectsUnchanged /\ FilesUnchanged

Unlink(p) ==
  /\ At(p, "unlink")
  /\ refs' = [refs EXCEPT ![proc[p].branch] = Absent]
  /\ proc' = [q \in Procs |->
                IF q = p THEN Idle
                ELSE IF At(q, "refWrite") /\ proc[q].branch = proc[p].branch
                  THEN [proc[q] EXCEPT !.linked = FALSE]
                ELSE proc[q]]
  /\ UNCHANGED head /\ ObjectsUnchanged

-----------------------------------------------------------------------------
(* merge <target>, and the MCP tool graphstore_merge *)

\* The command is refused unless HEAD is on a branch and merges into that one;
\* the tool merges into any branch it is given.
StartMerge(p) ==
  /\ Start(p, "merge")
  /\ Len(commits) < MaxCommits /\ Len(snaps) < MaxSnaps
  /\ \/ /\ head.kind = "branch"
        /\ Step(p, [Idle EXCEPT !.cmd = "merge", !.branch = head.branch],
                "mergeOurs")
     \/ \E b \in Branches :
          Step(p, [Idle EXCEPT !.cmd = "merge", !.branch = b], "mergeInto")
  /\ ObjectsUnchanged /\ FilesUnchanged

\* ours: the command resolves HEAD again, the tool lists the branches; null or
\* unparsable ends the merge.
MergeOurs(p) ==
  LET ours == IF At(p, "mergeInto") THEN refs[proc[p].branch] ELSE HeadCommit IN
  /\ At(p, "mergeOurs") \/ At(p, "mergeInto")
  /\ \/ /\ ours > 0
        /\ Step(p, [proc[p] EXCEPT !.prev = ours], "mergeTheirs")
     \/ /\ ours <= 0
        /\ Stop(p)
  /\ ObjectsUnchanged /\ FilesUnchanged

\* theirs: a listed branch or a literal id; none such ends the command.
MergeTheirs(p) ==
  /\ At(p, "mergeTheirs")
  /\ \/ \E c \in TypedIds \cup {refs[x] : x \in Branches} :
          /\ c > 0
          /\ Step(p, [proc[p] EXCEPT !.theirs = c], "mergeRows")
     \/ Stop(p)
  /\ ObjectsUnchanged /\ FilesUnchanged

ManifestOf(c) == snaps[commits[c].snapshot]

\* loadManifestFromCommit finds the commit, its snapshot and its manifest; row
\* objects are not read.
Readable(c) == /\ c \in store.commit
               /\ commits[c].snapshot \in store.snapshot
               /\ ManifestOf(c) \in store.manifest

\* threeWayMerge up to its first write: it throws when it misses an object.
MergeOutcome(ours, theirs) ==
  LET kind   == MergeKind(commits, [c \in CommitIds |-> ManifestOf(c)], ours, theirs)
      base   == FindLCA(commits, ours, theirs)
      walked == Reach({ours}) \cup WalkedFrom(commits, ours, theirs)
      read   == IF kind = "merged" \/ (kind = "conflicts" /\ base # 0)
                  THEN {ours, theirs, base} ELSE {}
  IN IF ours # theirs /\ ~(walked \subseteq store.commit) THEN "throws"
     ELSE IF \E c \in read : ~Readable(c) THEN "throws"
     ELSE kind

\* The command's switch: a fast forward moves the ref, a clean merge goes on to
\* write a manifest, a snapshot and a commit.
ThreeWayMerge(p) ==
  LET ours    == proc[p].prev
      theirs  == proc[p].theirs
      outcome == MergeOutcome(ours, theirs)
  IN
  /\ At(p, "mergeRows")
  /\ \/ /\ outcome = "fast-forward"
        /\ Step(p, [proc[p] EXCEPT !.new = theirs], "refTrunc")
     \/ /\ outcome = "merged"
        /\ Step(p, [proc[p] EXCEPT !.manifest =
                      Merged(commits, [c \in CommitIds |-> ManifestOf(c)],
                             ours, theirs)], "manifest")
     \/ /\ outcome \in {"already-up-to-date", "conflicts", "throws"}
        /\ Stop(p)
  /\ ObjectsUnchanged /\ FilesUnchanged

\* The tool with dryRun: by now the manifest and the snapshot are written.
MergeDryRun(p) ==
  /\ At(p, "commit") /\ proc[p].cmd = "merge"
  /\ Stop(p)
  /\ ObjectsUnchanged /\ FilesUnchanged

-----------------------------------------------------------------------------
(* gc: collectReachableObjects, then the sweep *)

\* The names listBranches finds in the directory; later branches are not seen.
Listed == {b \in Branches : refs[b] # Absent}

StartGc(p) ==
  /\ Start(p, "gc")
  /\ Step(p, [Idle EXCEPT !.cmd = "gc", !.names = Listed], "gcRefs")
  /\ ObjectsUnchanged /\ FilesUnchanged

\* listBranches reads one ref file after another and skips those that are gone
\* by then or do not parse.
GcReadRef(p) ==
  /\ At(p, "gcRefs")
  /\ \/ \E b \in proc[p].names :
          Step(p, [proc[p] EXCEPT !.names = @ \ {b},
                     !.seeds = IF refs[b] > 0 THEN @ \cup {refs[b]} ELSE @],
               "gcRefs")
     \/ /\ proc[p].names = {}
        /\ Step(p, proc[p], "gcHead")
  /\ ObjectsUnchanged /\ FilesUnchanged

\* Mutant of GcReadHead: a detached HEAD is no root.
GcIgnoreHead(p) ==
  /\ At(p, "gcHead")
  /\ Step(p, proc[p], "gcMark")
  /\ ObjectsUnchanged /\ FilesUnchanged

\* A HEAD that does not parse makes gc throw before it has deleted anything.
GcReadHead(p) ==
  /\ At(p, "gcHead")
  /\ \/ /\ head.kind = "torn"
        /\ Stop(p)
     \/ /\ head.kind # "torn"
        /\ Step(p, [proc[p] EXCEPT !.seeds =
                      IF head.kind = "detached" THEN @ \cup {head.commit} ELSE @],
                "gcMark")
  /\ ObjectsUnchanged /\ FilesUnchanged

Marked(seeds) ==
  LET cs == Reach(seeds)
      ss == {commits[c].snapshot : c \in cs}
      ms == {snaps[s] : s \in ss \cap store.snapshot}
  IN [commit |-> cs, snapshot |-> ss, manifest |-> ms,
      row |-> UNION {RowsOf(m) : m \in ms \cap store.manifest}]

Minus(A, B) == [row |-> A.row \ B.row, manifest |-> A.manifest \ B.manifest,
                snapshot |-> A.snapshot \ B.snapshot,
                commit |-> A.commit \ B.commit]

\* A commit that walkCommits cannot read makes gc throw, again before it has
\* deleted anything.
GcMark(p) ==
  /\ At(p, "gcMark")
  /\ \/ /\ ~(Reach(proc[p].seeds) \subseteq store.commit)
        /\ Stop(p)
     \/ /\ Reach(proc[p].seeds) \subseteq store.commit
        /\ Step(p, [proc[p] EXCEPT !.mark = Marked(proc[p].seeds),
                      !.pending = Minus(store, Marked(proc[p].seeds))],
                "gcSweep")
  /\ ObjectsUnchanged /\ FilesUnchanged

\* cas.list() streams directories while others may still write: an object put
\* after the sweep began may or may not be listed, and goes if it is not marked.
GcSweep(p) ==
  LET garbage == Minus(store, proc[p].mark) IN
  /\ At(p, "gcSweep")
  /\ \/ \E r \in garbage.row : store' = [store EXCEPT !.row = @ \ {r}]
     \/ \E m \in garbage.manifest : store' = [store EXCEPT !.manifest = @ \ {m}]
     \/ \E s \in garbage.snapshot : store' = [store EXCEPT !.snapshot = @ \ {s}]
     \/ \E c \in garbage.commit : store' = [store EXCEPT !.commit = @ \ {c}]
  /\ UNCHANGED <<commits, snaps, proc>> /\ FilesUnchanged

\* Mutant of GcDone: the listing is cut short.
GcDoneEarly(p) ==
  /\ At(p, "gcSweep")
  /\ Stop(p)
  /\ ObjectsUnchanged /\ FilesUnchanged

GcDone(p) ==
  LET left == proc[p].pending IN
  /\ At(p, "gcSweep")
  /\ left.row \cap store.row = {} /\ left.manifest \cap store.manifest = {}
  /\ left.snapshot \cap store.snapshot = {} /\ left.commit \cap store.commit = {}
  /\ Stop(p)
  /\ ObjectsUnchanged /\ FilesUnchanged

-----------------------------------------------------------------------------

\* A process dies between two file operations; what it wrote stays.
Crash(p) ==
  /\ Crashes
  /\ ~At(p, "idle")
  /\ Stop(p)
  /\ ObjectsUnchanged /\ FilesUnchanged

Next ==
  \E p \in Procs :
    \/ StartAnalyze(p) \/ PutRow(p) \/ PutManifest(p) \/ PutSnapshot(p)
    \/ ResolveBranch(p) \/ ResolvePrevious(p) \/ PutCommit(p)
    \/ TruncateRef(p) \/ CreateRef(p) \/ WriteRef(p)
    \/ TruncateHead(p) \/ WriteHead(p)
    \/ Checkout(p) \/ BranchFrom(p) \/ DeleteBranch(p) \/ Unlink(p)
    \/ StartMerge(p) \/ MergeOurs(p) \/ MergeTheirs(p) \/ ThreeWayMerge(p)
    \/ MergeDryRun(p)
    \/ StartGc(p) \/ GcReadRef(p) \/ GcReadHead(p) \/ GcMark(p)
    \/ GcSweep(p) \/ GcDone(p)
    \/ Crash(p)

Spec == Init /\ [][Next]_vars

-----------------------------------------------------------------------------
(* Properties *)

CommitRecords == [snapshot : SnapIds, parents : Seq(CommitIds)]

HeadStates == {Unborn, TornHead} \cup {OnBranch(b) : b \in Branches}
              \cup {Detached(c) : c \in CommitIds}

Stores == [row : SUBSET RowObjects, manifest : SUBSET Manifests,
           snapshot : SUBSET SnapIds, commit : SUBSET CommitIds]

Locals == [pc : PCs, cmd : AllCommands, rows : SUBSET RowObjects,
           manifest : Manifests, snap : SnapIds \cup {0}, branch : Branches,
           prev : CommitIds \cup {Absent}, theirs : CommitIds \cup {Absent},
           new : CommitIds \cup {Absent}, linked : BOOLEAN,
           newHead : HeadStates, names : SUBSET Branches,
           seeds : SUBSET CommitIds, mark : Stores, pending : Stores]

\* Every variable has its type; in particular no commit id that was never
\* written gets into a ref, into HEAD or into the list of parents.
TypeOK ==
  /\ commits \in Seq(CommitRecords)
  /\ snaps \in Seq(Manifests)
  /\ store \in Stores
  /\ refs \in [Branches -> CommitIds \cup {Absent, Torn}]
  /\ head \in HeadStates
  /\ proc \in [Procs -> Locals]

\* Everything a branch or a detached HEAD leads to, all the way down to the
\* rows, is on disk: put writes what an object names before the object, a ref
\* moves last (core/graphstore/index.ts), and gc deletes nothing that is needed.
RefsClosed == \A c \in Reach(Heads) : Intact(c)

\* When setHead is about to overwrite a branch, the commit it drops is an
\* ancestor of the new one: analyze extends the branch that is checked out and
\* merge fast-forwards or adds a commit on top; neither discards history.
BranchOnlyAdvances ==
  \A p \in Procs :
    At(p, "refTrunc") /\ refs[proc[p].branch] > 0
      => refs[proc[p].branch] \in Ancestors(commits, proc[p].new)

\* HEAD never names a branch without a ref: deleteBranch refuses the branch
\* that is checked out, checkout takes only branches that exist, and the first
\* analyze writes the ref before HEAD.
HeadHasBranch == head.kind = "branch" => refs[head.branch] # Absent

\* Two processes that create the same branch never both hold its ref file open:
\* the loser of the race fails instead of overwriting the winner, also when the
\* branch is deleted and created again in between.
CreateExclusive ==
  \A p, q \in Procs :
    (/\ proc[p].cmd = "branch" /\ At(p, "refWrite") /\ proc[p].linked
     /\ proc[q].cmd = "branch" /\ At(q, "refWrite") /\ proc[q].linked
     /\ proc[p].branch = proc[q].branch) => p = q

\* A gc that runs to its end leaves only objects that some ref leads to: those of
\* a dead process or a deleted branch are gone.
GcCollects ==
  [][\A p \in Procs : GcDone(p) =>
       LET live == Reach(Heads)
           snapshots == {commits[c].snapshot : c \in live}
           manifests == {snaps[s] : s \in snapshots}
       IN /\ store.commit \subseteq live
          /\ store.snapshot \subseteq snapshots
          /\ store.manifest \subseteq manifests
          /\ store.row \subseteq UNION {RowsOf(m) : m \in manifests}]_vars

=============================================================================
