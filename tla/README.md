# CodraGraph in TLA+

TLA+ modules for the parts of CodraGraph whose correctness depends on the order
of things: the versioned graph store, the commands that drive it, the life cycle of an
index, the jobs of the server, the connection pool, the pool of parse threads and the
linking of imports. TLC checks the modules
on small instances; TLAPS proves, for every value of the constants, the safety
properties of the graph store, of its histories and merges, of the server's jobs, of the
connection pool, of the index, of the parse phase and of the linking, and both refinements
(section 4). `PROJECT.json` lists the runs, the source lines behind every definition, the hazards and which property covers
each of them.

Run `tlc -config gs_serial.cfg MCGraphStore.tla` (and so on, see the table of runs)
and `tlapm` on each of `GraphStoreProofs`, `CommitHistoryProofs`, `HistoryProofs`,
`ServerJobsProofs`, `ConnPoolProofs`, `IndexLifecycleProofs`, `WorkerPoolProofs` and
`FinalizeProofs`.

## 1. Inventory

CodraGraph indexes a repository into a graph of symbols and serves it to people
(CLI, web) and to agents (MCP). Paths are under `src/packages`.

| Component | State it keeps | Operations | What must hold |
|---|---|---|---|
| graphstore: objects, refs, gc (`graphstore/src/cas`, `refs`, `commit`, `gc`) | `objects/xx/<hash>`, `refs/heads/<name>`, `HEAD` | put (temporary file + rename), createBranch (`wx`), setHead (truncate + write), deleteBranch, writeHead*, gc (mark, sweep) | what a ref leads to is on disk; gc deletes exactly what nothing leads to; creation is exclusive; HEAD names a branch that exists |
| graphstore: history (`history/log.ts`) | none | walkCommits, findLowestCommonAncestor | the walk is every ancestor, once; the answer is a common ancestor, the lowest one where no commit is a merge |
| graphstore: merge (`merge/three-way.ts`) | none | threeWayMerge | no change of either side is lost or invented; a repeated merge finds nothing to do |
| graphstore: diff, blame (`diff`, `core/src/cli/graphstore.ts`) | none | diffSnapshots, blame | every change is shown; the commit named is the one that made the change |
| graphstore: serializer, materializer | none | serializeSnapshot, materialize | objects are written before what names them; a snapshot read back is the graph written |
| graph store commands (`core/src/cli/graphstore.ts`, `core/src/core/graphstore/index.ts`, `core/src/mcp/local/graphstore-handler.ts`) | HEAD, refs, objects through the above | analyze snapshot, commit, branch, checkout, merge, gc, log, diff, blame | a command does all or nothing of what it says; branches only advance |
| analyze (`core/src/core/run-analyze.ts`, `storage/repo-manager.ts`) | `meta.json`, registry, database files, embedding cache in memory | up-to-date check, reuse, incremental patch, rebuild | metadata names the commit the database holds; embeddings follow their text; a server notices a rebuild |
| server jobs (`core/src/server/api.ts`, `analyze-job.ts`, `analyze-worker.ts`) | job table, path locks, workers, timers, retry counts | create, clone, fork, progress, complete, fail, cancel, timeout, retry, delete repository | one job at a time per repository; every lock is released, once, by its owner; a finished job stays finished |
| connection pool (`core/src/core/cgdb/pool-adapter.ts`) | pool entries, waiters, shared database handles with reference counts | init, checkout, checkin, wait, timeout, evict, close | no connection in two hands, no handle closed while in use, the limit holds, waiters are served |
| parse worker pool (`core/src/core/ingestion/workers`) | threads, their messages, chunk promises, idle timers | dispatch, sub-batch, flush, result, error, exit, timeout, fallback | every file is in the graph once and in order, whatever fails; the parse ends |
| ingestion pipeline, resolution | in-memory graph | parse, resolve, link | sequential computation over source text |
| database adapter, search, embeddings, wiki, groups, graph packs | native database, files | queries, loads, ranking, export | mostly I/O around a native engine |
| MCP backend (`core/src/mcp/local/local-backend.ts`) | handles of the repositories, open pools | refreshRepos, ensureInitialized | what a query reads is the index that is there |
| MCP and HTTP servers, CLI | sessions | routing | requests reach their handlers |
| shared (`scope-resolution`) | none | finalize: link imports, cycles included | every import is linked, or reported, whatever the order of files |
| harness, org, compress, sdk, web, integrations, infra | various | see `PROJECT.json` | not considered further |

How they interact. `analyze` (in a CLI process or in a worker process that the
server forks) rebuilds the database and then calls `recordAnalysisSnapshot`, which
reads the database and writes rows, manifest, snapshot, commit, ref and HEAD, in
that order, one file operation after another. `commit`, `branch`, `checkout`,
`merge` and `gc` of the CLI, and the MCP tools in a server process, work on the
same files. There is no lock among them except the database's own: only one
process has the database open for writing, so two snapshots are never taken at
the same time, but everything else may run beside them. The MCP backend, in one more
process, reads the registry and meta.json that analyze writes, and opens the database
through the connection pool.

What is hard to test here: two commands interleaved at file granularity; a
process killed between two files (or between the truncation and the write of one
file); gc beside a writer; histories with merges, where a breadth-first walk does
not meet ancestors in the order one expects; and, in the server, jobs that are
cancelled, time out or are retried while callbacks of the earlier attempt are
still due. `PROJECT.json` lists each at its line.

## 2. Modules

| Module | Models |
|---|---|
| `CommitHistory` | the pure functions: `Walk`, `FindLCA`, `Reachable`, the merge truth table, the kinds of result of threeWayMerge |
| `History` | the abstract specification: a commit graph, branch heads and the current branch, and one atomic step per command. What a user thinks the commands do |
| `GraphStore` | the detailed one: files, processes, one action per file operation, crashes, gc |
| `GraphStoreRefinement` | the mapping from the files and the program counters to `History` |
| `Inspection` | diff and blame, with its limit, as functions of a `History` |
| `IndexLifecycle` | the index of one repository: database, meta.json, registry entry; analyze with its three ways, embedding jobs, clean, checkout --materialize, and the backend that reads it |
| `ServerJobs` | the HTTP server's analyze jobs, worker processes, embedding jobs, deletions and repository locks |
| `Permits` | the abstract specification of one pool entry: a number of permits, first come, first served |
| `ConnPool` | the connection pool: inits, shared databases, eviction, idle timer, close, checkout, checkin, waiters, timeouts |
| `ConnPoolRefinement` | each entry of ConnPool as a `Permits` |
| `WorkerPool` | the main thread, the threads and the messages of the parse phase |
| `Finalize` | the import graph cut into components, and the imports linked component by component |
| `MCGraphStore`, `MCInspection`, `MCIndexLifecycle`, `MCServerJobs`, `MCConnPool`, `MCWorkerPool`, `MCFinalize` | model values, inputs, and symmetry where only safety is checked |
| `GraphStoreProofs` | types; what refs lead to is on disk, without gc and, under a lock, with it; exclusive creation, HEAD and its branch, gc leaves no garbage, branches only advance; `GraphStore` implements `History` |
| `CommitHistoryProofs` | lemmas: what `Walk`, `FindLCA` and the merge compute on every commit graph |
| `HistoryProofs` | the properties of `History` and `Inspection`: walk, common ancestor, merge, diff, blame |
| `ServerJobsProofs` | types and bounds, one worker per job, the locks exclude |
| `ConnPoolProofs` | the pool's invariants, each entry implements `Permits`, shared databases |
| `IndexLifecycleProofs` | types, embeddings follow their text, metadata and readers are current |
| `WorkerPoolProofs` | types, every file in the graph once, who hears of a thread that died |
| `FinalizeProofs` | types, the search finds the components and finds them leaves first, the linking leaves nothing out |

In modules with properties checked against a changed definition, the changed form stands
next to it, under a comment that says *Mutant* or *Changed*; no action uses it.

### GraphStore

State. `store` is the set of objects on disk by type; `commits` and `snaps` say
what the commits and snapshots ever written contain, whether or not they are still
on disk (content addressing: an id always means the same object). `refs[b]` is
the id in `refs/heads/b`, `Absent` when there is no file, `Torn` when it has been
truncated and not written. `head` is HEAD, with the same torn state. `proc[p]`
holds the program counter and the local variables of the command p runs; the
fields are the variables of the code across its awaits (`manifest`, `snap`,
`branch`, `prev`, `theirs`, `new`, and gc's `names`, `seeds`, `mark`).

Actions, in the order the code takes them:

- analyze and commit: `StartAnalyze`, `PutRow`*, `PutManifest`, `PutSnapshot`,
  `ResolveBranch`, `ResolvePrevious`, `PutCommit`, `TruncateRef`, `WriteRef` and,
  for the first commit, `TruncateHead`, `WriteHead`;
- branch create: `BranchFrom`, `CreateRef` (the exclusive open), `WriteRef`;
- checkout: `Checkout`, `TruncateHead`, `WriteHead`;
- branch delete: `DeleteBranch` (the look at HEAD), `Unlink`. A process that
  has the file open goes on writing to the unlinked file (`linked`);
- merge: `StartMerge`, `MergeOurs`, `MergeTheirs`, `ThreeWayMerge`, then as
  analyze from the manifest on, or from the ref on when it is a fast forward.
  The command merges into the branch that is checked out and reads HEAD twice;
  the MCP tool merges into any branch and lists the branches instead, and with
  dryRun it stops after the snapshot (`MergeDryRun`);
- gc: `StartGc`, `GcReadRef`*, `GcReadHead`, `GcMark`, `GcSweep`*, `GcDone`;
- `Crash`: the process is gone between any two of these.

A `put` is one atomic step: the code writes a temporary file and renames it.
Time stamps make every commit and snapshot a new object; a manifest or a row
written again is the object that is there already.

`Typed` says which literal commit ids users pass to checkout, branch and merge:
none, ids that `log` shows for some branch, or any id ever printed.

### History and the refinement

`ImplementsHistory` maps each command to one step of `History`: the step of
analyze and merge is the write of the commit object, of a fast forward the
decision, of branch create the exclusive open, of branch delete the unlink, of
checkout the lookup of its target. Between that point and the last write
the mapping looks into the process. It holds where commands run one at a time, do
not die and stay on branches; section 3 says
what happens without each of these conditions.

### ServerJobs

State. `jobs` is the job table of `jobManager`, with two things the closures of
POST /api/analyze hold for each job: whether `cloneOrPull` is awaited (`cloning`) and
whether `setTimeout(forkWorker)` is pending (`retrying`). The code's `queued` lasts
no longer than the request and is not a state. `workers` are the processes
ever forked: what the operating system knows (`proc`, `signal`, `leaving`), what is on
its way to the server (`mail`), and the callbacks that are due for it (`timer`,
`init`). `embedJobs` is the table of `embedJobManager`, `embeds` the pipelines (a
request that finds an active job of its repository starts a second pipeline for
it). `locks` is `activeRepoPaths`, `deleting` counts the DELETE requests under way.

Actions. The server is one event loop, so an action is what it does in one callback or
between two awaits:

- requests: `CreateJob`, `CancelJob`, `EmbedRequest`, `CancelEmbed`, `DeleteRepo`;
- the clone: `CloneDone`, `CloneFails` (the catch block);
- the worker process: `Boot`, `Progress`, `Finish`, `Uncaught`, `Terminate`
  (SIGTERM), `Leave` (process.exit), `Crash`;
- the events of a worker: `OnMessage` (progress, complete, error), `InitDone`
  (backend.init), `OnError` (no process), `OnExit` (`Retry` or `GiveUp`);
- timers: `RetryFork`, `TimerFires`, `EmbedTimeout`; ends: `EmbedEnds`, `RepoDeleted`.

A message is read before the exit of its sender is noticed: the parent reads the
channel to its end first. `Events` says which of the things nobody asks for can happen,
so that a run states under which of them its properties hold.

### IndexLifecycle

State. `db` is the database file: for each file the nodes made from it (`rows`), what the
global layers were computed from (`layers`) and the text its embeddings were made from
(`emb`). A row of code is its content together with the contents of the configuration files, on
which resolution depends. `meta` is meta.json, `registry` the entry in registry.json, `clock`
stands for indexedAt. `an` is the analyze that runs, with the locals of `runFullAnalysis`
that outlive an await (the commit read at the start, the old metadata, the plan of the
patch, what the pipeline scanned, the cached embeddings). `handle` and `view` are the
backend's copy of the entry and what its open pool reads. `damaged` is a history variable: since
the last rebuild somebody has left a half-written database behind a meta.json, or has
written another commit into it; `an.touched` says that the running analyze has begun to write.

Actions: `UpToDate`, `BeginReuse`, `BeginPatch`, `BeginRebuild` (which of them, from meta.json
and the `git diff` of two commits: `Relevant`, `Eligible`); `PatchScan`, `PatchDelete`,
`PatchInsert`, `PatchLayers`, `PatchFails` (the fallback); `CacheVectors`, `Pipeline`, `Wipe`, `Create`,
`Load`, `Restore`; for both `SkipEmbeddings` or `BeginEmbeddings`, `DropVector`, `Embed`,
`EmbeddingsDone`; `SaveMeta`, `Register`, `NameTaken`; `Dies` anywhere; users: `UserMoves`, `EmbedJob`,
`Clean`, `Materialize`; the backend: `RefreshRepos`, `OpenPool`, `StalePool`, `IdlePool`.

Embeddings. Those of a rebuild are read into memory before the database is wiped (`CacheVectors`)
and inserted again after the load, batch by batch, a batch that fails being passed over (`Restore`). Only
then is it decided whether an embedding run follows (`Decide`: mode, node limit, embeddings that there were),
and the run deletes what is of another text and embeds what has nothing, as far as the cache tells
it (`ToDrop`, `ToEmbed`). It may end anywhere: a model that does not load, or an exception, is a
`PatchFails` or `Dies` at the step `embedding`. What a run leaves astray is of two kinds: embeddings beside a row of
another text (`StaleFiles`), and those of rows that are gone, which the cache brings back and only a
patch of every row or a rebuild without them removes (`Astray` has both). A patch of every row deletes all
embeddings in one statement whose failure is passed over; other patches delete those of their rows or fail. The run of a patch takes what is in the
database for the cache.

Simplifications. A file has one node, or none, and one embedding instead of one for each chunk. Reasons to
rebuild that lie in the installation (schema version, compression, search indexes) are part of `BeginRebuild`,
which may be taken whenever a patch may. Of the profile of the machine two numbers are kept, the most nodes that are
embedded at all (`NodeLimit`) and by a first analyze in auto mode (`AutoLimit`). `Serving` says whether
there is a backend at all. The database lock of another process makes a patch fail like any other exception. The
5-second throttle of the staleness check only delays `StalePool`. Names derived from the path never collide.

### ConnPool, Permits

State. The code runs on one JavaScript thread, so an action is the code between two awaits.
`entry` holds every entry ever begun, with the stage of its init: an entry is an object that
queries go on using after it has left `pool`. `pending` is `initPromises`, `older` the order of
`lastUsed` (which of two entries was used first), `cache`, `refs` and `opened` are `dbCache`, `refCount` and the databases that are open.
`query` is where each caller is in `executeQuery`.

Actions: `InitCgdb`, then one `InitStep` after each await (`ShareDatabase`, `OpenDatabase`, `FindLocked`,
`OpenFails`, `RetryOpens`, `RetryLocked`, `RetryFails`, `StatFails`, `Register`); `CloseOneRepo`, `CloseEveryRepo`,
`IdleTimer`, the eviction inside an init; `Execute`, `NextLabel` (a label scan goes on with the entry
it began with), `Finish` (answer, error or the timeout of the query), `WaiterTimeout`.

`Permits` says what one entry promises its callers: at most so many at a time, in the order
they came, and nobody served after a close. `ImplementsPermits` maps every entry of the pool to
one.

### WorkerPool

`chunk` holds the promises of the dispatch (with listeners and a timer as long as they wait),
`worker` the threads with what is on its way to and from each. A thread may throw while it parses,
die with an error event, exit, lose what it posted last, or say nothing, and the flush may throw like a sub-batch. The first rejection
ends the dispatch, the threads are terminated, and the batch, and all that follow, are parsed on
the main thread. Before that the main thread waits for every thread to end, which one that is inside the
parser need not do: the parser is native code, which `terminate()` does not interrupt. Progress and warnings are left out, so a timer may fire whenever it is armed.

### Finalize

`Root`, `Child`, `Leave` are Tarjan's algorithm as the code writes it, with its explicit stack of
frames; `Pass` and `GiveUp` the passes over a component up to the cap. A file's imports
are visited in any order. Of an import the model keeps kind, target and whether the target
exports the name. The reference (`Reached`) is the least set that is closed under imports.

## 3. Runs

The graph store's commands are started by people, end or die, and never wait for
each other: no fairness is assumed and no liveness stated there. Deadlock is checked
in every passing run but three. In `jobs_faults` the server does come to rest: locks leak
there (below), and when each repository is locked and every job is used up nothing is left to do.
In `pool` the bound on inits is used up and every entry is closed. In `workers` the parse
is over, or the process has crashed. (`finalize` says so by an action of its own, `Returned`.)

| Run | Question | Bounds |
|---|---|---|
| `gs_serial` | with a lock and crashes: what refs lead to is on disk, HEAD names a branch that exists, a collection that ends leaves nothing unreachable | 1 process, 2 branches, 2 commits, 3 snapshots, 1 row |
| `gs_linear` | the commands implement `History`; no branch loses a commit | 1 process, 4 commits, no crash |
| `gs_parallel` | without lock and gc: types, closure and exclusive creation | 2 processes, 2 commits, crashes |
| `inspect` | walk and common ancestor against their definitions; merge keeps both sides, settles and does what diff shows; blame, up to its limit, tells the truth about the history | every history of 4 commits over 2 branches, 1 symbol with 2 contents or none, a limit of 2 |
| `index` | meta.json says what the database holds; embeddings come to stand beside another text only from a restored cache or a deletion that failed; embeddings stay; the backend notices a rebuild | 4 commits of 6 files, 2 stamps, 3 combinations of options, embeddings up to 3 nodes (2 at first) |
| `jobs` | analyses, embeddings and deletions of one repository never overlap, and every lock is released | 2 repositories, 2 jobs of 3 workers each, 1 embedding; crashes, failed starts, cancelled embeddings |
| `jobs_faults` | a job never has two processes, forks no more than it may, and is over in the end unless a process of it hangs; an embedding that timed out stays failed | 2 repositories, 1 job of 2 workers, 2 embeddings; crashes, uncaught errors, failed clones, cancellation, all timeouts |
| `pool` | connections and databases are accounted for, nobody waits beside a free connection, no database is closed under an open entry, entries are fair | 3 repositories on 2 paths, pool of 2, 3 inits, 1 connection, 3 callers, one of which scans 2 labels |
| `workers` | every file is in the graph once and in order, threads that fail together do not crash the process, the parse ends unless the parser does not | 8 files in 3 batches, 3 threads |
| `finalize` | components exact and leaves first; the cap on the passes loses no import | every graph of 4 files, and imports of every kind |
| `index_stale` | must fail: a backend that reads the registry while a pool is open notices a rebuild | as `index` |
| `jobs_exclusion` | must fail: the catch block of a clone releases a lock that is not its own | 1 repository |

Why the bounds are enough. A closure or collection error needs one live commit and
one dead one; two commits give a parent and a child, a branch each, a detached HEAD
and an orphan of a crash, and the third snapshot of `gs_serial` gives the leftovers
of a dead command. A merge that is neither a fast forward nor up to date needs
three commits and writes a fourth: that is `gs_linear`; in `inspect`, four commits give a
merge, the walk across it and the branches before it. `gs_parallel` needs two
processes for every race named in the hazards except the one of three commands
around a branch that is deleted and created again, which its two processes also
reach, since an unlinked file stays open. Rows are independent in the merge
truth table, so one row with two contents and none shows all of it.

A limit of 2 cuts the list of blame where 4 commits give more versions; a limit of 0, a negative one or one that is not a number
is not modelled.

`index`: its commits differ by an edited asset (reuse), a rename that adds a file (patch, and one node more than `NodeLimit`), and a
move to an ignored path with a changed configuration (everything is replaced, or rebuilt). Two stamps
(`MaxStamps`) are a first index and one further analysis that succeeds, with any number that
die before they get that far, and a patch whose name is taken gives one more. What may go wrong with
the properties takes one run that leaves something for the next, which is this; without a backend (`Serving = FALSE`) three
stamps hold as well (half a minute), and the proofs are for any number.

The lock of ServerJobs is per repository and the slot for analyses is one, so two repositories and
two jobs give every contention: for the lock, for the slot, and between them. A late message
needs a worker with one unread message (`MaxUnread`); a run of unread progress messages does
what one of them does.

`pool`: two entries on one database and a third that evicts one of them are what the counting of
references is about (`MaxEntries` = 3); with one connection three callers give one that runs and
two that wait, and a scan that comes back. With two connections and a pool of one (`MaxConns = 2`,
`MaxPool = 1`, a million states) everything holds as well; that run is not kept since it takes too long.
`workers`: the first batch gives two sub-batches to two threads and one to the third, the second
leaves a thread without a chunk, the third has one file; a thread that failed in an earlier
batch can speak late in a later one. `finalize`: four files are enough for two components of
two, a component that is entered in the middle, and lowlinks that pass through two frames.

Fairness of ServerJobs. `ServerFairness`: the event loop of the server runs the callbacks that are
due (messages, exits, timers; `git` and `backend.init` are taken to return). Nothing is assumed of the
processes: a worker may boot or analyze for ever, and it need not answer the SIGTERM that its 30-minute timer
sends. `analyze-worker.ts:58` answers it in a handler that needs a free event loop and waits for
`closeCgdb`, and nobody sends SIGKILL. The timer makes the job fail, which is why every job is over at some
time; a progress message that was still unread then sets it to analyzing again, and if the process hangs nobody ends
it a second time. So `JobsEnd` says that in the end a job is over or has a process that runs still, never
that it is stuck with nobody at work.
`WorkFairness` adds that workers, pipelines and deletions end, without which a lock could
be held for ever by rights; `LocksReleased` needs it.

Fairness of WorkerPool. The event loop serves the main thread, timers that are armed fire, and
a thread that is told to terminate does when it has nothing to parse. Threads have none: they may work for ever,
and so may the main thread once it parses itself. `ParseEnds` therefore says that the parse ends, or that from some time on
it is a file on which the parser does not end that everything waits for; a thread that is silent, dead or
loses its messages does not keep it from ending.
`IndexLifecycle`, `ConnPool` and `Finalize` state none, and no liveness.

Between them the passing runs of each module fire all of its actions.

Disagreements with comments or documentation that have a run:

- `index_stale`: refreshRepos takes over the new indexedAt from the registry while a pool is
  open; the check for a rebuilt index then compares equal times and the pool goes on
  reading the old database.
- `jobs_exclusion`: a failing `git pull` of an analyze job releases the lock that an
  embedding or a deletion of the same repository holds.

Others, with the run and the change of its constants, or the property in place of its own, with which TLC finds them:

- gc takes no lock and neither does analyze: a collection beside a snapshot sweeps the new
  objects before the branch points at them (`gs_parallel` with `"gc"` among the `Commands`: `RefsClosed`).
- analyze with a detached HEAD overwrites `main` (`gs_linear` with `Typed = "reachable"`:
  `BranchOnlyAdvances`); so does a first analyze that dies between the ref and HEAD, since the next
  one believes that there is no history (`Crashes = TRUE`).
- Changed edges, and changed rows of tables without symbols, give "(no graph changes)"
  (`inspect` with `Ids = {fn, edge}` and `Edges = {edge}`: `DiffSeesEveryChange`).
- blame marks the commits before the changes, not the ones that made them: its first line
  is the newest commit that has the symbol, changed there or not (`inspect` with `BlameNamesLastChange`;
  `cli/graphstore.ts:398` says that the first hit is the most recent change). `BlameExact` says what the list is.
- When a thread inside the native parser times out, the fallback first awaits the end of every
  thread, and the batch is never parsed on the main thread (`workers` with `WedgedFallsBack`;
  `worker-pool.ts:55` says that a wedged parser should still fall back).
- docs/GUARDRAILS.md:22 and :42 say that a plain analyze drops embeddings;
  `adaptive-profile.ts:222` preserves them, as long as the index is not too large for them
  (`index` with `PlainAnalyzeDrops`).
- After a merge, findLowestCommonAncestor does not always answer the commit that is an
  ancestor of the other one (`history/log.ts:59` says it does for the linear case):
  with commits 1, 2 after 1, 3 after 2, 4 after 1 and 5 the merge of 3 into 4, the walk from 5
  meets 1 (by 4) before 2 (by 3), so of 2 and 5 it answers 1, although 2 is an ancestor of 5.
  merge then builds a merge commit where a fast forward is due. This is why `LCASound` says
  *a* common ancestor, why `LCALowestWithoutMerges` has its name, and why `MergeSettles` asks for
  the fast forward only where theirs did not hold our head already.
- An analyze whose name is taken, or that dies after meta.json is saved, is not in the registry, and
  the next one answers that the index is up to date without registering it
  (`index`: `SuccessRegisters`).
- POST /api/embed never saves meta.json, so `stats.embeddings` stays 0 although
  docs/RUNBOOK.md:78 says that 0 means none; a later rebuild then drops them
  (`index`: `MetaCountsVectors`).
- A rebuild puts the cached embeddings back before it is decided whether an embedding run follows. When the
  node limit skips the run, or it fails or dies, the embeddings of the old text stay beside the new one; a
  batch that could not be put back is not computed again in that run (`run-analyze.ts:1476`, `:1486`). Stale
  embeddings stay also when a patch of every row fails to delete them (`cgdb-adapter.ts:866`) and the run is skipped or fails. `VectorsCurrent` and
  `VectorsKept` say that there is no other way to either.
- A database that waits for its lock while another repository opens the same path is opened
  twice; the first handle is never closed, or the second one too early (`pool` with
  `Lockable = {pa}`: `DatabasesCounted`, `QueriesKeepDatabase`; `pool-adapter.ts:185` says that a database
  is closed only when nobody refers to it).
- A parse thread that fails to start before its first chunk has no error listener: the
  process dies instead of falling back (`workers` with `StartFails = TRUE`: `CrashNeedsTimeout`).
- `finalize-algorithm.ts:420` says that multi-hop re-exports settle iteratively; tryFinalize
  looks only at local definitions, so no pass ever depends on an earlier one and one pass would do.

`damaged` names the known ways to make the metadata wrong, which `IndexMatchesMeta` excludes: a patch
that dies half-way, a rebuild that dies between the new database file and the end of the load, an empty
database that the embedding cache step created before the pipeline failed, and checkout
--materialize. After each of them an analyze at the commit of meta.json says that the index is up to
date. `Still` and `CleanTrees` exclude two more: a checkout while an analyze runs (the commit is
read at the start, the files later; `Still = FALSE` shows it), and uncommitted changes (the pipeline
reads the working tree, reuse and patch decide by `git diff` between commits).

Other reasons why the runs of ServerJobs leave something out:

- The lock is lost while the work goes on: on an uncaught error or SIGTERM, whose error
  message the server reads before the worker is gone; on the timeout of an embedding;
  and when `backend.init` outlasts the exit of a worker that completed, which the exit
  handler takes for a crash and retries, without the lock. Hence the `Events` of `jobs`.
- The lock is never released: when a job is cancelled while its retry waits or
  before its worker has a SIGTERM handler; and when `createJob` of an embedding throws
  because one of another repository is active (`embedClash`).
- A job cancelled during its clone becomes `analyzing` again when the clone is done,
  beside the job that took its slot. `JobsEnd` is checked without `slowInit`.

## 4. Proofs

Every theorem is of the form `Spec => []P` (or, for an action property and a refinement,
`Spec => P`) for all values of the constants, under the named assumptions of the modules
and the hypotheses given here, each of which a run satisfies. A property that is not inductive
is proved from an invariant that is; its parts are named after what they say.

| Theorem | Property | Hypothesis |
|---|---|---|
| `TypeCorrect` | `GraphStore.TypeOK` | |
| `RefsClosedWithoutGc` | `RefsClosed` | no process runs gc |
| `RefsClosedSerial` | `RefsClosed` | `Serial`, `Typed # "any"` |
| `CreatesExclude` | `CreateExclusive` | |
| `HeadKeepsBranch` | `HeadHasBranch` | `Serial` |
| `GcCollectsAll` | `GcCollects` | `Serial` |
| `BranchesAdvance` | `BranchOnlyAdvances` | `Serial`, no crashes, `Typed = "none"` |
| `StoreIsHistory` | `ImplementsHistory` | `Serial`, no crashes, `Typed = "none"` |
| `WalksAreExact` | `WalkExact` | |
| `LCAsAreSound`, `LCAsAreLowest` | `LCASound`, `LCALowestWithoutMerges` | |
| `MergesKeepBothSides`, `MergesApplyDiffs`, `MergesSettle` | `MergeKeepsBothSides`, `MergeAppliesDiff`, `MergeSettles` | |
| `BlamesAreExact` | `BlameExact` | |
| `JobTypes`, `OneWorker`, `FailedEmbedsStay` | `ServerJobs.TypeOK`, `OneWorkerPerJob`, `EmbedFailedStays` | |
| `LocksExclude`, `LocksAreHeld` | `MutualExclusion`, `UsersHoldLock` | `Quiet` |
| `PoolTypes`, `ConnectionsKept`, `NobodyWaitsInVain` | `ConnPool.TypeOK`, `ConnectionsAccounted`, `NoWaitBesideFree` | |
| `EntriesArePermits` | `ImplementsPermits` | |
| `SharedDatabasesCounted`, `DatabasesOutliveQueries` | `DatabasesCounted`, `QueriesKeepDatabase` | `LockedPathsUnshared` |
| `IndexTypes`, `EmbeddingsFollowText`, `EmbeddingsKept` | `IndexLifecycle.TypeOK`, `VectorsCurrent`, `VectorsKept` | |
| `MetadataIsTrue` | `IndexMatchesMeta` | `CleanCheckouts` |
| `ReadersAreCurrent` | `BackendCurrent` | |
| `WorkerPoolTypes`, `FilesOnceInOrder` | `WorkerPool.TypeOK`, `GraphExact` | |
| `DeathsAreHeard` | `CrashNeedsTimeout` | `StartFails = FALSE` |
| `FinalizeTypes`, `SearchIsExact`, `TargetsFirst`, `LinkingIsExact` | `Finalize.TypeOK`, `SccsExact`, `LeavesFirst`, `LinkExact` | |

### The graph store

`TypeCorrect`: for every set of processes,
branches, rows and contents and all bounds, with or without crashes and locks. The
inductive invariant is `TypeOK /\ ControlOK`; `ControlOK` says which local
variables are set at which program counter, without which a ref or a list of
parents could receive an id that is not a commit.

`RefsClosedWithoutGc`: when nobody runs gc, `RefsClosed` holds for any
number of unlocked processes. `RefsClosed`
is not inductive: it says nothing of the objects a process is about to name. The
invariant adds `WrittenOK` (at each program counter, what the process has put so far is
on disk) and strengthens the conclusion to `AllIntact` (every commit ever written
is complete on disk).

`RefsClosedSerial`: with gc. `Serial` says that some lock keeps
the commands apart, which `gc/sweep.ts` asks its callers for; `Typed # "any"` that nobody
types the id of a commit that only a deleted branch led
to. Now some commits are gone, and the invariant has to say which may be: `RootsClosed`
is closure from the refs, HEAD and from everything a running command carries
(`Roots`); `GcOK` says that at each stage of gc its seeds, mark and what it has
swept agree with the refs; `OneAtATime` and `IdleOK` carry the lock. The step that
matters is `RootsNext`: no step makes anything a root that the roots did not
lead to before. Crashes need no separate argument, since a process that dies only removes
roots.

`CreatesExclude` needs no lock. That two creates never hold one file follows from where the file is:
`Files` says that a file a process has opened, and that nobody has unlinked, is there, so that the
exclusive open of a second create fails; and that a create never gets to a truncation.

`HeadKeepsBranch`: HEAD is written long after its target was looked up, so the
invariant (`Anchored`) says what a running command knows: the branch that it is about to check
out exists, the file that it has opened is the branch's, and the branch that it is about to
delete is not checked out. Without the lock the third is wrong between the look and the unlink.

`GcCollectsAll`: `Precise` says that the seeds are heads and that what is on disk, while gc sweeps,
is marked or still to be deleted. It holds for any `Typed` and after any crash.

`BranchesAdvance`: the ref that a merge or commit overwrites is the one it read, and what it writes
descends from that. `Aware` is what a command knows of the files: the branch it read
from HEAD, the head of the branch it moves (`prev`), and that before the first commit there is nothing to
merge or to check out; `HeadKnown` says that HEAD is torn or unborn only while somebody writes it.
The hypotheses are those of `gs_linear`, and necessary: section 3 names what analyze does to
`main` with a detached HEAD (`Typed`), and after a death between the ref and HEAD (`Crashes`).

`StoreIsHistory`, under the same hypotheses: every step of the files is one command of `History` or
none. With one command at a time the mapping is a function of the files and the locals of that command
(`HeadOf`, `CurrentOf`, `MappedLocally`). The invariant adds to those of `BranchesAdvance` and `HeadKeepsBranch` what
the command knows of `History` (`Tracks`): the commit of a new branch and the other side of a merge are still
heads, the head that a commit is put on is the branch's, and the manifest on its way to disk is the one that `History`
computes. Each action has a lemma (`PutCommitRefines`, `CreateRefRefines`, ...): the commit object is an
`Analyze` or `Merge`, the file writes before and after it stutter. `History` computes common
ancestors on a graph of manifests, not of snapshots; `SameLCA` shows that only the parents matter. The one
assumption (`NullNotABranch`) is on a model value: what stands for no branch is none.

The proofs rest on lemmas about `Reachable` (the least parent-closed set: it contains
its seeds, is closed, monotone, and does not change when commits are appended). `Outline`
sorts the actions into those that leave refs and HEAD alone and the few that do not, so that each
proof says once what the first kind does.

### History, merge, diff and blame

`CommitHistoryProofs` has the walk as an invariant of its steps. `WalkInvariant` says that the queue and
the list are ancestors, the list has no repetition, no parent is forgotten, and that the steps that remain suffice:
what is in the queue, and twice what has not been listed, fits into the `2 * Len + 1` steps of the model,
since a commit has at most two parents. At the last step the queue is therefore empty, which is what
makes the bounded recursion of the model the loop of the code. Each `f[n]` is reached by an induction over
0..N that takes the least `n` where the invariant fails (`Least`), since the library's induction theorem, with its operator
parameter, is out of reach. Without merges the walk is a chain (`LinearInvariant`,
`ChainInvariant`), which makes the common ancestor the lowest, and makes blame, which reads the
list as if each entry were the parent of the one before, right (`BlameInvariant`).

`HistoryInvariant` adds to the types that commits come after their parents and have at most two. The merge theorems
hold for any rows and contents: row by row from the truth table, and for `MergeSettles` from what the
walk yields first once the merge commit is there.

### The server's jobs

`OneWorker` and `JobTypes` hold for all events. The invariant counts: `OneCurrent` (a job's worker has been
reaped before the next is forked), `NoneDue` (no retry is due while a worker or a clone is there)
and `Counted` (workers so far and the one that is due are no more than `retries + 1`).

`LocksExclude` and `LocksAreHeld` hold for the events of `Quiet`: crashes, processes that do not start,
inits that fail, embeddings that are cancelled, which are those of the run `jobs`. The others
release a lock under somebody who works (section 3), so the hypothesis is not for
convenience. `LockOK` says of each repository that a job, a pipeline or a deletion works on it, not two, and that its lock is
held; `WorkerOK` what a worker's messages, its state and its job's status say of each other,
from which it follows that the message that releases a lock is its owner's last act.

### The connection pool

`Inv` is inductive without any hypothesis: `InitsOrdered` and `Untouched` (where each init stands, and that an entry
under construction has been given to nobody), `ConnsOK` and `QueryOK` (available, lent and closed connections are
disjoint and all there is; the counter is right while the entry is open), `QueueOK` (the queue
is the waiters, each once). `EntriesArePermits` maps each step of the pool, for every entry, to a step of
`Permits` or to none; most steps touch one entry, and the lemma for the others is that a change of `pool`,
`older` and the databases is none for `Permits`.

`SharedDatabasesCounted` and `DatabasesOutliveQueries` assume that no two repositories share a path that
another process may lock (`LockedPathsUnshared`; in the run nothing is locked on a shared path). Two inits that wait for such a lock
each open the database, the flaw named in section 3. `DatabasesOK` ties the cache, the counts and
the users of a database together, for entries that are still being loaded too.

### The index

`IndexTypes`, `EmbeddingsFollowText` and `EmbeddingsKept` hold whatever users do, checkouts in the middle of an analyze
included, for any node limit and for any failure to restore. `Embeddings` says at which steps the new database has none,
that an embedding run begins with none but those of the cache, and what each file has while it goes on (none, the one
the run knows of, or that of its text), from which it follows that nothing stale is left when there is nothing to drop and nothing to
embed. `Control` says what each step knows of the old metadata and of the plan. `MetadataIsTrue`
assumes that HEAD stays while analyze runs and that trees are clean (`CleanCheckouts`; section 3 says what the code
does otherwise). `RowsKnown` follows the rows through a patch: rows that the plan replaces are those of the new commit, and
the lemma behind it is that the others are equal at both. `ReadersAreCurrent` has no hypothesis: `BackendCurrent` speaks of a
pool beside which the backend has noted no other time from the registry since it was opened (`view.reread`), and `index_stale` shows
that nothing holds of the others. `PoolFresh` ties what the pool reads to the stamp it was opened under.

### The parse phase

`FilesOnceInOrder` holds for any batches, any number of threads and any failures. While a
chunk's promise waits, its thread and the main thread take turns (`TakesTurns`): the thread has the message
posted last and has accumulated exactly the slices before it (`Busy`), or it has answered (`HasParsed`, `HasThrown`,
`HasFlushed`). `AliveOK` says that a thread whose promise is settled has nothing in its inbox, in its
accumulator or on its way back, unless there was a timeout, so that nothing of one batch gets into the next; `DeadOK`
what a thread that is gone may have left to be read: one answer, and its end. A timeout or any other
rejection is final for the pool (`MainOK`: without a pool every thread is gone). That the slices of a
batch make up the batch, and the chunks' results in their order too, is a fact about `FlattenSeq`
(`SlicesJoin`, `ChunksJoin`), by the same kind of induction as above.

`DeathsAreHeard`: a death that is not yet read belongs to a promise that still waits, and is the only message
left of its thread, or the chunk has timed out (`DeathHeard`). A thread dies while it works and then has said
nothing that could settle its promise first. The hypothesis is that of the run: a thread that fails to start dies
without a promise, which is the flaw named in section 3.

### Components and imports

`SearchIsExact` and `TargetsFirst` are the correctness of Tarjan's algorithm as the code writes it, with an
explicit stack of frames, on every graph and for every order of imports. `SearchInv` is the invariant.
Entered files are numbered as they come (`Numbered`), the stack is in that order (`StackOK`), and the frames are a
path on it (`PathOK`). What the search has seen of a file's imports (`Seen`: those no frame still has to look at)
was entered (`SeenOK`). A file of the path reaches all that is above it on the stack
(`PathReaches`), and what is on the stack reaches a file of the path that is not above it (`StackReaches`). A
lowlink is the number of a file on the stack that is reached (`LowReached`), and no import seen between a file of the path
and the next leads to a lower one (`LowLowest`). The components so far are classes, disjoint, and with
the stack they are all that was entered (`SccsOK`).

The step that matters is the emission (`ComponentIs`). A file that is left with its own number as lowlink has, by `LowLowest`,
nothing above it that imports from below it; so what is above and what has a component is closed under
imports, and so is the latter alone. Nothing else is mutually reachable with it then, and `StackReaches` gives
the converse: a file of the path that something above reaches is in that closed set, thus the file itself.
When the file is left with a lower lowlink (`LeaveReaches`), whatever relied on it to reach the path goes on to the
file the lowlink stands for.

`LinkingIsExact` follows the passes by component (`StatusOK`): before its turn the imports of a component are drafts, after a
pass each is what one attempt makes of it, since an attempt depends on the import alone, and after its turn each has its answer
(`TriedIs`). It needs that the cap is at least one (`OnePass`), and of the search that each file is in one component
and only one. The one assumption, `InputAssumption`, says of the inputs what the code
does with a dynamic import: it leads nowhere. `FinalizeTypes` is proved and not among the properties of a run.

### Only model-checked

Liveness, out of the prover's reach: `LocksReleased`, `JobsEnd`, `ParseEnds`. Every invariant and every
other action property of the passing runs is proved, under the hypotheses of the table.

## 5. What is left out

- Temporary files of put and their leftovers; compression, codecs and hashes
  (an object is its content); time stamps except that they make commits distinct.
- reading errors other than missing objects; permissions; full disks.
- walkCommits with a limit (`log --limit`); merge statistics; the semantic diff.
- Of the server: the removal of old jobs after an hour, event streams, shutdown, the
  queue that holds queries while an analysis runs; the read-only routes.
- Of analyze: what the pipeline extracts, cross-file edges that a patch keeps, the chunks of
  an embedding, and the snapshot at the end, which is `GraphStore`.
- Of the connection pool: extension loading (one step), databases injected by tests, and
  the native query that goes on after its timeout. MAX_POOL_SIZE is exceeded by concurrent inits.
- Of scope resolution: wildcard expansion, merged bindings, scope trees, lookup.
- The ingestion pipeline (58k lines that parse and resolve text, sequentially) and the native
  database: no order of their own that a model could get wrong.
- Everything else marked `not_modelled` in `PROJECT.json`, with its reason there.

## 6. Plan

Nothing that a run checks is left to prove but liveness. Further modules, should the checks allow for them: the swap of the groups' bridge database,
the audit log of `org`, the session table of the MCP HTTP transport.
