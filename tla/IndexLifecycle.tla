--------------------------- MODULE IndexLifecycle ---------------------------
(***************************************************************************)
(* What `codragraph analyze` does to the index of one repository           *)
(* (packages/core: core/run-analyze, core/adaptive-profile,                *)
(* storage/repo-manager) and how the MCP backend (mcp/local/local-backend) *)
(* notices.  The state on disk is the graph database, meta.json and the    *)
(* repository's entry in the global registry.  An analyze answers from     *)
(* meta.json that nothing is to do, reuses the database under a new        *)
(* commit, patches it in place, or rebuilds it; it may die anywhere.       *)
(***************************************************************************)
EXTENDS Naturals, FiniteSets

CONSTANTS
  Commits,
  Files,
  Contents,
  Absent,
  Class,       \* of each file: "code", "config", "asset" or "ignored"
  Tree,        \* the files of each commit
  Worktrees,   \* what the files may be while a commit is checked out
  Still,       \* whether HEAD stays where it is while an analyze runs
  NodeLimit,   \* the most nodes that the profile of the machine embeds
  AutoLimit,   \* the most that a first analyze in auto mode embeds
  Shelved,     \* commits whose snapshots users materialize
  Serving,     \* whether an MCP backend serves the repository
  Options,     \* the options users pass: mode of embeddings, force, name
  MaxStamps    \* bound: an analyze begins only with fewer stamps given

ASSUME TreeAssumption ==
  /\ IsFiniteSet(Files)
  /\ Absent \notin Contents
  /\ Class \in [Files -> {"code", "config", "asset", "ignored"}]
  /\ Tree \in [Commits -> [Files -> Contents \cup {Absent}]]
  /\ Worktrees \in [Commits -> SUBSET [Files -> Contents \cup {Absent}]]
ASSUME OptionAssumption ==
  /\ Options \subseteq [mode : {"off", "auto", "on"}, force : BOOLEAN, name : {"free", "taken"}]
  /\ Shelved \subseteq Commits
  /\ NodeLimit \in Nat /\ AutoLimit \in Nat
  /\ MaxStamps \in Nat
  /\ Still \in BOOLEAN /\ Serving \in BOOLEAN

VARIABLES
  head,      \* the commit that is checked out
  work,      \* the files in the working tree
  db,        \* the database file
  meta,      \* meta.json
  registry,  \* the entry in registry.json
  clock,     \* the last indexedAt
  an,        \* the analyze that runs, or the answer of the last one
  damaged,   \* the database was left half-written behind a meta.json, or
             \* rewritten by somebody else, since the last rebuild
  handle,    \* the backend's copy of the registry entry: its indexedAt
  view       \* what the backend's open pool reads

vars == <<head, work, db, meta, registry, clock, an, damaged, handle, view>>
disk == <<db, meta, registry, clock, damaged>>
backend == <<handle, view>>

-----------------------------------------------------------------------------
(***************************************************************************)
(* The database.  rows holds, for each file, the nodes made from it;       *)
(* layers the rows that the communities, processes and feature clusters    *)
(* were computed from; emb what each file's embeddings were made from.     *)
(***************************************************************************)

Configs(t) == [f \in {g \in Files : Class[g] = "config"} |-> t[f]]
NoRow == <<>>
Indexed(t, f) == t[f] # Absent /\ Class[f] # "ignored"

(* The nodes of a file that the pipeline reads in tree t.  A file that is not
   code is there or not; how code resolves depends on the configuration. *)
Row(t, f) ==
  IF ~Indexed(t, f) THEN NoRow
  ELSE IF Class[f] = "code" THEN <<t[f], Configs(t)>> ELSE <<f>>
Rows(t) == [f \in Files |-> Row(t, f)]
Nothing == [f \in Files |-> NoRow]
RowsAt == [c \in Commits |-> Rows(Tree[c])]

(* Embeddings are made from the text of code. *)
Text(rows, f) == IF rows[f] # NoRow /\ Class[f] = "code" THEN <<rows[f][1]>> ELSE <<>>
NoVectors == [f \in Files |-> <<>>]

(* getCgdbStats: here a file has one node or none. *)
Nodes(d) == Cardinality({f \in Files : d.rows[f] # NoRow})

NoDb == [there |-> FALSE, rows |-> Nothing, layers |-> Nothing, emb |-> NoVectors]
EmptyDb == [NoDb EXCEPT !.there = TRUE]

NoMeta == [there |-> FALSE]
Meta(c, s, e, n) == [there |-> TRUE, commit |-> c, stamp |-> s, vectors |-> e, nodes |-> n]
NoEntry == [there |-> FALSE]
Entry(m) == [there |-> TRUE, stamp |-> m.stamp, commit |-> m.commit]

(* reread tells the properties that the backend noted another indexedAt while its
   pool stayed as it was. *)
NoView == [open |-> FALSE, rows |-> Nothing, reread |-> FALSE]
ViewOf(d) == [open |-> TRUE, rows |-> d.rows, reread |-> FALSE]

-----------------------------------------------------------------------------
(***************************************************************************)
(* git diff between two commits, and what analyze makes of it.             *)
(***************************************************************************)

(* git shows a file that went and one that came with the same contents as one
   change, a rename. *)
Renamed(a, b) ==
  {r \in Files \X Files :
     /\ Tree[a][r[1]] # Absent /\ Tree[b][r[1]] = Absent
     /\ Tree[a][r[2]] = Absent /\ Tree[b][r[2]] = Tree[a][r[1]]}

Change(s, f, p) == [status |-> s, path |-> f, paths |-> {f, p}]
Changes(a, b) ==
  LET ren == Renamed(a, b)
      plain == {f \in Files : Tree[a][f] # Tree[b][f]
                  /\ \A r \in ren : f \notin {r[1], r[2]}}
  IN  {Change("R", r[2], r[1]) : r \in ren}
        \cup {Change(IF Tree[a][f] = Absent THEN "A"
                     ELSE IF Tree[b][f] = Absent THEN "D" ELSE "M", f, f) : f \in plain}

(* No file is half of two renames. *)
ASSUME RenamesMatch ==
  \A a, b \in Commits : \A r, s \in Renamed(a, b) : r # s => r[1] # s[1] /\ r[2] # s[2]

(* changedPathAffectsGraph: contents that are read, or paths that come and
   go. *)
AffectsGraph(ch) ==
  \/ \E p \in ch.paths : Class[p] \in {"code", "config"}
  \/ ch.status # "M" /\ \E p \in ch.paths : Class[p] # "ignored"
Relevant ==
  [a \in Commits |-> [b \in Commits |-> {ch \in Changes(a, b) : AffectsGraph(ch)}]]

(* buildIncrementalFilePatchPlan: a change of a configuration file refreshes
   every row; otherwise the rows of the changed paths are replaced, unless a
   change touches a path the index ignores. *)
IsGlobal(ch) == \E p \in ch.paths : Class[p] = "config"
Eligible(C) == \A ch \in C : ~IsGlobal(ch) => \A p \in ch.paths : Class[p] # "ignored"
ReplaceAll(C) == \E ch \in C : IsGlobal(ch)
\* Changed: only the new path of a rename is replaced.
ReplaceNewPaths(C) == IF ReplaceAll(C) THEN Files ELSE {ch.path : ch \in C}
ReplacePaths(C) ==
  IF ReplaceAll(C) THEN Files ELSE UNION {ch.paths : ch \in C}
CurrentPaths(C) ==
  IF ReplaceAll(C) THEN Files ELSE {ch.path : ch \in {x \in C : x.status # "D"}}

\* Changed: auto mode looks at the size of the index only.
DecideAfresh(mode, nodes, vectors) ==
  mode # "off" /\ nodes <= NodeLimit /\ (mode = "on" \/ nodes <= AutoLimit)
(* decideEmbeddingRun: an index that is too large gets no embeddings, whatever the
   user asked for; with existing vectors, auto mode keeps them. *)
Decide(mode, nodes, vectors) ==
  mode # "off" /\ nodes <= NodeLimit /\ (mode = "on" \/ vectors \/ nodes <= AutoLimit)

-----------------------------------------------------------------------------

(* The locals of runFullAnalysis when none runs, after one that returned or
   one that threw or died. *)
Idle(returned) ==
  [pc |-> "idle", how |-> "none", commit |-> CHOOSE c \in Commits : TRUE,
   old |-> NoMeta, opt |-> [mode |-> "auto", force |-> FALSE, name |-> "free"], plan |-> {},
   scan |-> Nothing, cached |-> NoVectors, touched |-> FALSE, returned |-> returned]
Finish(returned) == an' = Idle(returned)
Goto(pc) == an' = [an EXCEPT !.pc = pc]

PatchSteps == {"patch", "delete", "insert", "layers"}
RebuildSteps == {"cache", "pipeline", "wipe", "create", "load", "restore"}
EmbedSteps == {"embed", "embedding"}
Steps == {"idle"} \cup PatchSteps \cup RebuildSteps \cup EmbedSteps \cup {"save", "register"}

(* The analyze has the database open for writing. *)
Locked ==
  \/ an.pc \in {"insert", "layers", "load", "restore"} \cup EmbedSteps
  \/ an.pc \in {"save", "register"} /\ an.how # "reuse"

RowSpace == {NoRow} \cup {<<f>> : f \in Files}
              \cup {<<v, g>> : v \in Contents,
                     g \in [{f \in Files : Class[f] = "config"} -> Contents \cup {Absent}]}
TypeOK ==
  /\ head \in Commits
  /\ work \in Worktrees[head]
  /\ db.there \in BOOLEAN
  /\ ~db.there => db = NoDb
  /\ \A f \in Files : {db.rows[f], db.layers[f], an.scan[f], view.rows[f]} \subseteq RowSpace
  /\ \A f \in Files : {db.emb[f], an.cached[f]} \subseteq {<<>>} \cup {<<v>> : v \in Contents}
  /\ clock \in 0..(MaxStamps + 1)
  /\ meta.there => meta \in {Meta(c, s, e, n) : c \in Commits, s \in 1..clock, e \in BOOLEAN,
                                              n \in 0..Cardinality(Files)}
  /\ registry.there => registry.stamp \in 1..clock /\ registry.commit \in Commits
  /\ an.pc \in Steps /\ an.how \in {"none", "reuse", "patch", "rebuild"}
  /\ an.pc # "idle" => an.opt \in Options
  /\ an.returned \in BOOLEAN
  /\ an.commit \in Commits /\ an.touched \in BOOLEAN
  /\ damaged \in BOOLEAN
  /\ handle \in 0..clock
  /\ view.open \in BOOLEAN /\ view.reread \in BOOLEAN

Init ==
  /\ head \in Commits
  /\ work \in Worktrees[head]
  /\ db = NoDb
  /\ meta = NoMeta
  /\ registry = NoEntry
  /\ clock = 0
  /\ an = Idle(FALSE)
  /\ damaged = FALSE
  /\ handle = 0
  /\ view = NoView
-----------------------------------------------------------------------------
(***************************************************************************)
(* runFullAnalysis: what is to be done.  HEAD, meta.json and the presence  *)
(* of the database are read at the start; with force, with the database or *)
(* the vectors missing, or without metadata the index is rebuilt.          *)
(***************************************************************************)

Usable(opt) ==
  /\ meta.there
  /\ db.there
  /\ ~opt.force
  /\ Decide(opt.mode, meta.nodes, meta.vectors) => meta.vectors

Begin(opt, how, pc, plan) ==
  /\ clock < MaxStamps
  /\ an' = [Idle(FALSE) EXCEPT !.pc = pc, !.how = how, !.commit = head, !.old = meta,
                                !.opt = opt, !.plan = plan]
  /\ UNCHANGED <<head, work, disk, backend>>

UpToDate(opt) ==
  /\ an.pc = "idle"
  /\ Usable(opt)
  /\ meta.commit = head
  /\ Finish(TRUE)
  /\ UNCHANGED <<head, work, disk, backend>>

(* No change between the commits affects the graph. *)
BeginReuse(opt) ==
  /\ an.pc = "idle"
  /\ Usable(opt)
  /\ meta.commit # head
  /\ Relevant[meta.commit][head] = {}
  /\ Begin(opt, "reuse", "save", {})

BeginPatch(opt) ==
  LET C == Relevant[meta.commit][head]
  IN  /\ an.pc = "idle"
      /\ Usable(opt)
      /\ meta.commit # head
      /\ C # {}
      /\ Eligible(C)
      /\ Begin(opt, "patch", "patch", C)

(* git diff may fail between any two commits. *)
BeginRebuild(opt) ==
  /\ an.pc = "idle"
  /\ Usable(opt) => meta.commit # head
  /\ Begin(opt, "rebuild", "cache", {})

-----------------------------------------------------------------------------
(***************************************************************************)
(* runIncrementalFilePatchAnalysis.                                        *)
(***************************************************************************)

PatchScan ==
  /\ an.pc = "patch"
  /\ an' = [an EXCEPT !.pc = "delete", !.scan = Rows(work)]
  /\ UNCHANGED <<head, work, disk, backend>>

\* Changed: the embeddings of the rows stay.
PatchDeleteRows ==
  /\ an.pc = "delete"
  /\ db' = [db EXCEPT !.rows = [f \in Files |-> IF f \in ReplacePaths(an.plan) THEN NoRow ELSE @[f]]]
  /\ an' = [an EXCEPT !.pc = "insert", !.touched = TRUE]
  /\ UNCHANGED <<head, work, meta, registry, clock, damaged, backend>>

(* initCgdb, and the rows of the changed paths go with their embeddings.  Those left
   by rows that went before stay, unless all rows are replaced: then all go, or none,
   as a failure to delete them is passed over. *)
PatchDelete ==
  LET gone == ReplacePaths(an.plan)
      old == {f \in gone : db.rows[f] # NoRow}
  IN  /\ an.pc = "delete"
      /\ \E cut \in IF ReplaceAll(an.plan) THEN {Files, {}} ELSE {old} :
           db' = [db EXCEPT !.rows = [f \in Files |-> IF f \in gone THEN NoRow ELSE @[f]],
                            !.emb = [f \in Files |-> IF f \in cut THEN <<>> ELSE @[f]]]
      /\ an' = [an EXCEPT !.pc = "insert", !.touched = TRUE]
      /\ UNCHANGED <<head, work, meta, registry, clock, damaged, backend>>

PatchInsert ==
  /\ an.pc = "insert"
  /\ db' = [db EXCEPT !.rows = [f \in Files |->
               IF f \in CurrentPaths(an.plan) THEN an.scan[f] ELSE @[f]]]
  /\ Goto("layers")
  /\ UNCHANGED <<head, work, meta, registry, clock, damaged, backend>>

(* The global layers and the search indexes. *)
PatchLayers ==
  /\ an.pc = "layers"
  /\ db' = [db EXCEPT !.layers = db.rows]
  /\ Goto("embed")
  /\ UNCHANGED <<head, work, meta, registry, clock, damaged, backend>>

(* An exception inside the patch is caught: the index is rebuilt, in this
   run, from whatever the patch has left. *)
Rebuild == an' = [an EXCEPT !.pc = "cache", !.how = "rebuild", !.scan = Nothing,
                            !.cached = NoVectors]

PatchFails ==
  /\ an.how = "patch" /\ an.pc \in PatchSteps \cup EmbedSteps
  /\ Rebuild
  /\ UNCHANGED <<head, work, disk, backend>>

-----------------------------------------------------------------------------
(***************************************************************************)
(* The rebuild.                                                            *)
(***************************************************************************)

(* Embeddings that are to be kept are read into memory; opening the database
   for that creates it when it is missing, and a failure is ignored. *)
KeepsVectors ==
  an.old.there /\ ~an.opt.force /\ Decide(an.opt.mode, an.old.nodes, an.old.vectors)

CacheVectors ==
  /\ an.pc = "cache"
  /\ KeepsVectors
  /\ db' = [db EXCEPT !.there = TRUE]
  /\ an' = [an EXCEPT !.pc = "pipeline", !.cached = db.emb,
                      !.touched = @ \/ ~db.there]
  /\ UNCHANGED <<head, work, meta, registry, clock, damaged, backend>>

CacheNothing ==
  /\ an.pc = "cache"
  /\ Goto("pipeline")
  /\ UNCHANGED <<head, work, disk, backend>>

\* Changed: a side file with the rows survives the database file.
WipePartly ==
  /\ an.pc = "wipe"
  /\ db' = [db EXCEPT !.there = FALSE]
  /\ an' = [an EXCEPT !.pc = "create", !.touched = TRUE]
  /\ UNCHANGED <<head, work, meta, registry, clock, damaged, backend>>

Pipeline ==
  /\ an.pc = "pipeline"
  /\ an' = [an EXCEPT !.pc = "wipe", !.scan = Rows(work)]
  /\ UNCHANGED <<head, work, disk, backend>>

Wipe ==
  /\ an.pc = "wipe"
  /\ db' = NoDb
  /\ an' = [an EXCEPT !.pc = "create", !.touched = TRUE]
  /\ UNCHANGED <<head, work, meta, registry, clock, damaged, backend>>

Create ==
  /\ an.pc = "create"
  /\ db' = EmptyDb
  /\ Goto("load")
  /\ UNCHANGED <<head, work, meta, registry, clock, damaged, backend>>

Load ==
  /\ an.pc = "load"
  /\ db' = [db EXCEPT !.rows = an.scan, !.layers = an.scan]
  /\ Goto("restore")
  /\ UNCHANGED <<head, work, meta, registry, clock, damaged, backend>>

(* The cached embeddings are inserted again, those of files that are gone too;
   batches that fail are passed over.  With another dimension none is. *)
Restore ==
  /\ an.pc = "restore"
  /\ \/ \E S \in SUBSET Files :
          /\ db' = [db EXCEPT !.emb = [f \in Files |-> IF f \in S THEN an.cached[f] ELSE <<>>]]
          /\ Goto("embed")
     \/ /\ an' = [an EXCEPT !.pc = "embed", !.cached = NoVectors]
        /\ UNCHANGED db
  /\ UNCHANGED <<head, work, meta, registry, clock, damaged, backend>>

-----------------------------------------------------------------------------
(***************************************************************************)
(* The embedding run of a patch or a rebuild.  It goes by the embeddings   *)
(* it was told of: those in the database of a patch, those in the cache of *)
(* a rebuild.                                                              *)
(***************************************************************************)

Wanted == Decide(an.opt.mode, Nodes(db), an.old.there /\ an.old.vectors)

SkipEmbeddings ==
  /\ an.pc = "embed"
  /\ ~Wanted
  /\ Goto("save")
  /\ UNCHANGED <<head, work, disk, backend>>

BeginEmbeddings ==
  /\ an.pc = "embed"
  /\ Wanted
  /\ an' = [an EXCEPT !.pc = "embedding", !.cached = IF an.how = "patch" THEN db.emb ELSE @]
  /\ UNCHANGED <<head, work, disk, backend>>

(* Embeddings of another text are deleted first, then what has none is embedded;
   what was embedded before, as far as it knows, is passed over. *)
ToDrop ==
  {f \in Files : /\ Text(db.rows, f) # <<>>
                 /\ an.cached[f] \notin {<<>>, Text(db.rows, f)}
                 /\ db.emb[f] = an.cached[f]}
ToEmbed ==
  {f \in Files : /\ Text(db.rows, f) # <<>>
                 /\ Text(db.rows, f) \notin {an.cached[f], db.emb[f]}}

SetVector(f, e) ==
  /\ db' = [db EXCEPT !.emb[f] = e]
  /\ UNCHANGED <<head, work, meta, registry, clock, an, damaged, backend>>

DropVector(f) == an.pc = "embedding" /\ f \in ToDrop /\ SetVector(f, <<>>)

Embed(f) ==
  an.pc = "embedding" /\ ToDrop = {} /\ f \in ToEmbed /\ SetVector(f, Text(db.rows, f))

EmbeddingsDone ==
  /\ an.pc = "embedding"
  /\ ToDrop = {} /\ ToEmbed = {}
  /\ Goto("save")
  /\ UNCHANGED <<head, work, disk, backend>>

-----------------------------------------------------------------------------
(***************************************************************************)
(* The end of all three: meta.json, then the registry.                     *)
(***************************************************************************)

HasVectors == \E f \in Files : db.emb[f] # <<>>

SaveMeta ==
  /\ an.pc = "save"
  /\ clock' = clock + 1
  /\ meta' = IF an.how = "reuse" THEN Meta(an.commit, clock', an.old.vectors, an.old.nodes)
             ELSE Meta(an.commit, clock', HasVectors, Nodes(db))
  /\ an' = [an EXCEPT !.pc = "register", !.touched = FALSE]
  /\ damaged' = (damaged /\ an.how # "rebuild")
  /\ UNCHANGED <<head, work, db, registry, backend>>

Register ==
  /\ an.pc = "register"
  /\ an.opt.name = "free"
  /\ registry' = Entry(meta)
  /\ Finish(TRUE)
  /\ UNCHANGED <<head, work, db, meta, clock, damaged, backend>>

(* Another repository has the name the user asked for.  The exception ends the
   run; out of a patch it causes a rebuild. *)
NameTaken ==
  /\ an.pc = "register"
  /\ an.opt.name = "taken"
  /\ IF an.how = "patch" THEN Rebuild ELSE Finish(FALSE)
  /\ UNCHANGED <<head, work, disk, backend>>

(* The process is killed, or an exception ends it.  writeFile truncates: a
   file that was being written is then unreadable, which readers take for
   absent. *)
Dies ==
  /\ an.pc # "idle"
  /\ meta' \in IF an.pc = "save" THEN {meta, NoMeta} ELSE {meta}
  /\ registry' \in IF an.pc = "register" THEN {registry, NoEntry} ELSE {registry}
  /\ damaged' = (damaged \/ (an.touched /\ meta.there /\ db.there))
  /\ Finish(FALSE)
  /\ UNCHANGED <<head, work, db, clock, backend>>

-----------------------------------------------------------------------------
(***************************************************************************)
(* What else happens to the repository and its index.                      *)
(***************************************************************************)

UserMoves(c) ==
  /\ Still => an.pc = "idle"
  /\ head' = c
  /\ work' \in Worktrees[c]
  /\ UNCHANGED <<an, disk, backend>>

(* Embeddings of a text that their row does not have, or that have no row. *)
Astray == {f \in Files : db.emb[f] \notin {<<>>, Text(db.rows, f)}}
StaleFiles == {f \in Astray : db.rows[f] # NoRow}

(* POST /api/embed: the embedding run on the database, which may be cut short,
   without a word in meta.json: some or all stale embeddings are deleted and, then,
   some files are embedded. *)
EmbedJob ==
  /\ an.pc = "idle"
  /\ db.there
  /\ \E D \in SUBSET StaleFiles, S \in SUBSET {f \in Files : Text(db.rows, f) # <<>>} :
       /\ S # {} => D = StaleFiles
       /\ db' = [db EXCEPT !.emb = [f \in Files |-> IF f \in S THEN Text(db.rows, f)
                                                   ELSE IF f \in D THEN <<>> ELSE @[f]]]
  /\ UNCHANGED <<head, work, meta, registry, clock, an, damaged, backend>>

(* codragraph clean: the storage directory, then the registry entry. *)
Clean ==
  /\ an.pc = "idle"
  /\ meta.there
  /\ db' = NoDb
  /\ meta' = NoMeta
  /\ registry' \in {registry, NoEntry}
  /\ damaged' = FALSE
  /\ UNCHANGED <<head, work, clock, an, backend>>

(* codragraph checkout --materialize, which may die on the way: the database
   of another commit, and the metadata as before. *)
Materialize(c) ==
  /\ an.pc = "idle"
  /\ meta.there
  /\ db' \in {NoDb, EmptyDb, [EmptyDb EXCEPT !.rows = RowsAt[c], !.layers = RowsAt[c]]}
  /\ damaged' = TRUE
  /\ UNCHANGED <<head, work, meta, registry, clock, an, backend>>

-----------------------------------------------------------------------------
(***************************************************************************)
(* The backend: refreshRepos and ensureInitialized.                        *)
(***************************************************************************)

(* An entry whose meta.json is gone is pruned from the registry; a torn one
   is still there.  A pool that is open stays open. *)
RefreshRepos ==
  /\ registry' \in IF meta.there THEN {registry} ELSE {registry, NoEntry}
  /\ handle' = IF registry'.there THEN registry'.stamp ELSE 0
  /\ view' = [view EXCEPT !.reread = @ \/ (view.open /\ handle' # handle)]
  /\ UNCHANGED <<head, work, db, meta, clock, an, damaged>>

OpenPool ==
  /\ handle # 0
  /\ ~view.open
  /\ db.there
  /\ ~Locked
  /\ view' = ViewOf(db)
  /\ UNCHANGED <<head, work, an, disk, handle>>

\* Changed: the new time is noted, the pool kept.
StalePoolKept ==
  /\ handle # 0
  /\ view.open
  /\ meta.there
  /\ meta.stamp # handle
  /\ handle' = meta.stamp
  /\ UNCHANGED <<head, work, an, disk, view>>

(* The index was written since: close the pool and open it again. *)
StalePool ==
  /\ handle # 0
  /\ view.open
  /\ meta.there
  /\ meta.stamp # handle
  /\ handle' = meta.stamp
  /\ view' = IF db.there /\ ~Locked THEN ViewOf(db) ELSE NoView
  /\ UNCHANGED <<head, work, an, disk>>

IdlePool ==
  /\ view.open
  /\ view' = NoView
  /\ UNCHANGED <<head, work, an, disk, handle>>

-----------------------------------------------------------------------------
Analyze ==
  \/ \E opt \in Options :
       UpToDate(opt) \/ BeginReuse(opt) \/ BeginPatch(opt) \/ BeginRebuild(opt)
  \/ PatchScan \/ PatchDelete \/ PatchInsert \/ PatchLayers \/ PatchFails
  \/ CacheVectors \/ CacheNothing \/ Pipeline \/ Wipe \/ Create \/ Load \/ Restore
  \/ SkipEmbeddings \/ BeginEmbeddings \/ EmbeddingsDone
  \/ \E f \in Files : DropVector(f) \/ Embed(f)
  \/ SaveMeta \/ Register \/ NameTaken
  \/ Dies

Backend == RefreshRepos \/ OpenPool \/ StalePool \/ IdlePool

Next ==
  \/ Analyze
  \/ Serving /\ Backend
  \/ \E c \in Commits : UserMoves(c)
  \/ \E c \in Shelved : Materialize(c)
  \/ EmbedJob
  \/ Clean

Spec == Init /\ [][Next]_vars
-----------------------------------------------------------------------------
(***************************************************************************)
(* Properties.                                                             *)
(***************************************************************************)

(* What meta.json says is so: unless the database was damaged, it holds the
   rows of the commit meta.json names, with the global layers computed from
   them, however many reuses, patches, failures and rebuilds led there.  "Up
   to date" is therefore a true answer. *)
IndexMatchesMeta ==
  meta.there /\ db.there /\ ~an.touched /\ ~damaged =>
    /\ db.rows = RowsAt[meta.commit]
    /\ db.layers = db.rows

(* Embeddings go astray (come to stand beside another text than theirs, or outlive
   their row) in two ways only, when a rebuild restores them from its cache and when a
   patch that replaces all rows fails to delete them: no other patch leaves the
   embedding of a row behind.  And no embedding run of an analyze that ends well leaves
   a row with one; until then the run may be skipped, fail or die. *)
CurrentStep ==
  /\ an.pc = "restore" \/ (an.pc = "delete" /\ ReplaceAll(an.plan)) \/ Astray' \subseteq Astray
  /\ an.pc = "embedding" /\ an'.pc = "save" => StaleFiles' = {}
VectorsCurrent == [][CurrentStep]_vars

(* A patch or a rebuild of an index whose metadata counts embeddings leaves every row
   of code with one, and the right one, unless the user turned them off, the index has
   grown too large, or an embedding could not be restored: one that the cache of a
   rebuild holds for the very text is not made again. *)
VectorsKept ==
  /\ an.pc = "save" /\ an.how # "reuse"
  /\ an.old.there /\ an.old.vectors
  /\ an.opt.mode # "off" /\ Nodes(db) <= NodeLimit
  => \A f \in Files :
       Text(db.rows, f) # <<>> =>
         \/ db.emb[f] = Text(db.rows, f)
         \/ an.how = "rebuild" /\ an.cached[f] = Text(db.rows, f)

(* "If .codragraph/meta.json shows embeddings, use analyze --embeddings; plain analyze
   drops them" (docs/GUARDRAILS.md).  Does not hold: auto mode keeps them. *)
PlainAnalyzeDrops ==
  /\ an.pc = "save" /\ an.how # "reuse"
  /\ an.old.there /\ an.old.vectors /\ an.opt.mode = "auto"
  => ~HasVectors

(* "Check if the index was rebuilt since we opened the connection" (local-backend.ts):
   a backend that finds nothing to reopen reads the index that is there.  Does not
   hold: reading the registry notes the time of the new index beside the old pool. *)
BackendNoticesRebuild ==
  view.open /\ meta.there /\ db.there /\ an.pc = "idle" /\ ~damaged =>
    (handle = meta.stamp => view.rows = db.rows)

(* It does as long as the backend has not read another time in the registry while its
   pool was open: rebuilds, cleans, closed pools and failed openings in any order do
   not mislead the check. *)
BackendCurrent == ~view.reread => BackendNoticesRebuild

(* A successful analyze leaves the repository in the registry, as the index it
   has now: "Register (add or update) a repo in the global registry.  Called
   after codragraph analyze completes."  Does not hold: when the name is taken or
   the process dies after SaveMeta, the next analyze answers "up to date". *)
SuccessRegisters ==
  an.returned /\ meta.there =>
    registry.there /\ registry.stamp = meta.stamp

(* "See stats.embeddings in .codragraph/meta.json (0 means none)."  Does not hold
   after EmbedJob, which leaves meta.json alone. *)
MetaCountsVectors ==
  meta.there /\ an.pc = "idle" /\ ~damaged => (~meta.vectors => ~HasVectors)
=============================================================================
