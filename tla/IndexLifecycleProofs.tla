------------------------ MODULE IndexLifecycleProofs ------------------------
(***************************************************************************)
(* Theorems about the index of a repository.  Types, VectorsCurrent,      *)
(* VectorsKept and BackendCurrent hold whatever users do, also when the    *)
(* checkout changes under an analyze.  IndexMatchesMeta holds where the    *)
(* files that are read are those of the commit that is recorded.           *)
(***************************************************************************)
EXTENDS IndexLifecycle, FiniteSetTheorems, TLAPS

-----------------------------------------------------------------------------
(***************************************************************************)
(* The invariant.                                                          *)
(***************************************************************************)

FileContents == Contents \cup {Absent}
ConfigFiles == {g \in Files : Class[g] = "config"}
CodeRows == {<<v, g>> : v \in Contents, g \in [ConfigFiles -> FileContents]}
OtherRows == {<<f>> : f \in Files}

(* Only code has rows with contents, and only code has embeddings. *)
Tables ==
  {r \in [Files -> RowSpace] :
     \A f \in Files : Class[f] = "code" => r[f] = NoRow \/ r[f] \in CodeRows}
Vector == {<<>>} \cup {<<v>> : v \in Contents}
VectorTables ==
  {e \in [Files -> Vector] : \A f \in Files : Class[f] # "code" => e[f] = <<>>}

Databases == [there : BOOLEAN, rows : Tables, layers : Tables, emb : VectorTables]
Counts == 0..Cardinality(Files)
Metas == {Meta(c, s, e, n) : c \in Commits, s \in Nat, e \in BOOLEAN, n \in Counts}
Entries == [there : {TRUE}, stamp : Nat, commit : Commits]
Plans == {{}} \cup {Relevant[p[1]][p[2]] : p \in Commits \X Commits}
OptionSpace == [mode : {"off", "auto", "on"}, force : BOOLEAN, name : {"free", "taken"}]
Analyses ==
  [pc : Steps, how : {"none", "reuse", "patch", "rebuild"}, commit : Commits,
   old : Metas \cup {NoMeta}, opt : OptionSpace, plan : Plans,
   scan : Tables, cached : VectorTables, touched : BOOLEAN, returned : BOOLEAN]

Views == [open : BOOLEAN, rows : Tables, reread : BOOLEAN]

Types ==
  /\ head \in Commits
  /\ work \in Worktrees[head]
  /\ db \in Databases
  /\ ~db.there => db = NoDb
  /\ meta \in Metas \cup {NoMeta}
  /\ registry \in Entries \cup {NoEntry}
  /\ clock \in Nat
  /\ an \in Analyses
  /\ damaged \in BOOLEAN
  /\ handle \in Nat
  /\ view \in Views

(* What has a time stamp got it from the clock, and the two stamps that one
   analyze may give (a patch whose name is taken is followed by a rebuild) are
   within the bound. *)
Stamped ==
  /\ meta.there => meta.stamp \in 1..clock
  /\ registry.there => registry.stamp \in 1..clock
  /\ handle <= clock
  /\ clock <= MaxStamps + 1
  /\ an.pc # "idle" /\ (an.pc # "register" \/ an.how = "patch") => clock <= MaxStamps
  /\ an.pc \notin {"idle", "register"} /\ an.how = "patch" => clock < MaxStamps

(* What is known of an analyze at each of its steps. *)
Control ==
  /\ an.pc # "idle" => an.opt \in Options /\ an.how # "none"
  /\ an.pc \in PatchSteps => an.how = "patch"
  /\ an.pc \in RebuildSteps => an.how = "rebuild"
  /\ an.pc \in EmbedSteps => an.how \in {"patch", "rebuild"}
  /\ an.pc = "register" => meta.there
  /\ an.pc \in {"load", "restore"} \cup EmbedSteps => db.there
  /\ an.how \in {"reuse", "patch"} /\ an.pc \notin {"idle", "register"} =>
       an.old = meta /\ meta.there /\ db.there
  /\ an.pc \in {"insert", "layers", "create", "load", "restore"} \cup EmbedSteps => an.touched
  /\ an.pc = "save" => (an.touched <=> an.how # "reuse")
  /\ an.pc \in {"idle", "patch", "delete", "register"} => ~an.touched
  /\ an.pc \in PatchSteps => an.plan = Relevant[meta.commit][an.commit]

(* The embeddings: none when the new database is loaded, none but the cached ones
   when an embedding run begins.  While it runs, each file has none, the one the run
   knows of or that of its text; a patch knows of what is there. *)
Embeddings ==
  /\ VectorsKept
  /\ an.pc = "insert" => \A f \in ReplacePaths(an.plan) : db.rows[f] = NoRow
  /\ an.pc \in {"load", "restore"} => db.emb = NoVectors
  /\ an.pc = "embed" /\ an.how = "rebuild" =>
       \A f \in Files : db.emb[f] \in {<<>>, an.cached[f]}
  /\ an.pc = "embedding" =>
       \A f \in Files :
         /\ db.emb[f] \in {<<>>, an.cached[f], Text(db.rows, f)}
         /\ an.how = "patch" /\ an.cached[f] = Text(db.rows, f) => db.emb[f] = an.cached[f]

Inv == Types /\ Stamped /\ Control /\ Embeddings

(* The rows at each step, where nothing but a commit is ever checked out. *)
Patched(a, C) == [f \in Files |-> IF f \in ReplacePaths(C) THEN NoRow ELSE RowsAt[a][f]]
RowsKnown ==
  /\ IndexMatchesMeta
  /\ an.pc # "idle" => an.commit = head
  /\ an.pc \in {"delete", "insert", "wipe", "create", "load"} => an.scan = RowsAt[an.commit]
  /\ an.pc = "insert" /\ ~damaged => db.rows = Patched(meta.commit, an.plan)
  /\ an.pc = "layers" /\ ~damaged => db.rows = RowsAt[an.commit]
  /\ an.pc = "save" /\ an.how = "reuse" => RowsAt[meta.commit] = RowsAt[an.commit]
  /\ \/ an.pc = "restore"
     \/ an.pc \in EmbedSteps \cup {"save"} /\ an.how = "rebuild"
     \/ an.pc \in EmbedSteps \cup {"save"} /\ an.how = "patch" /\ ~damaged
     => db.rows = RowsAt[an.commit] /\ db.layers = db.rows

(* What a pool reads is what it opened, as long as the stamp is the same and the
   backend has noted no other; while an analyze writes nothing is said. *)
PoolFresh ==
  view.open /\ ~view.reread /\ meta.there /\ db.there /\ ~damaged /\ ~an.touched =>
    (handle = meta.stamp => view.rows = db.rows)
-----------------------------------------------------------------------------
(***************************************************************************)
(* Rows, texts and tables.                                                 *)
(***************************************************************************)

(* A row of code, or of another file, is a row: it is not NoRow. *)
LEMMA RowsAreRows ==
  /\ \A r \in CodeRows : r # NoRow /\ r[1] \in Contents
  /\ \A r \in OtherRows : r # NoRow
  /\ \A v : <<v>> # <<>>
BY DEF CodeRows, OtherRows, NoRow

(* The pipeline makes a table of every tree. *)
LEMMA RowsAreTables ==
  ASSUME NEW t \in [Files -> FileContents]
  PROVE  Rows(t) \in Tables
<1>1. Configs(t) \in [ConfigFiles -> FileContents]
  BY DEF Configs, ConfigFiles
<1> DEFINE k == Configs(t)
<1> HIDE DEF k
<1>2. ASSUME NEW f \in Files
      PROVE  /\ Row(t, f) \in RowSpace
             /\ Class[f] = "code" => Row(t, f) = NoRow \/ Row(t, f) \in CodeRows
  <2>1. CASE ~Indexed(t, f)
    BY <2>1 DEF Row, RowSpace
  <2>2. CASE Indexed(t, f) /\ Class[f] = "code"
    <3>1. Row(t, f) = <<t[f], k>>
      BY <2>2 DEF Row, k
    <3>2. t[f] \in Contents /\ k \in [ConfigFiles -> FileContents]
      BY <2>2, <1>1 DEF Indexed, FileContents, k
    <3>3. <<t[f], k>> \in CodeRows
      BY <3>2 DEF CodeRows
    <3>4. CodeRows \subseteq RowSpace
      BY DEF CodeRows, RowSpace, ConfigFiles, FileContents
    <3> QED BY <3>1, <3>3, <3>4
  <2>3. CASE Indexed(t, f) /\ Class[f] # "code"
    BY <2>3 DEF Row, RowSpace
  <2> QED BY <2>1, <2>2, <2>3
<1> QED BY <1>2 DEF Rows, Tables

(* The commits are trees of contents. *)
LEMMA TreesAreContents == \A c \in Commits : Tree[c] \in [Files -> FileContents]
BY TreeAssumption DEF FileContents

(* The rows of a commit are a table. *)
LEMMA RowsAtTables == \A c \in Commits : RowsAt[c] = Rows(Tree[c]) /\ RowsAt[c] \in Tables
BY TreesAreContents, RowsAreTables DEF RowsAt

(* The row of a file at a commit. *)
LEMMA RowAt == \A c \in Commits : \A f \in Files : RowsAt[c][f] = Row(Tree[c], f)
BY DEF RowsAt, Rows

(* So is the working tree, clean or not. *)
LEMMA WorkIsTree ==
  ASSUME head \in Commits, work \in Worktrees[head]
  PROVE  work \in [Files -> FileContents]
BY TreeAssumption DEF FileContents

(* The empty tables. *)
LEMMA NothingIsTable == Nothing \in Tables
BY DEF Nothing, Tables, RowSpace

(* No embedding is a table of embeddings. *)
LEMMA NoVectorsIsTable == NoVectors \in VectorTables
BY DEF NoVectors, VectorTables, Vector

(* The text of a file is a vector's, there is none for what is not code, and a
   row of code has one. *)
LEMMA Texts ==
  ASSUME NEW r \in Tables, NEW f \in Files
  PROVE  /\ Text(r, f) \in Vector
         /\ Class[f] # "code" => Text(r, f) = <<>>
         /\ Class[f] = "code" /\ r[f] # NoRow => Text(r, f) # <<>>
         /\ r[f] = NoRow => Text(r, f) = <<>>
<1>1. CASE r[f] # NoRow /\ Class[f] = "code"
  <2>1. r[f] \in CodeRows
    BY <1>1 DEF Tables
  <2>2. r[f][1] \in Contents
    BY <2>1, RowsAreRows
  <2>3. Text(r, f) = <<r[f][1]>>
    BY <1>1 DEF Text
  <2> QED BY <1>1, <2>2, <2>3, RowsAreRows DEF Vector
<1>2. CASE ~(r[f] # NoRow /\ Class[f] = "code")
  BY <1>2 DEF Text, Vector
<1> QED BY <1>1, <1>2

-----------------------------------------------------------------------------
(***************************************************************************)
(* What git diff says, and what it leaves out.                             *)
(***************************************************************************)

(* A change has the paths it names; what it says of them is so. *)
LEMMA ChangesAreSo ==
  ASSUME NEW a \in Commits, NEW b \in Commits, NEW ch \in Changes(a, b)
  PROVE  /\ ch.path \in Files /\ ch.path \in ch.paths /\ ch.paths \subseteq Files
         /\ ch.status \in {"R", "A", "D", "M"}
         /\ ch.status = "D" => Tree[b][ch.path] = Absent
         /\ \A f \in ch.paths : f # ch.path => Tree[b][f] = Absent
         /\ ch.status = "M" => /\ ch.paths = {ch.path}
                               /\ Tree[a][ch.path] # Absent /\ Tree[b][ch.path] # Absent
<1> DEFINE ren == Renamed(a, b)
           plain == {f \in Files : Tree[a][f] # Tree[b][f] /\ \A r \in ren : f \notin {r[1], r[2]}}
           kind(f) == IF Tree[a][f] = Absent THEN "A" ELSE IF Tree[b][f] = Absent THEN "D" ELSE "M"
<1>1. \/ \E r \in ren : ch = Change("R", r[2], r[1])
      \/ \E f \in plain : ch = Change(kind(f), f, f)
  BY DEF Changes
<1>2. ASSUME NEW r \in ren, ch = Change("R", r[2], r[1])
      PROVE  /\ ch.status = "R" /\ ch.path = r[2] /\ ch.paths = {r[2], r[1]}
             /\ r[1] \in Files /\ r[2] \in Files
             /\ Tree[b][r[1]] = Absent
  <2>1. r \in Files \X Files /\ Tree[b][r[1]] = Absent
    BY DEF Renamed
  <2> QED BY <1>2, <2>1 DEF Change
<1>3. ASSUME NEW f \in plain, ch = Change(kind(f), f, f)
      PROVE  /\ ch.status = kind(f) /\ ch.path = f /\ ch.paths = {f}
  BY <1>3 DEF Change
<1>4. CASE \E r \in ren : ch = Change("R", r[2], r[1])
  BY <1>4, <1>2
<1>5. CASE \E f \in plain : ch = Change(kind(f), f, f)
  BY <1>5, <1>3
<1> QED BY <1>1, <1>4, <1>5

(* A file that differs between two commits is in a change. *)
LEMMA ChangesAreAll ==
  ASSUME NEW a \in Commits, NEW b \in Commits, NEW f \in Files, Tree[a][f] # Tree[b][f]
  PROVE  \E ch \in Changes(a, b) : f \in ch.paths
<1> DEFINE ren == Renamed(a, b)
           plain == {g \in Files : Tree[a][g] # Tree[b][g] /\ \A r \in ren : g \notin {r[1], r[2]}}
           kind(g) == IF Tree[a][g] = Absent THEN "A" ELSE IF Tree[b][g] = Absent THEN "D" ELSE "M"
<1>1. CASE \E r \in ren : f \in {r[1], r[2]}
  <2>1. PICK r \in ren : f \in {r[1], r[2]}
    BY <1>1
  <2>2. Change("R", r[2], r[1]) \in Changes(a, b)
    BY DEF Changes
  <2>3. Change("R", r[2], r[1]).paths = {r[2], r[1]}
    BY DEF Change
  <2> QED BY <2>1, <2>2, <2>3
<1>2. CASE \A r \in ren : f \notin {r[1], r[2]}
  <2>1. f \in plain
    BY <1>2
  <2>2. Change(kind(f), f, f) \in Changes(a, b)
    BY <2>1 DEF Changes
  <2>3. Change(kind(f), f, f).paths = {f}
    BY DEF Change
  <2> QED BY <2>2, <2>3
<1> QED BY <1>1, <1>2

(* The changes that the decision between reuse and patch looks at. *)
LEMMA RelevantChanges ==
  ASSUME NEW a \in Commits, NEW b \in Commits
  PROVE  Relevant[a][b] = {ch \in Changes(a, b) : AffectsGraph(ch)}
BY DEF Relevant

(* Without a relevant change of a configuration file, code resolves alike. *)
LEMMA SameConfigs ==
  ASSUME NEW a \in Commits, NEW b \in Commits, ~ReplaceAll(Relevant[a][b])
  PROVE  Configs(Tree[a]) = Configs(Tree[b])
<1>1. ASSUME NEW g \in Files, Class[g] = "config", Tree[a][g] # Tree[b][g]
      PROVE  FALSE
  <2>1. PICK ch \in Changes(a, b) : g \in ch.paths
    BY <1>1, ChangesAreAll
  <2>2. AffectsGraph(ch) /\ IsGlobal(ch)
    BY <1>1, <2>1 DEF AffectsGraph, IsGlobal
  <2> QED BY <2>1, <2>2, RelevantChanges DEF ReplaceAll
<1>2. \A g \in {h \in Files : Class[h] = "config"} : Tree[a][g] = Tree[b][g]
  BY <1>1
<1> QED BY <1>2 DEF Configs

(* The row of a file that no relevant change names is the same at both. *)
LEMMA OthersKeepRows ==
  ASSUME NEW a \in Commits, NEW b \in Commits, ~ReplaceAll(Relevant[a][b]),
         NEW f \in Files, \A ch \in Relevant[a][b] : f \notin ch.paths
  PROVE  Row(Tree[a], f) = Row(Tree[b], f)
<1> DEFINE k == Configs(Tree[a])
<1>1. Configs(Tree[b]) = k
  BY SameConfigs
<1> HIDE DEF k
<1>2. CASE Tree[a][f] = Tree[b][f]
  BY <1>1, <1>2 DEF Row, Indexed, k
<1>3. CASE Tree[a][f] # Tree[b][f]
  <2>1. PICK ch \in Changes(a, b) : f \in ch.paths
    BY <1>3, ChangesAreAll
  <2>2. ~AffectsGraph(ch)
    BY <2>1, RelevantChanges
  <2>3. Class[f] \in {"asset", "ignored"}
    BY <2>1, <2>2, TreeAssumption DEF AffectsGraph
  <2>4. CASE Class[f] = "ignored"
    BY <2>4 DEF Row, Indexed
  <2>5. CASE Class[f] = "asset"
    <3>1. ch.status = "M"
      BY <2>1, <2>2, <2>5 DEF AffectsGraph
    <3>2. Tree[a][f] # Absent /\ Tree[b][f] # Absent
      BY <2>1, <3>1, ChangesAreSo
    <3> QED BY <2>5, <3>2 DEF Row, Indexed
  <2> QED BY <2>3, <2>4, <2>5
<1> QED BY <1>2, <1>3

(* Reuse: where no change is relevant, the database of one commit is that of the
   other. *)
LEMMA ReuseIsRight ==
  ASSUME NEW a \in Commits, NEW b \in Commits, Relevant[a][b] = {}
  PROVE  RowsAt[a] = RowsAt[b]
<1>1. ~ReplaceAll(Relevant[a][b])
  BY DEF ReplaceAll
<1>2. \A f \in Files : Row(Tree[a], f) = Row(Tree[b], f)
  BY <1>1, OthersKeepRows
<1> QED BY <1>2, RowsAtTables DEF Rows

(* What a patch inserts it has deleted before. *)
LEMMA InsertedWasDeleted ==
  ASSUME NEW a \in Commits, NEW b \in Commits
  PROVE  CurrentPaths(Relevant[a][b]) \subseteq ReplacePaths(Relevant[a][b])
<1> DEFINE C == Relevant[a][b]
<1>1. \A ch \in C : ch.path \in ch.paths
  BY RelevantChanges, ChangesAreSo
<1> QED BY <1>1 DEF CurrentPaths, ReplacePaths

(* The paths of a patch are files. *)
LEMMA ReplacedAreFiles ==
  ASSUME NEW a \in Commits, NEW b \in Commits
  PROVE  ReplacePaths(Relevant[a][b]) \subseteq Files
<1> DEFINE C == Relevant[a][b]
<1>1. \A ch \in C : ch.paths \subseteq Files
  BY RelevantChanges, ChangesAreSo
<1> QED BY <1>1 DEF ReplacePaths

(* Patch: the rows of one commit, those of the changed paths deleted and those of
   the current paths inserted, are the rows of the other. *)
LEMMA PatchIsRight ==
  ASSUME NEW a \in Commits, NEW b \in Commits
  PROVE  LET C == Relevant[a][b]
         IN  [f \in Files |-> IF f \in CurrentPaths(C) THEN RowsAt[b][f] ELSE Patched(a, C)[f]]
               = RowsAt[b]
<1> DEFINE C == Relevant[a][b]
           Result(f) == IF f \in CurrentPaths(C) THEN RowsAt[b][f] ELSE Patched(a, C)[f]
<1>1. ASSUME NEW f \in Files
      PROVE  Result(f) = RowsAt[b][f]
  <2>1. CASE f \in CurrentPaths(C)
    BY <2>1
  <2>2. CASE f \notin CurrentPaths(C) /\ f \in ReplacePaths(C)
    <3>1. ~ReplaceAll(C)
      BY <2>2 DEF CurrentPaths
    <3>2. PICK ch \in C : f \in ch.paths
      BY <2>2, <3>1 DEF ReplacePaths
    <3>3. f = ch.path => ch.status = "D"
      BY <2>2, <3>1, <3>2 DEF CurrentPaths
    <3>4. ch \in Changes(a, b)
      BY <3>2, RelevantChanges
    <3>5. Tree[b][f] = Absent
      BY <3>2, <3>3, <3>4, ChangesAreSo
    <3>6. RowsAt[b][f] = NoRow
      BY <3>5, RowAt DEF Row, Indexed
    <3> QED BY <2>2, <3>6 DEF Patched
  <2>3. CASE f \notin CurrentPaths(C) /\ f \notin ReplacePaths(C)
    <3>1. ~ReplaceAll(C)
      BY <2>3 DEF CurrentPaths
    <3>2. \A ch \in C : f \notin ch.paths
      BY <2>3, <3>1 DEF ReplacePaths
    <3>3. Row(Tree[a], f) = Row(Tree[b], f)
      BY <3>1, <3>2, OthersKeepRows
    <3>4. RowsAt[a][f] = RowsAt[b][f]
      BY <3>3, RowAt
    <3> QED BY <2>3, <3>4 DEF Patched
  <2> QED BY <2>1, <2>2, <2>3
<1>2. RowsAt[b] = [f \in Files |-> RowsAt[b][f]]
  BY RowsAtTables DEF Rows
<1> QED BY <1>1, <1>2
-----------------------------------------------------------------------------
(***************************************************************************)
(* Types.                                                                  *)
(***************************************************************************)

(* A database that is not there, and an empty one. *)
LEMMA NoDbIsDatabase == NoDb \in Databases /\ EmptyDb \in Databases
BY NothingIsTable, NoVectorsIsTable DEF NoDb, EmptyDb, Databases

(* The parts of a database. *)
LEMMA DatabaseFields ==
  ASSUME NEW d \in Databases
  PROVE  /\ d.there \in BOOLEAN /\ d.rows \in Tables /\ d.layers \in Tables
         /\ d.emb \in VectorTables
BY DEF Databases

(* The locals when no analyze runs. *)
LEMMA IdleIsAnalyze ==
  ASSUME Commits # {}, NEW r \in BOOLEAN
  PROVE  /\ Idle(r) \in Analyses
         /\ Idle(r).pc = "idle" /\ Idle(r).how = "none" /\ Idle(r).returned = r
         /\ Idle(r).touched = FALSE /\ Idle(r).cached = NoVectors
<1>1. (CHOOSE c \in Commits : TRUE) \in Commits
  OBVIOUS
<1>2. [mode |-> "auto", force |-> FALSE, name |-> "free"] \in OptionSpace
  BY DEF OptionSpace
<1>3. {} \in Plans
  BY DEF Plans
<1> QED
  BY <1>1, <1>2, <1>3, NothingIsTable, NoVectorsIsTable DEF Idle, Analyses, Steps

(* The next step of an analyze: all else stays. *)
LEMMA Stepped ==
  ASSUME NEW x \in Analyses, NEW pc \in Steps
  PROVE  LET y == [x EXCEPT !.pc = pc]
         IN  /\ y \in Analyses /\ y.pc = pc
             /\ y.how = x.how /\ y.commit = x.commit /\ y.old = x.old /\ y.opt = x.opt
             /\ y.plan = x.plan /\ y.scan = x.scan /\ y.cached = x.cached
             /\ y.touched = x.touched /\ y.returned = x.returned
BY DEF Analyses

(* The same, with the mark that the database is being written. *)
LEMMA SteppedTouching ==
  ASSUME NEW x \in Analyses, NEW pc \in Steps, NEW t \in BOOLEAN
  PROVE  LET y == [x EXCEPT !.pc = pc, !.touched = t]
         IN  /\ y \in Analyses /\ y.pc = pc /\ y.touched = t
             /\ y.how = x.how /\ y.commit = x.commit /\ y.old = x.old /\ y.opt = x.opt
             /\ y.plan = x.plan /\ y.scan = x.scan /\ y.cached = x.cached
             /\ y.returned = x.returned
BY DEF Analyses

(* The same, with what the pipeline has read. *)
LEMMA SteppedScanning ==
  ASSUME NEW x \in Analyses, NEW pc \in Steps, NEW t \in Tables
  PROVE  LET y == [x EXCEPT !.pc = pc, !.scan = t]
         IN  /\ y \in Analyses /\ y.pc = pc /\ y.scan = t
             /\ y.how = x.how /\ y.commit = x.commit /\ y.old = x.old /\ y.opt = x.opt
             /\ y.plan = x.plan /\ y.cached = x.cached
             /\ y.touched = x.touched /\ y.returned = x.returned
BY DEF Analyses

(* The patch gives up: the rebuild begins in the same run. *)
LEMMA Rebuilds ==
  ASSUME NEW x \in Analyses
  PROVE  LET y == [x EXCEPT !.pc = "cache", !.how = "rebuild", !.scan = Nothing,
                            !.cached = NoVectors]
         IN  /\ y \in Analyses /\ y.pc = "cache" /\ y.how = "rebuild" /\ y.scan = Nothing
             /\ y.commit = x.commit /\ y.old = x.old /\ y.opt = x.opt
             /\ y.plan = x.plan /\ y.cached = NoVectors
             /\ y.touched = x.touched /\ y.returned = x.returned
BY NothingIsTable, NoVectorsIsTable DEF Analyses, Steps, RebuildSteps

(* The same as Stepped, with what an embedding run goes by. *)
LEMMA SteppedCaching ==
  ASSUME NEW x \in Analyses, NEW pc \in Steps, NEW e \in VectorTables
  PROVE  LET y == [x EXCEPT !.pc = pc, !.cached = e]
         IN  /\ y \in Analyses /\ y.pc = pc /\ y.cached = e
             /\ y.how = x.how /\ y.commit = x.commit /\ y.old = x.old /\ y.opt = x.opt
             /\ y.plan = x.plan /\ y.scan = x.scan
             /\ y.touched = x.touched /\ y.returned = x.returned
BY DEF Analyses

(* Changes to the database. *)
LEMMA DatabaseWith ==
  ASSUME NEW d \in Databases, NEW r \in Tables, NEW l \in Tables, NEW e \in VectorTables
  PROVE  /\ [d EXCEPT !.rows = r] \in Databases
         /\ [d EXCEPT !.emb = e] \in Databases
         /\ [d EXCEPT !.rows = r, !.emb = e] \in Databases
         /\ [d EXCEPT !.rows = r, !.layers = l] \in Databases
         /\ [d EXCEPT !.layers = l, !.emb = e] \in Databases
         /\ [d EXCEPT !.there = TRUE] \in Databases
BY DEF Databases

(* Rows that are replaced by none, or by those of a scan, leave a table. *)
LEMMA TablesMix ==
  ASSUME NEW r \in Tables, NEW s \in Tables, NEW S
  PROVE  /\ [f \in Files |-> IF f \in S THEN NoRow ELSE r[f]] \in Tables
         /\ [f \in Files |-> IF f \in S THEN s[f] ELSE r[f]] \in Tables
<1>1. NoRow \in RowSpace
  BY DEF RowSpace
<1> QED BY <1>1 DEF Tables

(* The same of embeddings. *)
LEMMA VectorsMix ==
  ASSUME NEW e \in VectorTables, NEW v \in VectorTables, NEW S
  PROVE  /\ [f \in Files |-> IF f \in S THEN <<>> ELSE e[f]] \in VectorTables
         /\ [f \in Files |-> IF f \in S THEN v[f] ELSE e[f]] \in VectorTables
<1>1. <<>> \in Vector
  BY DEF Vector
<1> QED BY <1>1 DEF VectorTables

(* There are at most as many nodes as files. *)
LEMMA NodesCounted == \A d : Nodes(d) \in Counts
<1>1. ASSUME NEW d
      PROVE  Nodes(d) \in Counts
  <2> DEFINE S == {f \in Files : d.rows[f] # NoRow}
  <2>1. IsFiniteSet(Files) /\ S \in SUBSET Files
    BY TreeAssumption
  <2>2. IsFiniteSet(S) /\ Cardinality(S) <= Cardinality(Files)
    BY <2>1, FS_Subset
  <2>3. Cardinality(S) \in Nat /\ Cardinality(Files) \in Nat
    BY <2>1, <2>2, FS_CardinalityType
  <2> QED BY <2>2, <2>3 DEF Nodes, Counts
<1> QED BY <1>1

(* The parts of meta.json. *)
LEMMA MetaFields ==
  /\ \A m \in Metas : /\ m.there = TRUE /\ m.commit \in Commits /\ m.stamp \in Nat
                      /\ m.vectors \in BOOLEAN /\ m.nodes \in Counts
  /\ NoMeta.there = FALSE
<1>1. ASSUME NEW m \in Metas
      PROVE  /\ m.there = TRUE /\ m.commit \in Commits /\ m.stamp \in Nat
             /\ m.vectors \in BOOLEAN /\ m.nodes \in Counts
  <2>1. PICK c \in Commits, s \in Nat, e \in BOOLEAN, n \in Counts : m = Meta(c, s, e, n)
    BY DEF Metas
  <2>2. m.there = TRUE /\ m.commit = c /\ m.stamp = s /\ m.vectors = e /\ m.nodes = n
    BY <2>1 DEF Meta
  <2>3. m.vectors \in BOOLEAN
    BY <2>2, Zenon
  <2> QED BY <2>2, <2>3
<1>2. NoMeta.there = FALSE
  BY DEF NoMeta
<1> QED BY <1>1, <1>2

(* The changes between two commits can be a plan. *)
LEMMA PlansOfCommits ==
  /\ {} \in Plans
  /\ \A a, b \in Commits : Relevant[a][b] \in Plans
<1>1. ASSUME NEW a \in Commits, NEW b \in Commits
      PROVE  Relevant[a][b] \in Plans
  <2>1. <<a, b>> \in Commits \X Commits
    OBVIOUS
  <2>2. Relevant[<<a, b>>[1]][<<a, b>>[2]] = Relevant[a][b]
    OBVIOUS
  <2> QED BY <2>1, <2>2 DEF Plans
<1> QED BY <1>1 DEF Plans
-----------------------------------------------------------------------------
(***************************************************************************)
(* What each action does to the locals of the analyze and to the database. *)
(***************************************************************************)

Continues(pc, scan, cached, touched) ==
  /\ an' \in Analyses
  /\ an'.pc = pc /\ an'.scan = scan /\ an'.cached = cached /\ an'.touched = touched
  /\ an'.how = an.how /\ an'.commit = an.commit /\ an'.old = an.old
  /\ an'.opt = an.opt /\ an'.plan = an.plan

Writes(there, rows, layers, emb) ==
  /\ db' \in Databases
  /\ db'.there = there /\ db'.rows = rows /\ db'.layers = layers /\ db'.emb = emb

Ends == an' \in Analyses /\ an'.pc = "idle" /\ an'.how = "none" /\ an'.touched = FALSE
          /\ an'.cached = NoVectors

(* The parts of the locals. *)
LEMMA AnalyzeFields ==
  ASSUME Types
  PROVE  /\ an.pc \in Steps /\ an.scan \in Tables /\ an.cached \in VectorTables
         /\ an.touched \in BOOLEAN /\ an.commit \in Commits /\ an.opt \in OptionSpace
         /\ an.plan \in Plans /\ an.old \in Metas \cup {NoMeta}
         /\ an.how \in {"none", "reuse", "patch", "rebuild"}
         /\ an.returned \in BOOLEAN
BY DEF Types, Analyses

(* An analyze that ended. *)
LEMMA Finished ==
  ASSUME Types, NEW r \in BOOLEAN, Finish(r)
  PROVE  Ends
BY IdleIsAnalyze DEF Types, Finish, Ends

(* The patch: the scan. *)
LEMMA PatchScanDoes ==
  ASSUME Types, PatchScan
  PROVE  Continues("delete", Rows(work), an.cached, an.touched)
<1>1. Rows(work) \in Tables
  BY RowsAreTables, WorkIsTree DEF Types
<1> DEFINE t == Rows(work)
<1>2. an' = [an EXCEPT !.pc = "delete", !.scan = t]
  BY DEF PatchScan
<1> HIDE DEF t
<1>3. an \in Analyses /\ "delete" \in Steps /\ t \in Tables
  BY <1>1 DEF Types, Steps, PatchSteps, t
<1>4. Continues("delete", t, an.cached, an.touched)
  BY <1>2, <1>3, SteppedScanning DEF Continues
<1> QED BY <1>4 DEF t

(* The rebuild: the scan. *)
LEMMA PipelineDoes ==
  ASSUME Types, Pipeline
  PROVE  Continues("wipe", Rows(work), an.cached, an.touched)
<1>1. Rows(work) \in Tables
  BY RowsAreTables, WorkIsTree DEF Types
<1> DEFINE t == Rows(work)
<1>2. an' = [an EXCEPT !.pc = "wipe", !.scan = t]
  BY DEF Pipeline
<1> HIDE DEF t
<1>3. an \in Analyses /\ "wipe" \in Steps /\ t \in Tables
  BY <1>1 DEF Types, Steps, RebuildSteps, t
<1>4. Continues("wipe", t, an.cached, an.touched)
  BY <1>2, <1>3, SteppedScanning DEF Continues
<1> QED BY <1>4 DEF t

(* The patch: rows and embeddings go. *)
LEMMA PatchDeleteDoes ==
  ASSUME Types, PatchDelete
  PROVE  /\ Continues("insert", an.scan, an.cached, TRUE)
         /\ LET gone == ReplacePaths(an.plan)
            IN  \E cut :
                  /\ ReplaceAll(an.plan) \/ cut = {f \in gone : db.rows[f] # NoRow}
                  /\ Writes(db.there,
                            [f \in Files |-> IF f \in gone THEN NoRow ELSE db.rows[f]],
                            db.layers,
                            [f \in Files |-> IF f \in cut THEN <<>> ELSE db.emb[f]])
<1> DEFINE gone == ReplacePaths(an.plan)
           old == {f \in gone : db.rows[f] # NoRow}
           r == [f \in Files |-> IF f \in gone THEN NoRow ELSE db.rows[f]]
<1>0. PICK cut \in IF ReplaceAll(an.plan) THEN {Files, {}} ELSE {old} :
        db' = [db EXCEPT !.rows = r,
                         !.emb = [f \in Files |-> IF f \in cut THEN <<>> ELSE db.emb[f]]]
  BY DEF PatchDelete
<1> DEFINE e == [f \in Files |-> IF f \in cut THEN <<>> ELSE db.emb[f]]
<1>1. an' = [an EXCEPT !.pc = "insert", !.touched = TRUE]
  BY DEF PatchDelete
<1>2. an \in Analyses /\ "insert" \in Steps
  BY DEF Types, Steps, PatchSteps
<1>3. Continues("insert", an.scan, an.cached, TRUE)
  BY <1>1, <1>2, SteppedTouching DEF Continues
<1>4. db \in Databases /\ db.rows \in Tables /\ db.emb \in VectorTables
  BY DatabaseFields DEF Types
<1>5. db' = [db EXCEPT !.rows = r, !.emb = e]
  BY <1>0
<1>6. r \in Tables /\ e \in VectorTables
  BY <1>4, TablesMix, VectorsMix
<1>7. ReplaceAll(an.plan) \/ cut = old
  BY <1>0
<1> HIDE DEF r, e
<1>8. Writes(db.there, r, db.layers, e)
  BY <1>4, <1>5, <1>6 DEF Writes, Databases
<1> QED BY <1>3, <1>7, <1>8 DEF r, e

(* The patch: rows come. *)
LEMMA PatchInsertDoes ==
  ASSUME Types, PatchInsert
  PROVE  /\ Continues("layers", an.scan, an.cached, an.touched)
         /\ Writes(db.there,
                   [f \in Files |-> IF f \in CurrentPaths(an.plan) THEN an.scan[f] ELSE db.rows[f]],
                   db.layers, db.emb)
<1> DEFINE r == [f \in Files |-> IF f \in CurrentPaths(an.plan) THEN an.scan[f] ELSE db.rows[f]]
<1>1. an' = [an EXCEPT !.pc = "layers"]
  BY DEF PatchInsert, Goto
<1>2. an \in Analyses /\ "layers" \in Steps
  BY DEF Types, Steps, PatchSteps
<1>3. Continues("layers", an.scan, an.cached, an.touched)
  BY <1>1, <1>2, Stepped DEF Continues
<1>4. db \in Databases /\ db.rows \in Tables /\ an.scan \in Tables
  BY DatabaseFields, AnalyzeFields DEF Types
<1>5. db' = [db EXCEPT !.rows = r]
  BY DEF PatchInsert
<1>6. r \in Tables
  BY <1>4, TablesMix
<1> HIDE DEF r
<1>7. Writes(db.there, r, db.layers, db.emb)
  BY <1>4, <1>5, <1>6 DEF Writes, Databases
<1> QED BY <1>3, <1>7 DEF r

(* The patch: layers. *)
LEMMA PatchLayersDoes ==
  ASSUME Types, PatchLayers
  PROVE  /\ Continues("embed", an.scan, an.cached, an.touched)
         /\ Writes(db.there, db.rows, db.rows, db.emb)
<1>1. an' = [an EXCEPT !.pc = "embed"]
  BY DEF PatchLayers, Goto
<1>2. an \in Analyses /\ "embed" \in Steps
  BY DEF Types, Steps, EmbedSteps
<1>3. Continues("embed", an.scan, an.cached, an.touched)
  BY <1>1, <1>2, Stepped DEF Continues
<1>4. db \in Databases /\ db.rows \in Tables /\ db.emb \in VectorTables
  BY DatabaseFields DEF Types
<1>5. db' = [db EXCEPT !.layers = db.rows]
  BY DEF PatchLayers
<1>6. Writes(db.there, db.rows, db.rows, db.emb)
  BY <1>4, <1>5 DEF Writes, Databases
<1> QED BY <1>3, <1>6

(* The fallback, out of a patch or because the name is taken. *)
LEMMA RebuildDoes ==
  ASSUME Types, Rebuild
  PROVE  /\ an' \in Analyses
         /\ an'.pc = "cache" /\ an'.how = "rebuild"
         /\ an'.commit = an.commit /\ an'.old = an.old /\ an'.opt = an.opt
         /\ an'.plan = an.plan /\ an'.cached = NoVectors /\ an'.touched = an.touched
BY Rebuilds DEF Types, Rebuild

(* The rebuild: the cache of embeddings. *)
LEMMA CacheVectorsDoes ==
  ASSUME Types, CacheVectors
  PROVE  /\ Continues("pipeline", an.scan, db.emb, an.touched \/ ~db.there)
         /\ Writes(TRUE, db.rows, db.layers, db.emb)
<1>1. PICK t \in BOOLEAN : t = (an.touched \/ ~db.there)
  OBVIOUS
<1>2. an' = [an EXCEPT !.pc = "pipeline", !.cached = db.emb, !.touched = t]
  BY <1>1 DEF CacheVectors
<1>3. an \in Analyses /\ "pipeline" \in Steps /\ db \in Databases /\ db.emb \in VectorTables
  BY DatabaseFields DEF Types, Steps, RebuildSteps
<1>4. Continues("pipeline", an.scan, db.emb, t)
  <2>1. PICK e \in VectorTables : e = db.emb
    BY <1>3
  <2>2. an' = [an EXCEPT !.pc = "pipeline", !.cached = e, !.touched = t]
    BY <1>2, <2>1
  <2>3. Continues("pipeline", an.scan, e, t)
    BY <1>3, <2>2 DEF Analyses, Continues
  <2> QED BY <2>1, <2>3
<1>5. db' = [db EXCEPT !.there = TRUE]
  BY DEF CacheVectors
<1>6. Writes(TRUE, db.rows, db.layers, db.emb)
  BY <1>3, <1>5 DEF Writes, Databases
<1> QED BY <1>1, <1>4, <1>6

(* The rebuild: nothing to cache. *)
LEMMA CacheNothingDoes ==
  ASSUME Types, CacheNothing
  PROVE  Continues("pipeline", an.scan, an.cached, an.touched)
<1>1. an' = [an EXCEPT !.pc = "pipeline"]
  BY DEF CacheNothing, Goto
<1>2. an \in Analyses /\ "pipeline" \in Steps
  BY DEF Types, Steps, RebuildSteps
<1> QED BY <1>1, <1>2, Stepped DEF Continues

(* The rebuild: the old database goes. *)
LEMMA WipeDoes ==
  ASSUME Types, Wipe
  PROVE  Continues("create", an.scan, an.cached, TRUE)
<1>1. an' = [an EXCEPT !.pc = "create", !.touched = TRUE]
  BY DEF Wipe
<1>2. an \in Analyses /\ "create" \in Steps
  BY DEF Types, Steps, RebuildSteps
<1> QED BY <1>1, <1>2, SteppedTouching DEF Continues

(* The rebuild: a new one. *)
LEMMA CreateDoes ==
  ASSUME Types, Create
  PROVE  Continues("load", an.scan, an.cached, an.touched)
<1>1. an' = [an EXCEPT !.pc = "load"]
  BY DEF Create, Goto
<1>2. an \in Analyses /\ "load" \in Steps
  BY DEF Types, Steps, RebuildSteps
<1> QED BY <1>1, <1>2, Stepped DEF Continues

(* The rebuild: the rows. *)
LEMMA LoadDoes ==
  ASSUME Types, Load
  PROVE  /\ Continues("restore", an.scan, an.cached, an.touched)
         /\ Writes(db.there, an.scan, an.scan, db.emb)
<1>1. an' = [an EXCEPT !.pc = "restore"]
  BY DEF Load, Goto
<1>2. an \in Analyses /\ "restore" \in Steps
  BY DEF Types, Steps, RebuildSteps
<1>3. Continues("restore", an.scan, an.cached, an.touched)
  BY <1>1, <1>2, Stepped DEF Continues
<1>4. db \in Databases /\ an.scan \in Tables /\ db.emb \in VectorTables
  BY DatabaseFields, AnalyzeFields DEF Types
<1>5. db' = [db EXCEPT !.rows = an.scan, !.layers = an.scan]
  BY DEF Load
<1>6. Writes(db.there, an.scan, an.scan, db.emb)
  BY <1>4, <1>5 DEF Writes, Databases
<1> QED BY <1>3, <1>6

(* The rebuild: cached embeddings, or none and an empty cache. *)
LEMMA RestoreDoes ==
  ASSUME Types, Restore
  PROVE  /\ Continues("embed", an.scan, an'.cached, an.touched)
         /\ Writes(db.there, db.rows, db.layers, db'.emb)
         /\ db.emb = NoVectors => \A f \in Files : db'.emb[f] \in {<<>>, an'.cached[f]}
<1>1. an \in Analyses /\ "embed" \in Steps
  BY DEF Types, Steps, EmbedSteps
<1>2. db \in Databases /\ an.cached \in VectorTables
  BY DatabaseFields, AnalyzeFields DEF Types
<1>3. CASE \E S \in SUBSET Files :
             /\ db' = [db EXCEPT !.emb = [f \in Files |-> IF f \in S THEN an.cached[f] ELSE <<>>]]
             /\ Goto("embed")
  <2>1. PICK S \in SUBSET Files :
          /\ db' = [db EXCEPT !.emb = [f \in Files |-> IF f \in S THEN an.cached[f] ELSE <<>>]]
          /\ Goto("embed")
    BY <1>3
  <2> DEFINE e == [f \in Files |-> IF f \in S THEN an.cached[f] ELSE <<>>]
  <2>2. e \in VectorTables
    BY <1>2 DEF VectorTables, Vector
  <2>3. db' = [db EXCEPT !.emb = e]
    BY <2>1
  <2>4. \A f \in Files : e[f] \in {<<>>, an.cached[f]}
    OBVIOUS
  <2> HIDE DEF e
  <2>5. db'.emb = e /\ Writes(db.there, db.rows, db.layers, e)
    BY <1>2, <2>2, <2>3 DEF Writes, Databases
  <2>6. Continues("embed", an.scan, an.cached, an.touched)
    BY <1>1, <2>1, Stepped DEF Continues, Goto
  <2> QED BY <2>4, <2>5, <2>6 DEF Continues
<1>4. CASE an' = [an EXCEPT !.pc = "embed", !.cached = NoVectors] /\ db' = db
  <2>1. Continues("embed", an.scan, NoVectors, an.touched)
    BY <1>1, <1>4, NoVectorsIsTable, SteppedCaching DEF Continues
  <2>2. Writes(db.there, db.rows, db.layers, db'.emb)
    BY <1>2, <1>4 DEF Writes
  <2> QED BY <1>4, <2>1, <2>2 DEF Continues, NoVectors
<1> QED BY <1>3, <1>4 DEF Restore

(* The embedding run: it is skipped, it begins, it ends. *)
LEMMA SkipEmbeddingsDoes ==
  ASSUME Types, SkipEmbeddings
  PROVE  Continues("save", an.scan, an.cached, an.touched)
<1>1. an \in Analyses /\ "save" \in Steps
  BY DEF Types, Steps
<1> QED BY <1>1, Stepped DEF Continues, SkipEmbeddings, Goto

LEMMA BeginEmbeddingsDoes ==
  ASSUME Types, BeginEmbeddings
  PROVE  Continues("embedding", an.scan, IF an.how = "patch" THEN db.emb ELSE an.cached, an.touched)
<1> DEFINE e == IF an.how = "patch" THEN db.emb ELSE an.cached
<1>1. an \in Analyses /\ "embedding" \in Steps
  BY DEF Types, Steps, EmbedSteps
<1>2. e \in VectorTables
  BY DatabaseFields, AnalyzeFields DEF Types
<1>3. an' = [an EXCEPT !.pc = "embedding", !.cached = e]
  BY DEF BeginEmbeddings
<1> HIDE DEF e
<1>4. Continues("embedding", an.scan, e, an.touched)
  BY <1>1, <1>2, <1>3, SteppedCaching DEF Continues
<1> QED BY <1>4 DEF e

LEMMA EmbeddingsDoneDoes ==
  ASSUME Types, EmbeddingsDone
  PROVE  Continues("save", an.scan, an.cached, an.touched)
<1>1. an \in Analyses /\ "save" \in Steps
  BY DEF Types, Steps
<1> QED BY <1>1, Stepped DEF Continues, EmbeddingsDone, Goto

(* The embedding run: one file. *)
LEMMA DropVectorDoes ==
  ASSUME Types, NEW f \in Files, DropVector(f)
  PROVE  Writes(db.there, db.rows, db.layers, [db.emb EXCEPT ![f] = <<>>])
<1>1. db \in Databases /\ db.emb \in VectorTables
  BY DatabaseFields DEF Types
<1> DEFINE e == [db.emb EXCEPT ![f] = <<>>]
<1>2. e \in VectorTables
  BY <1>1 DEF VectorTables, Vector
<1>3. db' = [db EXCEPT !.emb = e]
  BY DEF DropVector, SetVector
<1> HIDE DEF e
<1>4. Writes(db.there, db.rows, db.layers, e)
  BY <1>1, <1>2, <1>3 DEF Writes, Databases
<1> QED BY <1>4 DEF e

LEMMA EmbedDoes ==
  ASSUME Types, NEW f \in Files, Embed(f)
  PROVE  Writes(db.there, db.rows, db.layers, [db.emb EXCEPT ![f] = Text(db.rows, f)])
<1>1. db \in Databases /\ db.rows \in Tables /\ db.emb \in VectorTables
  BY DatabaseFields DEF Types
<1>2. Text(db.rows, f) \in Vector /\ (Class[f] # "code" => Text(db.rows, f) = <<>>)
  BY <1>1, Texts
<1> DEFINE t == Text(db.rows, f)
           e == [db.emb EXCEPT ![f] = t]
<1>3. db' = [db EXCEPT !.emb = e]
  BY DEF Embed, SetVector
<1> HIDE DEF t
<1>4. e \in VectorTables
  BY <1>1, <1>2 DEF VectorTables, t
<1> HIDE DEF e
<1>5. Writes(db.there, db.rows, db.layers, e)
  BY <1>1, <1>3, <1>4 DEF Writes, Databases
<1> QED BY <1>5 DEF e, t

(* The end: meta.json, with the next stamp. *)
LEMMA SaveMetaDoes ==
  ASSUME Types, Control, SaveMeta
  PROVE  /\ Continues("register", an.scan, an.cached, FALSE)
         /\ clock' = clock + 1 /\ clock' \in Nat
         /\ meta' \in Metas /\ meta'.there = TRUE
         /\ meta'.commit = an.commit /\ meta'.stamp = clock'
<1>1. an' = [an EXCEPT !.pc = "register", !.touched = FALSE]
  BY DEF SaveMeta
<1>2. an \in Analyses /\ "register" \in Steps
  BY DEF Types, Steps
<1>3. Continues("register", an.scan, an.cached, FALSE)
  BY <1>1, <1>2, SteppedTouching DEF Continues
<1>4. clock' = clock + 1 /\ clock' \in Nat
  BY DEF SaveMeta, Types
<1>5. PICK v \in BOOLEAN, n \in Counts : meta' = Meta(an.commit, clock', v, n)
  <2>1. CASE an.how = "reuse"
    <3>1. meta' = Meta(an.commit, clock', an.old.vectors, an.old.nodes)
      BY <2>1 DEF SaveMeta
    <3>2. meta.there /\ an.old = meta /\ meta \in Metas
      BY <2>1, MetaFields DEF SaveMeta, Control, Types
    <3>3. an.old.vectors \in BOOLEAN /\ an.old.nodes \in Counts
      BY <3>2, MetaFields
    <3> QED BY <3>1, <3>3
  <2>2. CASE an.how # "reuse"
    <3>1. meta' = Meta(an.commit, clock', HasVectors, Nodes(db))
      BY <2>2 DEF SaveMeta
    <3>2. HasVectors \in BOOLEAN /\ Nodes(db) \in Counts
      BY NodesCounted DEF HasVectors
    <3> QED BY <3>1, <3>2
  <2> QED BY <2>1, <2>2
<1>6. an.commit \in Commits
  BY AnalyzeFields
<1>7. meta' \in Metas
  BY <1>4, <1>5, <1>6 DEF Metas
<1>8. meta'.commit = an.commit /\ meta'.stamp = clock' /\ meta'.there = TRUE
  BY <1>5 DEF Meta
<1> QED BY <1>3, <1>4, <1>7, <1>8

(* The beginning of an analyze that has something to do. *)
Begun(how, pc, plan, opt) ==
  /\ an' \in Analyses
  /\ an'.pc = pc /\ an'.how = how /\ an'.commit = head /\ an'.old = meta
  /\ an'.opt = opt /\ an'.plan = plan /\ an'.cached = NoVectors /\ an'.touched = FALSE

(* Its three ways have this in common. *)
LEMMA BeginDoes ==
  ASSUME Types, NEW opt \in Options, NEW how \in {"reuse", "patch", "rebuild"},
         NEW pc \in Steps, NEW plan \in Plans, Begin(opt, how, pc, plan)
  PROVE  Begun(how, pc, plan, opt)
<1>1. opt \in OptionSpace
  BY OptionAssumption DEF OptionSpace
<1>2. head \in Commits /\ meta \in Metas \cup {NoMeta} /\ Commits # {}
  BY DEF Types
<1> DEFINE x == Idle(FALSE)
<1>3. x \in Analyses /\ x.touched = FALSE /\ x.cached = NoVectors
  BY <1>2, IdleIsAnalyze
<1>4. an' = [x EXCEPT !.pc = pc, !.how = how, !.commit = head, !.old = meta,
                      !.opt = opt, !.plan = plan]
  BY DEF Begin
<1> HIDE DEF x
<1> QED BY <1>1, <1>2, <1>3, <1>4 DEF Analyses, Begun

(* Reuse. *)
LEMMA BeginReuseDoes ==
  ASSUME Types, NEW opt \in Options, BeginReuse(opt)
  PROVE  Begun("reuse", "save", {}, opt)
<1>1. "save" \in Steps /\ {} \in Plans
  BY PlansOfCommits DEF Steps
<1> QED BY <1>1, BeginDoes DEF BeginReuse

(* An index that can be reused or patched is there. *)
LEMMA UsableIndex ==
  ASSUME Types, NEW opt, Usable(opt)
  PROVE  meta.there /\ db.there /\ meta \in Metas /\ meta.commit \in Commits
BY MetaFields DEF Types, Usable

(* Patch. *)
LEMMA BeginPatchDoes ==
  ASSUME Types, NEW opt \in Options, BeginPatch(opt)
  PROVE  Begun("patch", "patch", Relevant[meta.commit][head], opt)
<1> DEFINE C == Relevant[meta.commit][head]
<1>1. head \in Commits /\ meta.commit \in Commits
  BY UsableIndex DEF BeginPatch, Types
<1>2. "patch" \in Steps /\ C \in Plans
  BY <1>1, PlansOfCommits DEF Steps, PatchSteps
<1>3. Begin(opt, "patch", "patch", C)
  BY DEF BeginPatch
<1> HIDE DEF C
<1>4. Begun("patch", "patch", C, opt)
  BY <1>2, <1>3, BeginDoes
<1> QED BY <1>4 DEF C

(* Rebuild. *)
LEMMA BeginRebuildDoes ==
  ASSUME Types, NEW opt \in Options, BeginRebuild(opt)
  PROVE  Begun("rebuild", "cache", {}, opt)
<1>1. "cache" \in Steps /\ {} \in Plans
  BY PlansOfCommits DEF Steps, RebuildSteps
<1> QED BY <1>1, BeginDoes DEF BeginRebuild

(* Others that write the database: each file keeps its embedding, loses one that is
   astray or gets the right one. *)
LEMMA EmbedJobDoes ==
  ASSUME Types, EmbedJob
  PROVE  /\ Writes(db.there, db.rows, db.layers, db'.emb)
         /\ \A f \in Files : db'.emb[f] \in {<<>>, db.emb[f], Text(db.rows, f)}
<1>1. PICK D \in SUBSET StaleFiles, S \in SUBSET {f \in Files : Text(db.rows, f) # <<>>} :
        /\ S # {} => D = StaleFiles
        /\ db' = [db EXCEPT !.emb = [f \in Files |-> IF f \in S THEN Text(db.rows, f)
                                                     ELSE IF f \in D THEN <<>> ELSE @[f]]]
  BY DEF EmbedJob
<1> DEFINE e == [f \in Files |-> IF f \in S THEN Text(db.rows, f)
                                 ELSE IF f \in D THEN <<>> ELSE db.emb[f]]
<1>2. db \in Databases /\ db.rows \in Tables /\ db.emb \in VectorTables
  BY DatabaseFields DEF Types
<1>3. \A f \in Files : /\ Text(db.rows, f) \in Vector
                       /\ Class[f] # "code" => Text(db.rows, f) = <<>>
  BY <1>2, Texts
<1>4. \A f \in Files : e[f] \in {<<>>, db.emb[f], Text(db.rows, f)}
  OBVIOUS
<1>5. e \in VectorTables
  <2>1. e = [f \in Files |-> e[f]]
    OBVIOUS
  <2> HIDE DEF e
  <2>2. \A f \in Files : e[f] \in Vector /\ (Class[f] # "code" => e[f] = <<>>)
    BY <1>2, <1>3, <1>4 DEF VectorTables, Vector
  <2> QED BY <2>1, <2>2 DEF VectorTables
<1>6. db' = [db EXCEPT !.emb = e]
  BY <1>1
<1> HIDE DEF e
<1>7. db'.emb = e /\ Writes(db.there, db.rows, db.layers, e)
  BY <1>2, <1>5, <1>6 DEF Writes, Databases
<1> QED BY <1>4, <1>7

(* The database that checkout --materialize leaves has no embeddings. *)
LEMMA MaterializeDoes ==
  ASSUME Types, NEW c \in Commits, Materialize(c)
  PROVE  /\ db' \in Databases /\ db'.emb = NoVectors
         /\ ~db'.there => db' = NoDb
<1>1. RowsAt[c] \in Tables
  BY RowsAtTables
<1>2. [EmptyDb EXCEPT !.rows = RowsAt[c], !.layers = RowsAt[c]] \in Databases
  BY <1>1, NoDbIsDatabase, DatabaseWith, NoVectorsIsTable
<1>3. /\ [EmptyDb EXCEPT !.rows = RowsAt[c], !.layers = RowsAt[c]].there = TRUE
      /\ [EmptyDb EXCEPT !.rows = RowsAt[c], !.layers = RowsAt[c]].emb = NoVectors
  BY DEF EmptyDb, NoDb
<1>4. NoDb.emb = NoVectors /\ EmptyDb.emb = NoVectors /\ EmptyDb.there = TRUE
  BY DEF EmptyDb, NoDb
<1> QED BY <1>2, <1>3, <1>4, NoDbIsDatabase DEF Materialize
-----------------------------------------------------------------------------
(***************************************************************************)
(* Types, stamps and control are kept by every step.                       *)
(***************************************************************************)

(* What the pool reads. *)
LEMMA ViewIsTyped ==
  ASSUME Types
  PROVE  ViewOf(db) \in Views /\ NoView \in Views
BY DatabaseFields, NothingIsTable DEF Types, ViewOf, NoView, Views

(* The empty database is there, and has no embeddings. *)
LEMMA EmptyDbThere == EmptyDb.there = TRUE /\ EmptyDb.emb = NoVectors /\ NoDb.there = FALSE
BY DEF EmptyDb, NoDb

(* The parts of a registry entry. *)
LEMMA EntryFields ==
  /\ \A r \in Entries : r.there = TRUE /\ r.stamp \in Nat /\ r.commit \in Commits
  /\ NoEntry.there = FALSE
BY DEF Entries, NoEntry

(* Every step keeps the types. *)
LEMMA TypesNext ==
  ASSUME Types, Control, [Next]_vars
  PROVE  Types'
<1>1. ASSUME NEW opt \in Options, UpToDate(opt)
      PROVE  Types'
  BY <1>1, Finished DEF Types, Ends, UpToDate, disk, backend
<1>2. ASSUME NEW opt \in Options, BeginReuse(opt)
      PROVE  Types'
  BY <1>2, BeginReuseDoes DEF Types, Begun, BeginReuse, Begin, disk, backend
<1>3. ASSUME NEW opt \in Options, BeginPatch(opt)
      PROVE  Types'
  BY <1>3, BeginPatchDoes DEF Types, Begun, BeginPatch, Begin, disk, backend
<1>4. ASSUME NEW opt \in Options, BeginRebuild(opt)
      PROVE  Types'
  BY <1>4, BeginRebuildDoes DEF Types, Begun, BeginRebuild, Begin, disk, backend
<1>5. CASE PatchScan
  BY <1>5, PatchScanDoes DEF Types, Continues, PatchScan, disk, backend
<1>6. CASE PatchDelete
  BY <1>6, PatchDeleteDoes DEF Types, Continues, Writes, PatchDelete, backend, Control, PatchSteps
<1>7. CASE PatchInsert
  BY <1>7, PatchInsertDoes DEF Types, Continues, Writes, PatchInsert, backend, Control, PatchSteps
<1>8. CASE PatchLayers
  BY <1>8, PatchLayersDoes DEF Types, Continues, Writes, PatchLayers, backend, Control, PatchSteps
<1>9. CASE PatchFails
  BY <1>9, RebuildDoes DEF Types, PatchFails, disk, backend
<1>10. CASE CacheVectors
  BY <1>10, CacheVectorsDoes DEF Types, Continues, Writes, CacheVectors, backend
<1>11. CASE CacheNothing
  BY <1>11, CacheNothingDoes DEF Types, Continues, CacheNothing, disk, backend
<1>12. CASE Pipeline
  BY <1>12, PipelineDoes DEF Types, Continues, Pipeline, disk, backend
<1>13. CASE Wipe
  BY <1>13, WipeDoes, NoDbIsDatabase DEF Types, Continues, Wipe, backend
<1>14. CASE Create
  BY <1>14, CreateDoes, NoDbIsDatabase, EmptyDbThere DEF Types, Continues, Create, backend
<1>15. CASE Load
  BY <1>15, LoadDoes DEF Types, Continues, Writes, Load, backend, Control, PatchSteps
<1>16. CASE Restore
  BY <1>16, RestoreDoes DEF Types, Continues, Writes, Restore, backend, Control
<1>17. CASE SaveMeta
  BY <1>17, SaveMetaDoes DEF Types, Continues, SaveMeta, backend
<1>18. CASE Register
  <2>1. Ends
    BY <1>18, Finished DEF Register
  <2>2. registry' \in Entries
    BY <1>18, MetaFields DEF Register, Control, Types, Entry, Entries
  <2> QED BY <1>18, <2>1, <2>2 DEF Types, Ends, Register, backend
<1>19. CASE NameTaken
  BY <1>19, RebuildDoes, Finished DEF Types, Ends, NameTaken, disk, backend
<1>20. CASE Dies
  <2>1. Ends
    BY <1>20, Finished DEF Dies
  <2>2. meta' \in Metas \cup {NoMeta} /\ registry' \in Entries \cup {NoEntry}
    BY <1>20 DEF Dies, Types
  <2>3. damaged' \in BOOLEAN
    BY <1>20 DEF Dies
  <2> QED BY <1>20, <2>1, <2>2, <2>3 DEF Types, Ends, Dies, backend
<1>21. CASE RefreshRepos
  <2>1. registry' \in Entries \cup {NoEntry}
    BY <1>21 DEF RefreshRepos, Types
  <2>2. handle' \in Nat
    BY <1>21, <2>1, EntryFields DEF RefreshRepos
  <2>3. view' \in Views
    <3>1. PICK t \in BOOLEAN : t = (view.reread \/ (view.open /\ handle' # handle))
      OBVIOUS
    <3>2. view' = [view EXCEPT !.reread = t]
      BY <1>21, <3>1 DEF RefreshRepos
    <3> QED BY <3>2 DEF Types, Views
  <2> QED BY <1>21, <2>1, <2>2, <2>3 DEF Types, RefreshRepos
<1>22. CASE OpenPool
  BY <1>22, ViewIsTyped DEF Types, OpenPool, disk
<1>23. CASE StalePool
  BY <1>23, ViewIsTyped, MetaFields DEF Types, StalePool, disk
<1>24. CASE IdlePool
  BY <1>24, ViewIsTyped DEF Types, IdlePool, disk
<1>25. ASSUME NEW c \in Commits, UserMoves(c)
      PROVE  Types'
  BY <1>25 DEF Types, UserMoves, disk, backend
<1>26. ASSUME NEW c \in Commits, Materialize(c)
      PROVE  Types'
  BY <1>26, MaterializeDoes DEF Types, Materialize, backend
<1>27. CASE EmbedJob
  BY <1>27, EmbedJobDoes DEF Types, Writes, EmbedJob, backend
<1>28. CASE Clean
  BY <1>28, NoDbIsDatabase DEF Types, Clean, backend
<1>29. CASE UNCHANGED vars
  BY <1>29 DEF Types, vars
<1>30. CASE SkipEmbeddings
  BY <1>30, SkipEmbeddingsDoes DEF Types, Continues, SkipEmbeddings, disk, backend
<1>31. CASE BeginEmbeddings
  BY <1>31, BeginEmbeddingsDoes DEF Types, Continues, BeginEmbeddings, disk, backend
<1>32. CASE EmbeddingsDone
  BY <1>32, EmbeddingsDoneDoes DEF Types, Continues, EmbeddingsDone, disk, backend
<1>33. ASSUME NEW f \in Files, DropVector(f)
      PROVE  Types'
  BY <1>33, DropVectorDoes DEF Types, Writes, DropVector, SetVector, backend, Control, EmbedSteps
<1>34. ASSUME NEW f \in Files, Embed(f)
      PROVE  Types'
  BY <1>34, EmbedDoes DEF Types, Writes, Embed, SetVector, backend, Control, EmbedSteps
<1> QED
  BY <1>1, <1>2, <1>3, <1>4, <1>5, <1>6, <1>7, <1>8, <1>9, <1>10, <1>11, <1>12,
     <1>13, <1>14, <1>15, <1>16, <1>17, <1>18, <1>19, <1>20, <1>21, <1>22, <1>23,
     <1>24, <1>25, <1>26, <1>27, <1>28, <1>29, <1>30, <1>31, <1>32, <1>33, <1>34,
     OptionAssumption DEF Next, Analyze, Backend

(* The bound on stamps. *)
LEMMA BoundIsNat == MaxStamps \in Nat
BY OptionAssumption

(* Every step keeps the stamps in order. *)
LEMMA StampedNext ==
  ASSUME Types, Control, Stamped, [Next]_vars
  PROVE  Stamped'
<1>1. ASSUME NEW opt \in Options, UpToDate(opt)
      PROVE  Stamped'
  BY <1>1, Finished DEF Stamped, Ends, UpToDate, disk, backend
<1>2. ASSUME NEW opt \in Options, BeginReuse(opt)
      PROVE  Stamped'
  <2>1. an'.pc = "save" /\ an'.how = "reuse"
    BY <1>2, BeginReuseDoes DEF Begun
  <2>2. clock < MaxStamps /\ clock \in Nat /\ MaxStamps \in Nat
    BY <1>2, BoundIsNat DEF BeginReuse, Begin, Types
  <2>3. UNCHANGED <<disk, backend>>
    BY <1>2 DEF BeginReuse, Begin
  <2> QED BY <2>1, <2>2, <2>3 DEF Stamped, disk, backend
<1>3. ASSUME NEW opt \in Options, BeginPatch(opt)
      PROVE  Stamped'
  <2>1. an'.pc = "patch" /\ an'.how = "patch"
    BY <1>3, BeginPatchDoes DEF Begun
  <2>2. clock < MaxStamps /\ clock \in Nat /\ MaxStamps \in Nat
    BY <1>3, BoundIsNat DEF BeginPatch, Begin, Types
  <2>3. UNCHANGED <<disk, backend>>
    BY <1>3 DEF BeginPatch, Begin
  <2> QED BY <2>1, <2>2, <2>3 DEF Stamped, disk, backend
<1>4. ASSUME NEW opt \in Options, BeginRebuild(opt)
      PROVE  Stamped'
  <2>1. an'.pc = "cache" /\ an'.how = "rebuild"
    BY <1>4, BeginRebuildDoes DEF Begun
  <2>2. clock < MaxStamps /\ clock \in Nat /\ MaxStamps \in Nat
    BY <1>4, BoundIsNat DEF BeginRebuild, Begin, Types
  <2>3. UNCHANGED <<disk, backend>>
    BY <1>4 DEF BeginRebuild, Begin
  <2> QED BY <2>1, <2>2, <2>3 DEF Stamped, disk, backend
<1>5. CASE PatchScan
  BY <1>5, PatchScanDoes DEF Stamped, Types, Control, Continues, PatchScan, PatchSteps, RebuildSteps, EmbedSteps, disk, backend
<1>6. CASE PatchDelete
  BY <1>6, PatchDeleteDoes DEF Stamped, Types, Control, Continues, PatchDelete, PatchSteps, RebuildSteps, EmbedSteps, disk, backend
<1>7. CASE PatchInsert
  BY <1>7, PatchInsertDoes DEF Stamped, Types, Control, Continues, PatchInsert, PatchSteps, RebuildSteps, EmbedSteps, disk, backend
<1>8. CASE PatchLayers
  BY <1>8, PatchLayersDoes DEF Stamped, Types, Control, Continues, PatchLayers, PatchSteps, RebuildSteps, EmbedSteps, disk, backend
<1>9. CASE PatchFails
  BY <1>9, RebuildDoes DEF Stamped, Types, Control, PatchFails, PatchSteps, EmbedSteps, disk, backend
<1>10. CASE CacheVectors
  BY <1>10, CacheVectorsDoes DEF Stamped, Types, Control, Continues, CacheVectors, PatchSteps, RebuildSteps, EmbedSteps, disk, backend
<1>11. CASE CacheNothing
  BY <1>11, CacheNothingDoes DEF Stamped, Types, Control, Continues, CacheNothing, PatchSteps, RebuildSteps, EmbedSteps, disk, backend
<1>12. CASE Pipeline
  BY <1>12, PipelineDoes DEF Stamped, Types, Control, Continues, Pipeline, PatchSteps, RebuildSteps, EmbedSteps, disk, backend
<1>13. CASE Wipe
  BY <1>13, WipeDoes DEF Stamped, Types, Control, Continues, Wipe, PatchSteps, RebuildSteps, EmbedSteps, disk, backend
<1>14. CASE Create
  BY <1>14, CreateDoes DEF Stamped, Types, Control, Continues, Create, PatchSteps, RebuildSteps, EmbedSteps, disk, backend
<1>15. CASE Load
  BY <1>15, LoadDoes DEF Stamped, Types, Control, Continues, Load, PatchSteps, RebuildSteps, EmbedSteps, disk, backend
<1>16. CASE Restore
  BY <1>16, RestoreDoes DEF Stamped, Types, Control, Continues, PatchSteps, RebuildSteps, EmbedSteps, Restore, backend
<1>17. CASE SaveMeta
  <2>1. /\ an'.pc = "register" /\ an'.how = an.how
        /\ clock' = clock + 1 /\ meta'.stamp = clock'
    BY <1>17, SaveMetaDoes DEF Continues
  <2>2. an.pc = "save" /\ UNCHANGED <<registry, handle>>
    BY <1>17 DEF SaveMeta, backend
  <2>3. clock \in Nat /\ MaxStamps \in Nat /\ handle \in Nat
    BY BoundIsNat DEF Types
  <2>4. clock <= MaxStamps /\ (an.how = "patch" => clock < MaxStamps)
    BY <2>2 DEF Stamped
  <2> QED BY <2>1, <2>2, <2>3, <2>4 DEF Stamped
<1>18. CASE Register
  <2>1. Ends
    BY <1>18, Finished DEF Register
  <2>2. meta.there
    BY <1>18 DEF Register, Control
  <2>3. registry'.stamp = meta.stamp
    BY <1>18 DEF Register, Entry
  <2> QED BY <1>18, <2>1, <2>2, <2>3 DEF Stamped, Types, Ends, Register, backend
<1>19. CASE NameTaken
  BY <1>19, RebuildDoes, Finished DEF Stamped, Types, Ends, NameTaken, disk, backend
<1>20. CASE Dies
  <2>1. Ends
    BY <1>20, Finished DEF Dies
  <2>2. meta'.there => meta' = meta
    BY <1>20, MetaFields DEF Dies
  <2>3. registry'.there => registry' = registry
    BY <1>20, EntryFields DEF Dies
  <2> QED BY <1>20, <2>1, <2>2, <2>3 DEF Stamped, Types, Ends, Dies, backend
<1>21. CASE RefreshRepos
  <2>1. registry'.there => registry' = registry
    BY <1>21, EntryFields DEF RefreshRepos
  <2>2. handle' <= clock
    BY <1>21, <2>1 DEF RefreshRepos, Stamped, Types
  <2> QED BY <1>21, <2>1, <2>2 DEF Stamped, Types, RefreshRepos
<1>22. CASE OpenPool
  BY <1>22 DEF Stamped, Types, OpenPool, disk
<1>23. CASE StalePool
  BY <1>23 DEF Stamped, Types, StalePool, disk
<1>24. CASE IdlePool
  BY <1>24 DEF Stamped, Types, IdlePool, disk
<1>25. ASSUME NEW c \in Commits, UserMoves(c)
      PROVE  Stamped'
  BY <1>25 DEF Stamped, UserMoves, disk, backend
<1>26. ASSUME NEW c \in Commits, Materialize(c)
      PROVE  Stamped'
  BY <1>26 DEF Stamped, Materialize, backend
<1>27. CASE EmbedJob
  BY <1>27 DEF Stamped, EmbedJob, backend
<1>28. CASE Clean
  <2>1. meta'.there = FALSE /\ (registry'.there => registry' = registry)
    BY <1>28, MetaFields, EntryFields DEF Clean
  <2> QED BY <1>28, <2>1 DEF Stamped, Types, Clean, backend
<1>29. CASE UNCHANGED vars
  BY <1>29 DEF Stamped, vars
<1>30. CASE SkipEmbeddings
  BY <1>30, SkipEmbeddingsDoes DEF Stamped, Types, Control, Continues, PatchSteps, RebuildSteps, EmbedSteps, SkipEmbeddings, disk, backend
<1>31. CASE BeginEmbeddings
  BY <1>31, BeginEmbeddingsDoes DEF Stamped, Types, Control, Continues, PatchSteps, RebuildSteps, EmbedSteps, BeginEmbeddings, disk, backend
<1>32. CASE EmbeddingsDone
  BY <1>32, EmbeddingsDoneDoes DEF Stamped, Types, Control, Continues, PatchSteps, RebuildSteps, EmbedSteps, EmbeddingsDone, disk, backend
<1>33. ASSUME NEW f \in Files, DropVector(f)
      PROVE  Stamped'
  BY <1>33 DEF Stamped, DropVector, SetVector, backend
<1>34. ASSUME NEW f \in Files, Embed(f)
      PROVE  Stamped'
  BY <1>34 DEF Stamped, Embed, SetVector, backend
<1> QED
  BY <1>1, <1>2, <1>3, <1>4, <1>5, <1>6, <1>7, <1>8, <1>9, <1>10, <1>11, <1>12,
     <1>13, <1>14, <1>15, <1>16, <1>17, <1>18, <1>19, <1>20, <1>21, <1>22, <1>23,
     <1>24, <1>25, <1>26, <1>27, <1>28, <1>29, <1>30, <1>31, <1>32, <1>33, <1>34,
     OptionAssumption DEF Next, Analyze, Backend

(* Every step leads to what is known at the next. *)
LEMMA ControlNext ==
  ASSUME Types, Control, [Next]_vars
  PROVE  Control'
<1>1. ASSUME NEW opt \in Options, UpToDate(opt)
      PROVE  Control'
  BY <1>1, Finished DEF Control, PatchSteps, RebuildSteps, EmbedSteps, Ends, UpToDate, disk, backend
<1>2. ASSUME NEW opt \in Options, BeginReuse(opt)
      PROVE  Control'
  BY <1>2, BeginReuseDoes, UsableIndex DEF Control, PatchSteps, RebuildSteps, EmbedSteps, Begun, BeginReuse, Begin, disk, backend
<1>3. ASSUME NEW opt \in Options, BeginPatch(opt)
      PROVE  Control'
  BY <1>3, BeginPatchDoes, UsableIndex DEF Control, PatchSteps, RebuildSteps, EmbedSteps, Begun, BeginPatch, Begin, disk, backend
<1>4. ASSUME NEW opt \in Options, BeginRebuild(opt)
      PROVE  Control'
  BY <1>4, BeginRebuildDoes, UsableIndex DEF Control, PatchSteps, RebuildSteps, EmbedSteps, Begun, BeginRebuild, Begin, disk, backend
<1>5. CASE PatchScan
  BY <1>5, PatchScanDoes DEF Control, PatchSteps, RebuildSteps, EmbedSteps, Continues, disk, PatchScan, backend
<1>6. CASE PatchDelete
  BY <1>6, PatchDeleteDoes DEF Control, PatchSteps, RebuildSteps, EmbedSteps, Continues, Writes, PatchDelete, backend
<1>7. CASE PatchInsert
  BY <1>7, PatchInsertDoes DEF Control, PatchSteps, RebuildSteps, EmbedSteps, Continues, Writes, PatchInsert, backend
<1>8. CASE PatchLayers
  BY <1>8, PatchLayersDoes DEF Control, PatchSteps, RebuildSteps, EmbedSteps, Continues, Writes, PatchLayers, backend
<1>9. CASE PatchFails
  BY <1>9, RebuildDoes DEF Control, PatchSteps, RebuildSteps, EmbedSteps, PatchFails, disk, backend
<1>10. CASE CacheVectors
  BY <1>10, CacheVectorsDoes DEF Control, PatchSteps, RebuildSteps, EmbedSteps, Continues, Writes, CacheVectors, backend
<1>11. CASE CacheNothing
  BY <1>11, CacheNothingDoes DEF Control, PatchSteps, RebuildSteps, EmbedSteps, Continues, disk, CacheNothing, backend
<1>12. CASE Pipeline
  BY <1>12, PipelineDoes DEF Control, PatchSteps, RebuildSteps, EmbedSteps, Continues, disk, Pipeline, backend
<1>13. CASE Wipe
  BY <1>13, WipeDoes DEF Control, PatchSteps, RebuildSteps, EmbedSteps, Continues, disk, Wipe, backend
<1>14. CASE Create
  BY <1>14, CreateDoes, EmptyDbThere DEF Control, PatchSteps, RebuildSteps, EmbedSteps, Types, Continues, Create, backend
<1>15. CASE Load
  BY <1>15, LoadDoes DEF Control, PatchSteps, RebuildSteps, EmbedSteps, Continues, Writes, Load, backend
<1>16. CASE Restore
  BY <1>16, RestoreDoes DEF Control, PatchSteps, RebuildSteps, EmbedSteps, Continues, Writes, Restore, backend
<1>17. CASE SaveMeta
  BY <1>17, SaveMetaDoes DEF Control, PatchSteps, RebuildSteps, EmbedSteps, Continues, SaveMeta, backend
<1>18. CASE Register
  BY <1>18, Finished DEF Control, PatchSteps, RebuildSteps, EmbedSteps, Ends, Register, backend
<1>19. CASE NameTaken
  BY <1>19, RebuildDoes, Finished DEF Control, PatchSteps, RebuildSteps, EmbedSteps, Ends, NameTaken, disk, backend
<1>20. CASE Dies
  BY <1>20, Finished DEF Control, PatchSteps, RebuildSteps, EmbedSteps, Ends, Dies, backend
<1>21. CASE RefreshRepos
  BY <1>21 DEF Control, PatchSteps, RebuildSteps, EmbedSteps, RefreshRepos
<1>22. CASE OpenPool
  BY <1>22 DEF Control, PatchSteps, RebuildSteps, EmbedSteps, OpenPool, disk
<1>23. CASE StalePool
  BY <1>23 DEF Control, PatchSteps, RebuildSteps, EmbedSteps, StalePool, disk
<1>24. CASE IdlePool
  BY <1>24 DEF Control, PatchSteps, RebuildSteps, EmbedSteps, IdlePool, disk
<1>25. ASSUME NEW c \in Commits, UserMoves(c)
      PROVE  Control'
  BY <1>25 DEF Control, PatchSteps, RebuildSteps, EmbedSteps, UserMoves, disk, backend
<1>26. ASSUME NEW c \in Commits, Materialize(c)
      PROVE  Control'
  BY <1>26 DEF Control, PatchSteps, RebuildSteps, EmbedSteps, Materialize, backend
<1>27. CASE EmbedJob
  BY <1>27, EmbedJobDoes DEF Control, PatchSteps, RebuildSteps, EmbedSteps, Writes, EmbedJob, backend
<1>28. CASE Clean
  BY <1>28 DEF Control, PatchSteps, RebuildSteps, EmbedSteps, Clean, backend
<1>29. CASE UNCHANGED vars
  BY <1>29 DEF Control, PatchSteps, RebuildSteps, EmbedSteps, vars
<1>30. CASE SkipEmbeddings
  BY <1>30, SkipEmbeddingsDoes DEF Control, PatchSteps, RebuildSteps, EmbedSteps, Continues, SkipEmbeddings, disk, backend
<1>31. CASE BeginEmbeddings
  BY <1>31, BeginEmbeddingsDoes DEF Control, PatchSteps, RebuildSteps, EmbedSteps, Continues, BeginEmbeddings, disk, backend
<1>32. CASE EmbeddingsDone
  BY <1>32, EmbeddingsDoneDoes DEF Control, PatchSteps, RebuildSteps, EmbedSteps, Continues, EmbeddingsDone, disk, backend
<1>33. ASSUME NEW f \in Files, DropVector(f)
      PROVE  Control'
  BY <1>33, DropVectorDoes DEF Control, Writes, DropVector, SetVector, backend
<1>34. ASSUME NEW f \in Files, Embed(f)
      PROVE  Control'
  BY <1>34, EmbedDoes DEF Control, Writes, Embed, SetVector, backend
<1> QED
  BY <1>1, <1>2, <1>3, <1>4, <1>5, <1>6, <1>7, <1>8, <1>9, <1>10, <1>11, <1>12,
     <1>13, <1>14, <1>15, <1>16, <1>17, <1>18, <1>19, <1>20, <1>21, <1>22, <1>23,
     <1>24, <1>25, <1>26, <1>27, <1>28, <1>29, <1>30, <1>31, <1>32, <1>33, <1>34,
     OptionAssumption DEF Next, Analyze, Backend
-----------------------------------------------------------------------------
(***************************************************************************)
(* Embeddings.                                                             *)
(***************************************************************************)

(* Every step leads to what is known of the embeddings at the next. *)
LEMMA EmbeddingsNext ==
  ASSUME Types, Control, Embeddings, [Next]_vars
  PROVE  Embeddings'
<1>1. ASSUME NEW opt \in Options, UpToDate(opt)
      PROVE  Embeddings'
  BY <1>1, Finished DEF Embeddings, VectorsKept, Ends, UpToDate
<1>2. ASSUME NEW opt \in Options, BeginReuse(opt)
      PROVE  Embeddings'
  BY <1>2, BeginReuseDoes DEF Embeddings, VectorsKept, Begun
<1>3. ASSUME NEW opt \in Options, BeginPatch(opt)
      PROVE  Embeddings'
  BY <1>3, BeginPatchDoes DEF Embeddings, VectorsKept, Begun
<1>4. ASSUME NEW opt \in Options, BeginRebuild(opt)
      PROVE  Embeddings'
  BY <1>4, BeginRebuildDoes DEF Embeddings, VectorsKept, Begun
<1>5. CASE PatchScan
  BY <1>5, PatchScanDoes DEF Embeddings, VectorsKept, Continues
<1>6. CASE PatchDelete
  <2> DEFINE gone == ReplacePaths(an.plan)
  <2>1. /\ Continues("insert", an.scan, an.cached, TRUE)
        /\ db'.rows = [f \in Files |-> IF f \in gone THEN NoRow ELSE db.rows[f]]
    BY <1>6, PatchDeleteDoes DEF Writes
  <2> HIDE DEF gone
  <2>2. gone \subseteq Files
    <3>1. an.commit \in Commits /\ meta.commit \in Commits /\ an.plan = Relevant[meta.commit][an.commit]
      BY <1>6, AnalyzeFields, MetaFields DEF PatchDelete, Control, PatchSteps, Types
    <3> QED BY <3>1, ReplacedAreFiles DEF gone
  <2>3. \A f \in gone : db'.rows[f] = NoRow
    BY <2>1, <2>2
  <2>4. an'.plan = an.plan
    BY <2>1 DEF Continues
  <2>5. \A f \in ReplacePaths(an.plan)' : db'.rows[f] = NoRow
    BY <2>3, <2>4 DEF gone, ReplacePaths, ReplaceAll
  <2> QED BY <2>1, <2>5 DEF Embeddings, VectorsKept, Continues
<1>7. CASE PatchInsert
  BY <1>7, PatchInsertDoes DEF Embeddings, VectorsKept, Continues
<1>8. CASE PatchLayers
  BY <1>8, PatchLayersDoes DEF Embeddings, VectorsKept, Continues, PatchLayers, Control, PatchSteps
<1>9. CASE PatchFails
  BY <1>9, RebuildDoes DEF Embeddings, VectorsKept, PatchFails
<1>10. CASE CacheVectors
  BY <1>10, CacheVectorsDoes DEF Embeddings, VectorsKept, Continues
<1>11. CASE CacheNothing
  BY <1>11, CacheNothingDoes DEF Embeddings, VectorsKept, Continues
<1>12. CASE Pipeline
  BY <1>12, PipelineDoes DEF Embeddings, VectorsKept, Continues
<1>13. CASE Wipe
  BY <1>13, WipeDoes DEF Embeddings, VectorsKept, Continues
<1>14. CASE Create
  BY <1>14, CreateDoes, EmptyDbThere DEF Embeddings, VectorsKept, Continues, Create
<1>15. CASE Load
  BY <1>15, LoadDoes DEF Embeddings, VectorsKept, Continues, Writes, Load
<1>16. CASE Restore
  BY <1>16, RestoreDoes DEF Embeddings, VectorsKept, Continues, Restore
<1>17. CASE SaveMeta
  BY <1>17, SaveMetaDoes DEF Embeddings, VectorsKept, Continues
<1>18. CASE Register
  BY <1>18, Finished DEF Embeddings, VectorsKept, Ends, Register
<1>19. CASE NameTaken
  BY <1>19, RebuildDoes, Finished DEF Embeddings, VectorsKept, Ends, NameTaken
<1>20. CASE Dies
  BY <1>20, Finished DEF Embeddings, VectorsKept, Ends, Dies
<1>21. CASE RefreshRepos
  BY <1>21 DEF Embeddings, VectorsKept, RefreshRepos
<1>22. CASE OpenPool
  BY <1>22 DEF Embeddings, VectorsKept, OpenPool, disk
<1>23. CASE StalePool
  BY <1>23 DEF Embeddings, VectorsKept, StalePool, disk
<1>24. CASE IdlePool
  BY <1>24 DEF Embeddings, VectorsKept, IdlePool, disk
<1>25. ASSUME NEW c \in Commits, UserMoves(c)
      PROVE  Embeddings'
  BY <1>25 DEF Embeddings, VectorsKept, UserMoves, disk
<1>26. ASSUME NEW c \in Commits, Materialize(c)
      PROVE  Embeddings'
  BY <1>26 DEF Embeddings, VectorsKept, Materialize
<1>27. CASE EmbedJob
  BY <1>27 DEF Embeddings, VectorsKept, EmbedJob
<1>28. CASE Clean
  BY <1>28 DEF Embeddings, VectorsKept, Clean
<1>29. CASE UNCHANGED vars
  BY <1>29 DEF Embeddings, VectorsKept, vars
<1>30. CASE SkipEmbeddings
  <2>1. /\ Continues("save", an.scan, an.cached, an.touched)
        /\ db' = db /\ ~Wanted
    BY <1>30, SkipEmbeddingsDoes DEF SkipEmbeddings, disk
  <2>2. an.opt.mode \in {"off", "auto", "on"}
    BY AnalyzeFields DEF OptionSpace
  <2>3. an.opt.mode # "off" /\ Nodes(db) <= NodeLimit => ~(an.old.there /\ an.old.vectors)
    BY <2>1, <2>2 DEF Wanted, Decide
  <2>4. VectorsKept'
    BY <2>1, <2>3 DEF VectorsKept, Continues
  <2> QED BY <2>1, <2>4 DEF Embeddings, Continues
<1>31. CASE BeginEmbeddings
  <2>1. /\ Continues("embedding", an.scan, IF an.how = "patch" THEN db.emb ELSE an.cached, an.touched)
        /\ db' = db /\ an.pc = "embed"
    BY <1>31, BeginEmbeddingsDoes DEF BeginEmbeddings, disk
  <2>2. an.how \in {"patch", "rebuild"}
    BY <2>1 DEF Control, EmbedSteps
  <2>3. \A f \in Files : db.emb[f] \in {<<>>, an'.cached[f]}
    BY <2>1, <2>2 DEF Embeddings, Continues
  <2>4. an'.how = "patch" => an'.cached = db.emb
    BY <2>1 DEF Continues
  <2> QED BY <2>1, <2>3, <2>4 DEF Embeddings, VectorsKept, Continues
<1>32. CASE EmbeddingsDone
  <2>1. /\ Continues("save", an.scan, an.cached, an.touched)
        /\ db' = db /\ an.pc = "embedding" /\ ToEmbed = {}
    BY <1>32, EmbeddingsDoneDoes DEF EmbeddingsDone, disk
  <2>2. ASSUME NEW f \in Files, Text(db.rows, f) # <<>>
        PROVE  \/ db.emb[f] = Text(db.rows, f)
               \/ an.how = "rebuild" /\ an.cached[f] = Text(db.rows, f)
    <3>1. Text(db.rows, f) \in {an.cached[f], db.emb[f]}
      BY <2>1, <2>2 DEF ToEmbed
    <3>2. an.how \in {"patch", "rebuild"}
      BY <2>1 DEF Control, EmbedSteps
    <3>3. an.how = "patch" /\ an.cached[f] = Text(db.rows, f) => db.emb[f] = an.cached[f]
      BY <2>1 DEF Embeddings
    <3> QED BY <3>1, <3>2, <3>3
  <2>3. VectorsKept'
    BY <2>1, <2>2 DEF VectorsKept, Continues
  <2> QED BY <2>1, <2>3 DEF Embeddings, Continues
<1>33. ASSUME NEW f \in Files, DropVector(f)
      PROVE  Embeddings'
  <2>1. /\ db'.rows = db.rows /\ db'.emb = [db.emb EXCEPT ![f] = <<>>]
        /\ an' = an /\ an.pc = "embedding"
    BY <1>33, DropVectorDoes DEF Writes, DropVector, SetVector
  <2>2. an.cached[f] # Text(db.rows, f)
    BY <1>33 DEF DropVector, ToDrop
  <2>3. db.emb \in VectorTables
    BY DatabaseFields DEF Types
  <2>4. \A g \in Files :
          /\ db'.emb[g] \in {<<>>, an.cached[g], Text(db.rows, g)}
          /\ an.how = "patch" /\ an.cached[g] = Text(db.rows, g) => db'.emb[g] = an.cached[g]
    BY <2>1, <2>2, <2>3 DEF Embeddings, VectorTables
  <2> QED BY <2>1, <2>4 DEF Embeddings, VectorsKept, Text
<1>34. ASSUME NEW f \in Files, Embed(f)
      PROVE  Embeddings'
  <2>1. /\ db'.rows = db.rows /\ db'.emb = [db.emb EXCEPT ![f] = Text(db.rows, f)]
        /\ an' = an /\ an.pc = "embedding"
    BY <1>34, EmbedDoes DEF Writes, Embed, SetVector
  <2>2. an.cached[f] # Text(db.rows, f)
    BY <1>34 DEF Embed, ToEmbed
  <2>3. db.emb \in VectorTables
    BY DatabaseFields DEF Types
  <2>4. \A g \in Files :
          /\ db'.emb[g] \in {<<>>, an.cached[g], Text(db.rows, g)}
          /\ an.how = "patch" /\ an.cached[g] = Text(db.rows, g) => db'.emb[g] = an.cached[g]
    BY <2>1, <2>2, <2>3 DEF Embeddings, VectorTables
  <2> QED BY <2>1, <2>4 DEF Embeddings, VectorsKept, Text
<1> QED
  BY <1>1, <1>2, <1>3, <1>4, <1>5, <1>6, <1>7, <1>8, <1>9, <1>10, <1>11, <1>12,
     <1>13, <1>14, <1>15, <1>16, <1>17, <1>18, <1>19, <1>20, <1>21, <1>22, <1>23,
     <1>24, <1>25, <1>26, <1>27, <1>28, <1>29, <1>30, <1>31, <1>32, <1>33, <1>34,
     OptionAssumption DEF Next, Analyze, Backend

(* A step that leaves rows and embeddings alone. *)
LEMMA SameVectors ==
  ASSUME db'.rows = db.rows, db'.emb = db.emb, an.pc # "embedding" \/ an'.pc # "save"
  PROVE  CurrentStep
BY DEF CurrentStep, Astray, Text

(* A step after which there is no embedding. *)
LEMMA NoVectorIsAstray ==
  ASSUME db'.emb = NoVectors
  PROVE  CurrentStep
<1>1. Astray' = {}
  BY DEF Astray, NoVectors
<1> QED BY <1>1 DEF CurrentStep, StaleFiles

(* A step that keeps the rows and gives each file no embedding, its own or the right
   one. *)
LEMMA RightVectors ==
  ASSUME db'.rows = db.rows, an.pc # "embedding" \/ an'.pc # "save",
         \A f \in Files : db'.emb[f] \in {<<>>, db.emb[f], Text(db.rows, f)}
  PROVE  CurrentStep
<1>1. \A f \in Files : Text(db.rows, f)' = Text(db.rows, f)
  BY DEF Text
<1>2. Astray' \subseteq Astray
  BY <1>1 DEF Astray
<1> QED BY <1>2 DEF CurrentStep

(* Every step does what VectorsCurrent says. *)
LEMMA CurrentNext ==
  ASSUME Types, Control, Embeddings, [Next]_vars
  PROVE  CurrentStep
<1>1. ASSUME NEW opt \in Options, UpToDate(opt)
      PROVE  CurrentStep
  BY <1>1, SameVectors DEF UpToDate, disk
<1>2. ASSUME NEW opt \in Options, BeginReuse(opt)
      PROVE  CurrentStep
  BY <1>2, SameVectors DEF BeginReuse, Begin, disk
<1>3. ASSUME NEW opt \in Options, BeginPatch(opt)
      PROVE  CurrentStep
  BY <1>3, SameVectors DEF BeginPatch, Begin, disk
<1>4. ASSUME NEW opt \in Options, BeginRebuild(opt)
      PROVE  CurrentStep
  BY <1>4, SameVectors DEF BeginRebuild, Begin, disk
<1>5. CASE PatchScan
  BY <1>5, SameVectors DEF PatchScan, disk
<1>6. CASE PatchDelete
  <2> DEFINE gone == ReplacePaths(an.plan)
             old == {f \in gone : db.rows[f] # NoRow}
  <2>1. /\ an.pc = "delete"
        /\ db'.rows = [f \in Files |-> IF f \in gone THEN NoRow ELSE db.rows[f]]
        /\ ReplaceAll(an.plan) \/ db'.emb = [f \in Files |-> IF f \in old THEN <<>> ELSE db.emb[f]]
    BY <1>6, PatchDeleteDoes DEF Writes, PatchDelete
  <2>2. ASSUME ~ReplaceAll(an.plan), NEW f \in Files, f \in Astray'
        PROVE  f \in Astray
    <3>1. db'.emb[f] # <<>> /\ f \notin old /\ db'.emb[f] = db.emb[f]
      BY <2>1, <2>2 DEF Astray
    <3>2. db.rows[f] = db'.rows[f]
      BY <2>1, <2>2, <3>1
    <3>3. Text(db.rows, f)' = Text(db.rows, f)
      BY <3>2 DEF Text
    <3> QED BY <2>2, <3>1, <3>3 DEF Astray
  <2> QED BY <2>1, <2>2 DEF CurrentStep, Astray
<1>7. CASE PatchInsert
  <2>1. /\ an.pc = "insert" /\ db'.emb = db.emb
        /\ db'.rows = [f \in Files |-> IF f \in CurrentPaths(an.plan) THEN an.scan[f] ELSE db.rows[f]]
    BY <1>7, PatchInsertDoes DEF Writes, PatchInsert
  <2>2. \A f \in CurrentPaths(an.plan) : db.rows[f] = NoRow
    <3>1. an.commit \in Commits /\ meta.commit \in Commits /\ an.plan = Relevant[meta.commit][an.commit]
      BY <2>1, AnalyzeFields, MetaFields DEF Control, PatchSteps, Types
    <3> QED BY <2>1, <3>1, InsertedWasDeleted DEF Embeddings
  <2>3. ASSUME NEW f \in Files, f \in Astray'
        PROVE  f \in Astray
    <3>1. db.emb[f] # <<>>
      BY <2>1, <2>3 DEF Astray
    <3>2. CASE f \in CurrentPaths(an.plan)
      BY <2>2, <3>1, <3>2 DEF Astray, Text
    <3>3. CASE f \notin CurrentPaths(an.plan)
      <4>1. Text(db.rows, f)' = Text(db.rows, f)
        BY <2>1, <3>3 DEF Text
      <4> QED BY <2>1, <2>3, <4>1 DEF Astray
    <3> QED BY <3>2, <3>3
  <2> QED BY <2>1, <2>3 DEF CurrentStep, Astray
<1>8. CASE PatchLayers
  BY <1>8, PatchLayersDoes, SameVectors DEF Writes, PatchLayers
<1>9. CASE PatchFails
  BY <1>9, RebuildDoes, SameVectors DEF PatchFails, disk
<1>10. CASE CacheVectors
  BY <1>10, CacheVectorsDoes, SameVectors DEF Writes, CacheVectors
<1>11. CASE CacheNothing
  BY <1>11, SameVectors DEF CacheNothing, disk
<1>12. CASE Pipeline
  BY <1>12, SameVectors DEF Pipeline, disk
<1>13. CASE Wipe
  BY <1>13, EmptyDbThere, NoVectorIsAstray DEF Wipe, NoDb
<1>14. CASE Create
  BY <1>14, EmptyDbThere, NoVectorIsAstray DEF Create
<1>15. CASE Load
  BY <1>15, LoadDoes, NoVectorIsAstray DEF Writes, Load, Embeddings
<1>16. CASE Restore
  BY <1>16, RestoreDoes DEF Restore, Continues, CurrentStep
<1>17. CASE SaveMeta
  BY <1>17, SameVectors DEF SaveMeta
<1>18. CASE Register
  BY <1>18, SameVectors DEF Register
<1>19. CASE NameTaken
  BY <1>19, SameVectors DEF NameTaken, disk
<1>20. CASE Dies
  BY <1>20, Finished, SameVectors DEF Ends, Dies
<1>21. CASE RefreshRepos
  BY <1>21, SameVectors DEF RefreshRepos
<1>22. CASE OpenPool
  BY <1>22, SameVectors DEF OpenPool, disk
<1>23. CASE StalePool
  BY <1>23, SameVectors DEF StalePool, disk
<1>24. CASE IdlePool
  BY <1>24, SameVectors DEF IdlePool, disk
<1>25. ASSUME NEW c \in Commits, UserMoves(c)
      PROVE  CurrentStep
  BY <1>25, SameVectors DEF UserMoves, disk
<1>26. ASSUME NEW c \in Commits, Materialize(c)
      PROVE  CurrentStep
  BY <1>26, MaterializeDoes, NoVectorIsAstray
<1>27. CASE EmbedJob
  BY <1>27, EmbedJobDoes, RightVectors DEF Writes, EmbedJob
<1>28. CASE Clean
  BY <1>28, NoVectorIsAstray DEF Clean, NoDb
<1>29. CASE UNCHANGED vars
  BY <1>29, SameVectors DEF vars
<1>30. CASE SkipEmbeddings
  BY <1>30, SameVectors DEF SkipEmbeddings, disk
<1>31. CASE BeginEmbeddings
  BY <1>31, SameVectors DEF BeginEmbeddings, disk
<1>32. CASE EmbeddingsDone
  <2>1. db' = db /\ an.pc = "embedding" /\ ToDrop = {}
    BY <1>32 DEF EmbeddingsDone, disk
  <2>2. db.rows \in Tables /\ db.emb \in VectorTables
    BY DatabaseFields DEF Types
  <2>3. ASSUME NEW f \in Files, db.rows[f] # NoRow
        PROVE  db.emb[f] \in {<<>>, Text(db.rows, f)}
    <3>1. CASE Class[f] # "code"
      BY <2>2, <3>1 DEF VectorTables
    <3>2. CASE Class[f] = "code"
      <4>1. Text(db.rows, f) # <<>>
        BY <2>2, <2>3, <3>2, Texts
      <4>2. an.cached[f] \in {<<>>, Text(db.rows, f)} \/ db.emb[f] # an.cached[f]
        BY <2>1, <4>1 DEF ToDrop
      <4>3. db.emb[f] \in {<<>>, an.cached[f], Text(db.rows, f)}
        BY <2>1 DEF Embeddings
      <4> QED BY <4>2, <4>3
    <3> QED BY <3>1, <3>2
  <2>4. StaleFiles = {}
    BY <2>3 DEF StaleFiles, Astray
  <2>5. StaleFiles' = StaleFiles /\ Astray' = Astray
    BY <2>1 DEF StaleFiles, Astray, Text
  <2> QED BY <2>4, <2>5 DEF CurrentStep
<1>33. ASSUME NEW f \in Files, DropVector(f)
      PROVE  CurrentStep
  <2>1. /\ db'.rows = db.rows /\ db'.emb = [db.emb EXCEPT ![f] = <<>>]
        /\ an' = an /\ an.pc = "embedding"
    BY <1>33, DropVectorDoes DEF Writes, DropVector, SetVector
  <2>2. db.emb \in VectorTables
    BY DatabaseFields DEF Types
  <2>3. \A g \in Files : db'.emb[g] \in {<<>>, db.emb[g], Text(db.rows, g)}
    BY <2>1, <2>2 DEF VectorTables
  <2> QED BY <2>1, <2>3, RightVectors
<1>34. ASSUME NEW f \in Files, Embed(f)
      PROVE  CurrentStep
  <2>1. /\ db'.rows = db.rows /\ db'.emb = [db.emb EXCEPT ![f] = Text(db.rows, f)]
        /\ an' = an /\ an.pc = "embedding"
    BY <1>34, EmbedDoes DEF Writes, Embed, SetVector
  <2>2. db.emb \in VectorTables
    BY DatabaseFields DEF Types
  <2>3. \A g \in Files : db'.emb[g] \in {<<>>, db.emb[g], Text(db.rows, g)}
    BY <2>1, <2>2 DEF VectorTables
  <2> QED BY <2>1, <2>3, RightVectors
<1> QED
  BY <1>1, <1>2, <1>3, <1>4, <1>5, <1>6, <1>7, <1>8, <1>9, <1>10, <1>11, <1>12,
     <1>13, <1>14, <1>15, <1>16, <1>17, <1>18, <1>19, <1>20, <1>21, <1>22, <1>23,
     <1>24, <1>25, <1>26, <1>27, <1>28, <1>29, <1>30, <1>31, <1>32, <1>33, <1>34,
     OptionAssumption DEF Next, Analyze, Backend

-----------------------------------------------------------------------------
(***************************************************************************)
(* The rows, where nothing but commits is checked out and HEAD stays while *)
(* an analyze runs.                                                        *)
(***************************************************************************)

CleanCheckouts == Still = TRUE /\ \A c \in Commits : Worktrees[c] = {Tree[c]}

(* What the pipeline reads is then the commit that will be recorded. *)
LEMMA ScanIsCommit ==
  ASSUME CleanCheckouts, Types, RowsKnown, an.pc # "idle"
  PROVE  Rows(work) = RowsAt[an.commit]
<1>1. work = Tree[head] /\ head \in Commits /\ an.commit = head
  BY DEF CleanCheckouts, Types, RowsKnown
<1> QED BY <1>1, RowsAtTables

(* Every step keeps the rows those of the commit. *)
LEMMA RowsKnownNext ==
  ASSUME CleanCheckouts, Types, Control, RowsKnown, [Next]_vars
  PROVE  RowsKnown'
<1>1. ASSUME NEW opt \in Options, UpToDate(opt)
      PROVE  RowsKnown'
  BY <1>1, Finished DEF RowsKnown, EmbedSteps, IndexMatchesMeta, Control, Ends, UpToDate, disk
<1>2. ASSUME NEW opt \in Options, BeginReuse(opt)
      PROVE  RowsKnown'
  <2>1. Begun("reuse", "save", {}, opt) /\ UNCHANGED <<head, disk>> /\ ~an.touched
    BY <1>2, BeginReuseDoes DEF BeginReuse, Begin, Control
  <2>2. RowsAt[meta.commit] = RowsAt[head]
    BY <1>2, UsableIndex, ReuseIsRight DEF BeginReuse, Types
  <2> QED BY <2>1, <2>2 DEF RowsKnown, EmbedSteps, IndexMatchesMeta, Begun, disk
<1>3. ASSUME NEW opt \in Options, BeginPatch(opt)
      PROVE  RowsKnown'
  BY <1>3, BeginPatchDoes DEF RowsKnown, EmbedSteps, IndexMatchesMeta, Control, Begun, BeginPatch, Begin, disk
<1>4. ASSUME NEW opt \in Options, BeginRebuild(opt)
      PROVE  RowsKnown'
  BY <1>4, BeginRebuildDoes DEF RowsKnown, EmbedSteps, IndexMatchesMeta, Control, Begun, BeginRebuild, Begin, disk
<1>5. CASE PatchScan
  BY <1>5, PatchScanDoes, ScanIsCommit DEF RowsKnown, EmbedSteps, IndexMatchesMeta, Continues, PatchScan, disk
<1>6. CASE PatchDelete
  <2>1. /\ Continues("insert", an.scan, an.cached, TRUE)
        /\ db'.rows = [f \in Files |-> IF f \in ReplacePaths(an.plan) THEN NoRow ELSE db.rows[f]]
        /\ an.pc = "delete" /\ UNCHANGED <<head, meta, damaged>>
    BY <1>6, PatchDeleteDoes DEF Writes, PatchDelete
  <2>2. ~damaged => db.rows = RowsAt[meta.commit]
    BY <2>1 DEF Control, PatchSteps, RowsKnown, IndexMatchesMeta
  <2>3. ~damaged => db'.rows = Patched(meta.commit, an.plan)
    BY <2>1, <2>2 DEF Patched
  <2>4. Patched(meta.commit, an.plan)' = Patched(meta.commit, an.plan)
    BY <2>1 DEF Patched, Continues, ReplacePaths, ReplaceAll
  <2> QED BY <2>1, <2>3, <2>4 DEF RowsKnown, EmbedSteps, IndexMatchesMeta, Continues
<1>7. CASE PatchInsert
  <2>1. /\ Continues("layers", an.scan, an.cached, an.touched)
        /\ db'.rows = [f \in Files |-> IF f \in CurrentPaths(an.plan) THEN an.scan[f] ELSE db.rows[f]]
        /\ an.pc = "insert" /\ an.touched /\ UNCHANGED <<head, meta, damaged>>
    BY <1>7, PatchInsertDoes DEF Writes, PatchInsert, Control
  <2>2. an.commit \in Commits /\ meta.commit \in Commits /\ an.plan = Relevant[meta.commit][an.commit]
    BY <2>1, AnalyzeFields, MetaFields DEF Control, PatchSteps, Types
  <2>3. an.scan = RowsAt[an.commit] /\ (~damaged => db.rows = Patched(meta.commit, an.plan))
    BY <2>1 DEF RowsKnown
  <2>4. ~damaged => db'.rows = RowsAt[an.commit]
    BY <2>1, <2>2, <2>3, PatchIsRight
  <2> QED BY <2>1, <2>4 DEF RowsKnown, EmbedSteps, IndexMatchesMeta, Continues
<1>8. CASE PatchLayers
  <2>1. /\ Continues("embed", an.scan, an.cached, an.touched)
        /\ db'.rows = db.rows /\ db'.layers = db.rows
    BY <1>8, PatchLayersDoes DEF Writes
  <2> QED BY <1>8, <2>1 DEF RowsKnown, EmbedSteps, IndexMatchesMeta, Continues, PatchLayers, Control, PatchSteps, RebuildSteps
<1>9. CASE PatchFails
  BY <1>9, RebuildDoes DEF RowsKnown, EmbedSteps, IndexMatchesMeta, PatchFails, PatchSteps, Control, disk
<1>10. CASE CacheVectors
  BY <1>10, CacheVectorsDoes DEF RowsKnown, EmbedSteps, IndexMatchesMeta, Continues, Writes, CacheVectors
<1>11. CASE CacheNothing
  BY <1>11, CacheNothingDoes DEF RowsKnown, EmbedSteps, IndexMatchesMeta, Continues, CacheNothing, disk
<1>12. CASE Pipeline
  BY <1>12, PipelineDoes, ScanIsCommit DEF RowsKnown, EmbedSteps, IndexMatchesMeta, Continues, Pipeline, disk
<1>13. CASE Wipe
  BY <1>13, WipeDoes DEF RowsKnown, EmbedSteps, IndexMatchesMeta, Continues, Wipe, Control
<1>14. CASE Create
  BY <1>14, CreateDoes DEF RowsKnown, EmbedSteps, IndexMatchesMeta, Continues, Create, Control
<1>15. CASE Load
  BY <1>15, LoadDoes DEF RowsKnown, EmbedSteps, IndexMatchesMeta, Continues, Writes, Load, Control
<1>16. CASE Restore
  BY <1>16, RestoreDoes DEF RowsKnown, EmbedSteps, IndexMatchesMeta, Control, PatchSteps, RebuildSteps, Continues, Writes, Restore
<1>17. CASE SaveMeta
  <2>1. /\ Continues("register", an.scan, an.cached, FALSE)
        /\ meta'.there = TRUE /\ meta'.commit = an.commit
        /\ an.pc = "save" /\ damaged' = (damaged /\ an.how # "rebuild") /\ UNCHANGED <<head, db>>
    BY <1>17, SaveMetaDoes DEF SaveMeta
  <2>2. db.there /\ ~damaged' => db.rows = RowsAt[an.commit] /\ db.layers = db.rows
    <3>1. CASE an.how = "reuse"
      BY <2>1, <3>1 DEF RowsKnown, EmbedSteps, IndexMatchesMeta, Control
    <3>2. CASE an.how = "patch"
      BY <2>1, <3>2 DEF RowsKnown, EmbedSteps, IndexMatchesMeta
    <3>3. CASE an.how = "rebuild"
      BY <2>1, <3>3 DEF RowsKnown, EmbedSteps, IndexMatchesMeta
    <3> QED BY <2>1, <3>1, <3>2, <3>3, AnalyzeFields DEF Control
  <2> QED BY <2>1, <2>2 DEF RowsKnown, EmbedSteps, IndexMatchesMeta, Continues
<1>18. CASE Register
  BY <1>18, Finished DEF RowsKnown, EmbedSteps, IndexMatchesMeta, Ends, Register, Control
<1>19. CASE NameTaken
  BY <1>19, RebuildDoes, Finished DEF RowsKnown, EmbedSteps, IndexMatchesMeta, Ends, NameTaken, Control, disk
<1>20. CASE Dies
  <2>1. Ends /\ UNCHANGED <<head, db>> /\ damaged' = (damaged \/ (an.touched /\ meta.there /\ db.there))
    BY <1>20, Finished DEF Dies
  <2>2. meta'.there => meta' = meta
    BY <1>20, MetaFields DEF Dies
  <2> QED BY <2>1, <2>2 DEF RowsKnown, EmbedSteps, IndexMatchesMeta, Ends
<1>21. CASE RefreshRepos
  BY <1>21 DEF RowsKnown, EmbedSteps, IndexMatchesMeta, RefreshRepos
<1>22. CASE OpenPool
  BY <1>22 DEF RowsKnown, EmbedSteps, IndexMatchesMeta, OpenPool, disk
<1>23. CASE StalePool
  BY <1>23 DEF RowsKnown, EmbedSteps, IndexMatchesMeta, StalePool, disk
<1>24. CASE IdlePool
  BY <1>24 DEF RowsKnown, EmbedSteps, IndexMatchesMeta, IdlePool, disk
<1>25. ASSUME NEW c \in Commits, UserMoves(c)
      PROVE  RowsKnown'
  BY <1>25 DEF RowsKnown, EmbedSteps, IndexMatchesMeta, UserMoves, disk, CleanCheckouts
<1>26. ASSUME NEW c \in Commits, Materialize(c)
      PROVE  RowsKnown'
  BY <1>26 DEF RowsKnown, EmbedSteps, IndexMatchesMeta, Materialize
<1>27. CASE EmbedJob
  BY <1>27, EmbedJobDoes DEF RowsKnown, EmbedSteps, IndexMatchesMeta, EmbedJob, Writes
<1>28. CASE Clean
  BY <1>28, MetaFields DEF RowsKnown, EmbedSteps, IndexMatchesMeta, Clean
<1>29. CASE UNCHANGED vars
  BY <1>29 DEF RowsKnown, EmbedSteps, IndexMatchesMeta, vars
<1>30. CASE SkipEmbeddings
  BY <1>30, SkipEmbeddingsDoes DEF RowsKnown, EmbedSteps, IndexMatchesMeta, Control, PatchSteps, RebuildSteps, Continues, SkipEmbeddings, disk
<1>31. CASE BeginEmbeddings
  BY <1>31, BeginEmbeddingsDoes DEF RowsKnown, EmbedSteps, IndexMatchesMeta, Control, PatchSteps, RebuildSteps, Continues, BeginEmbeddings, disk
<1>32. CASE EmbeddingsDone
  BY <1>32, EmbeddingsDoneDoes DEF RowsKnown, EmbedSteps, IndexMatchesMeta, Control, PatchSteps, RebuildSteps, Continues, EmbeddingsDone, disk
<1>33. ASSUME NEW f \in Files, DropVector(f)
      PROVE  RowsKnown'
  BY <1>33, DropVectorDoes DEF RowsKnown, EmbedSteps, IndexMatchesMeta, Control, PatchSteps, RebuildSteps, Writes, DropVector, SetVector
<1>34. ASSUME NEW f \in Files, Embed(f)
      PROVE  RowsKnown'
  BY <1>34, EmbedDoes DEF RowsKnown, EmbedSteps, IndexMatchesMeta, Control, PatchSteps, RebuildSteps, Writes, Embed, SetVector
<1> QED
  BY <1>1, <1>2, <1>3, <1>4, <1>5, <1>6, <1>7, <1>8, <1>9, <1>10, <1>11, <1>12,
     <1>13, <1>14, <1>15, <1>16, <1>17, <1>18, <1>19, <1>20, <1>21, <1>22, <1>23,
     <1>24, <1>25, <1>26, <1>27, <1>28, <1>29, <1>30, <1>31, <1>32, <1>33, <1>34,
     OptionAssumption DEF Next, Analyze, Backend

-----------------------------------------------------------------------------
(***************************************************************************)
(* The backend.                                                            *)
(***************************************************************************)

(* A step that changes the rows marks the analyze or the database, or gives a new stamp. *)
LEMMA PoolFreshNext ==
  ASSUME Types, Stamped, Control, PoolFresh, [Next]_vars
  PROVE  PoolFresh'
<1>1. ASSUME NEW opt \in Options, UpToDate(opt)
      PROVE  PoolFresh'
  BY <1>1, Finished DEF PoolFresh, Control, Ends, UpToDate, disk, backend
<1>2. ASSUME NEW opt \in Options, BeginReuse(opt)
      PROVE  PoolFresh'
  BY <1>2, BeginReuseDoes DEF PoolFresh, Control, Begun, BeginReuse, Begin, disk, backend
<1>3. ASSUME NEW opt \in Options, BeginPatch(opt)
      PROVE  PoolFresh'
  BY <1>3, BeginPatchDoes DEF PoolFresh, Control, Begun, BeginPatch, Begin, disk, backend
<1>4. ASSUME NEW opt \in Options, BeginRebuild(opt)
      PROVE  PoolFresh'
  BY <1>4, BeginRebuildDoes DEF PoolFresh, Control, Begun, BeginRebuild, Begin, disk, backend
<1>5. CASE PatchScan
  BY <1>5, PatchScanDoes DEF PoolFresh, Continues, PatchScan, disk, backend
<1>6. CASE PatchDelete
  BY <1>6, PatchDeleteDoes DEF PoolFresh, Continues, PatchDelete, Control
<1>7. CASE PatchInsert
  BY <1>7, PatchInsertDoes DEF PoolFresh, Continues, PatchInsert, Control
<1>8. CASE PatchLayers
  BY <1>8, PatchLayersDoes DEF PoolFresh, Continues, PatchLayers, Control
<1>9. CASE PatchFails
  BY <1>9, RebuildDoes DEF PoolFresh, PatchFails, disk, backend
<1>10. CASE CacheVectors
  BY <1>10, CacheVectorsDoes DEF PoolFresh, Continues, Writes, CacheVectors, backend
<1>11. CASE CacheNothing
  BY <1>11, CacheNothingDoes DEF PoolFresh, Continues, CacheNothing, disk, backend
<1>12. CASE Pipeline
  BY <1>12, PipelineDoes DEF PoolFresh, Continues, Pipeline, disk, backend
<1>13. CASE Wipe
  BY <1>13, WipeDoes DEF PoolFresh, Continues, Wipe, Control
<1>14. CASE Create
  BY <1>14, CreateDoes DEF PoolFresh, Continues, Create, Control
<1>15. CASE Load
  BY <1>15, LoadDoes DEF PoolFresh, Continues, Load, Control
<1>16. CASE Restore
  BY <1>16, RestoreDoes DEF PoolFresh, Continues, Restore, Control
<1>17. CASE SaveMeta
  <2>1. meta'.stamp = clock + 1 /\ handle' = handle /\ handle <= clock /\ clock \in Nat /\ handle \in Nat
    BY <1>17, SaveMetaDoes DEF SaveMeta, Stamped, Types, backend
  <2>2. handle' # meta'.stamp
    BY <2>1
  <2> QED BY <2>2 DEF PoolFresh
<1>18. CASE Register
  BY <1>18, Finished DEF PoolFresh, Ends, Register, Control, backend
<1>19. CASE NameTaken
  BY <1>19, RebuildDoes, Finished DEF PoolFresh, Ends, NameTaken, Control, disk, backend
<1>20. CASE Dies
  <2>1. /\ UNCHANGED <<db, handle, view>>
        /\ damaged' = (damaged \/ (an.touched /\ meta.there /\ db.there))
    BY <1>20 DEF Dies, backend
  <2>2. meta'.there => meta' = meta
    BY <1>20, MetaFields DEF Dies
  <2> QED BY <2>1, <2>2 DEF PoolFresh
<1>21. CASE RefreshRepos
  <2>1. /\ view' = [view EXCEPT !.reread = view.reread \/ (view.open /\ handle' # handle)]
        /\ view \in Views /\ UNCHANGED <<meta, db, damaged, an>>
    BY <1>21 DEF RefreshRepos, Types
  <2>2. view'.open = view.open /\ view'.rows = view.rows
    BY <2>1 DEF Views
  <2>3. view'.reread = (view.reread \/ (view.open /\ handle' # handle))
    BY <2>1, Zenon DEF Views
  <2> QED BY <2>1, <2>2, <2>3 DEF PoolFresh
<1>22. CASE OpenPool
  BY <1>22 DEF PoolFresh, OpenPool, disk, ViewOf, NoView
<1>23. CASE StalePool
  BY <1>23 DEF PoolFresh, StalePool, disk, ViewOf, NoView
<1>24. CASE IdlePool
  BY <1>24 DEF PoolFresh, IdlePool, disk, ViewOf, NoView
<1>25. ASSUME NEW c \in Commits, UserMoves(c)
      PROVE  PoolFresh'
  BY <1>25 DEF PoolFresh, UserMoves, disk, backend
<1>26. ASSUME NEW c \in Commits, Materialize(c)
      PROVE  PoolFresh'
  BY <1>26 DEF PoolFresh, Materialize
<1>27. CASE EmbedJob
  BY <1>27, EmbedJobDoes DEF PoolFresh, EmbedJob, Writes, backend
<1>28. CASE Clean
  BY <1>28, MetaFields DEF PoolFresh, Clean
<1>29. CASE UNCHANGED vars
  BY <1>29 DEF PoolFresh, vars
<1>30. CASE SkipEmbeddings
  BY <1>30, SkipEmbeddingsDoes DEF PoolFresh, Continues, SkipEmbeddings, disk, backend
<1>31. CASE BeginEmbeddings
  BY <1>31, BeginEmbeddingsDoes DEF PoolFresh, Continues, BeginEmbeddings, disk, backend
<1>32. CASE EmbeddingsDone
  BY <1>32, EmbeddingsDoneDoes DEF PoolFresh, Continues, EmbeddingsDone, disk, backend
<1>33. ASSUME NEW f \in Files, DropVector(f)
      PROVE  PoolFresh'
  BY <1>33, DropVectorDoes DEF PoolFresh, Writes, DropVector, SetVector, backend
<1>34. ASSUME NEW f \in Files, Embed(f)
      PROVE  PoolFresh'
  BY <1>34, EmbedDoes DEF PoolFresh, Writes, Embed, SetVector, backend
<1> QED
  BY <1>1, <1>2, <1>3, <1>4, <1>5, <1>6, <1>7, <1>8, <1>9, <1>10, <1>11, <1>12,
     <1>13, <1>14, <1>15, <1>16, <1>17, <1>18, <1>19, <1>20, <1>21, <1>22, <1>23,
     <1>24, <1>25, <1>26, <1>27, <1>28, <1>29, <1>30, <1>31, <1>32, <1>33, <1>34,
     OptionAssumption DEF Next, Analyze, Backend

-----------------------------------------------------------------------------
(***************************************************************************)
(* The theorems.                                                           *)
(***************************************************************************)

(* The invariants hold before the first analyze. *)
LEMMA InvInit ==
  ASSUME Init
  PROVE  Inv /\ RowsKnown /\ PoolFresh
<1>1. Commits # {}
  BY DEF Init
<1>2. /\ an \in Analyses /\ an.pc = "idle" /\ an.how = "none" /\ an.touched = FALSE
      /\ an.cached = NoVectors
  BY <1>1, IdleIsAnalyze DEF Init
<1>3. Types
  BY <1>2, NoDbIsDatabase, NothingIsTable DEF Init, Types, NoView, Views
<1>4. /\ db = NoDb /\ NoDb.there = FALSE /\ NoDb.emb = NoVectors /\ NoDb.rows = Nothing
      /\ meta.there = FALSE /\ registry.there = FALSE /\ clock = 0 /\ handle = 0
      /\ view.open = FALSE
  BY DEF Init, NoDb, NoMeta, NoEntry, NoView
<1>5. Stamped
  BY <1>2, <1>4, BoundIsNat DEF Stamped
<1>6. Control
  BY <1>2, <1>4 DEF Control, PatchSteps, RebuildSteps, EmbedSteps
<1>7. Embeddings
  BY <1>2, <1>4 DEF Embeddings, VectorsKept, NoVectors
<1>8. RowsKnown /\ PoolFresh
  BY <1>2, <1>4 DEF RowsKnown, IndexMatchesMeta, PoolFresh
<1> QED BY <1>3, <1>5, <1>6, <1>7, <1>8 DEF Inv

(* For all constants: what the files of an index hold, where an analyze is, and
   the embeddings. *)
THEOREM IndexInvariant == Spec => []Inv
<1>1. Init => Inv
  BY InvInit
<1>2. Inv /\ [Next]_vars => Inv'
  BY TypesNext, StampedNext, ControlNext, EmbeddingsNext DEF Inv
<1> QED BY <1>1, <1>2, PTL DEF Spec

(* The types are those that the runs check. *)
LEMMA InvTypes ==
  ASSUME Inv
  PROVE  TypeOK
<1> USE DEF Inv
<1>1. /\ head \in Commits /\ work \in Worktrees[head] /\ damaged \in BOOLEAN
      /\ ~db.there => db = NoDb
  BY DEF Types
<1>2. db \in Databases /\ view \in Views
  BY DEF Types
<1>3. \A f \in Files : {db.rows[f], db.layers[f], an.scan[f], view.rows[f]} \subseteq RowSpace
  <2>1. db.rows \in Tables /\ db.layers \in Tables /\ an.scan \in Tables /\ view.rows \in Tables
    BY <1>2, DatabaseFields, AnalyzeFields DEF Views
  <2> QED BY <2>1 DEF Tables
<1>4. \A f \in Files : {db.emb[f], an.cached[f]} \subseteq {<<>>} \cup {<<v>> : v \in Contents}
  <2>1. db.emb \in VectorTables /\ an.cached \in VectorTables
    BY <1>2, DatabaseFields, AnalyzeFields
  <2> QED BY <2>1 DEF VectorTables, Vector
<1>5. db.there \in BOOLEAN /\ view.open \in BOOLEAN /\ view.reread \in BOOLEAN
  BY <1>2, DatabaseFields DEF Views
<1>6. clock \in 0..(MaxStamps + 1) /\ handle \in 0..clock
  BY BoundIsNat DEF Types, Stamped
<1>7. meta.there => meta \in {Meta(c, s, e, n) : c \in Commits, s \in 1..clock, e \in BOOLEAN,
                                              n \in 0..Cardinality(Files)}
  <2>1. SUFFICES ASSUME meta.there
                 PROVE  meta \in {Meta(c, s, e, n) : c \in Commits, s \in 1..clock,
                                     e \in BOOLEAN, n \in 0..Cardinality(Files)}
    OBVIOUS
  <2>2. meta \in Metas
    BY <2>1, MetaFields DEF Types
  <2>3. PICK c \in Commits, s \in Nat, e \in BOOLEAN, n \in Counts : meta = Meta(c, s, e, n)
    BY <2>2 DEF Metas
  <2>4. s \in 1..clock
    <3>1. meta.stamp = s
      BY <2>3 DEF Meta
    <3> QED BY <2>1, <3>1 DEF Stamped
  <2> QED BY <2>3, <2>4 DEF Counts
<1>8. registry.there => registry.stamp \in 1..clock /\ registry.commit \in Commits
  BY EntryFields DEF Types, Stamped
<1>9. an.pc # "idle" => an.opt \in Options
  BY DEF Control
<1> QED
  BY <1>1, <1>3, <1>4, <1>5, <1>6, <1>7, <1>8, <1>9, AnalyzeFields DEF TypeOK

(* TypeOK: the database, meta.json, the registry and the locals of analyze have
   their types, for every number of commits, files and contents. *)
THEOREM IndexTypes == Spec => []TypeOK
<1>1. Inv => TypeOK
  BY InvTypes
<1> QED BY <1>1, IndexInvariant, PTL

(* VectorsCurrent: only restoring the cache of a rebuild, or a patch of all rows that
   fails to delete the embeddings, leaves an embedding beside another text than its own
   or without a row, and no embedding run of an analyze that ends leaves one on a row. *)
THEOREM EmbeddingsFollowText == Spec => VectorsCurrent
<1>1. Inv /\ [Next]_vars => [CurrentStep]_vars
  BY CurrentNext DEF Inv
<1> QED BY <1>1, IndexInvariant, PTL DEF Spec, VectorsCurrent

(* VectorsKept: when a patch or a rebuild saves its metadata, every text of an index
   that had embeddings has its own, but for those that could not be restored, for any
   limit on the nodes; off mode and indexes beyond the limit aside. *)
THEOREM EmbeddingsKept == Spec => []VectorsKept
<1>1. Inv => VectorsKept
  BY DEF Inv, Embeddings
<1> QED BY <1>1, IndexInvariant, PTL

(* IndexMatchesMeta: where trees are clean and HEAD stays while an analyze runs,
   an undamaged database holds the rows of the commit that meta.json names. *)
THEOREM MetadataIsTrue ==
  ASSUME CleanCheckouts
  PROVE  Spec => []IndexMatchesMeta
<1>1. Init => Inv /\ RowsKnown
  BY InvInit
<1>2. Inv /\ RowsKnown /\ [Next]_vars => (Inv /\ RowsKnown)'
  BY CleanCheckouts, TypesNext, StampedNext, ControlNext, EmbeddingsNext, RowsKnownNext DEF Inv
<1>3. Inv /\ RowsKnown => IndexMatchesMeta
  BY DEF RowsKnown
<1> QED BY <1>1, <1>2, <1>3, PTL DEF Spec

(* BackendCurrent: a pool whose stamp is that of meta.json reads the index that is
   there, as long as the backend has noted no other stamp while the pool was open. *)
THEOREM ReadersAreCurrent == Spec => []BackendCurrent
<1>1. Init => Inv /\ PoolFresh
  BY InvInit
<1>2. Inv /\ PoolFresh /\ [Next]_vars => (Inv /\ PoolFresh)'
  BY TypesNext, StampedNext, ControlNext, EmbeddingsNext, PoolFreshNext DEF Inv
<1>3. Inv /\ PoolFresh => BackendCurrent
  BY DEF Inv, Control, PoolFresh, BackendCurrent, BackendNoticesRebuild
<1> QED BY <1>1, <1>2, <1>3, PTL DEF Spec
=============================================================================
