------------------------------ MODULE ConnPool ------------------------------
(***************************************************************************)
(* The database connection pool (packages/core, core/cgdb/pool-adapter):   *)
(* one entry per repository with a fixed set of connections, databases     *)
(* shared by path and counted, an LRU bound on the number of entries, a    *)
(* waiter queue per entry with a timeout, and an idle timer.               *)
(*                                                                         *)
(* The code runs on one JavaScript thread: an action is the code between   *)
(* two awaits.  An entry is an object that outlives its place in the pool  *)
(* (queries in flight still hold it), so entries have identities 1, 2, ... *)
(* in the order their inits begin; a database has the identity of the      *)
(* entry whose init opened it.                                             *)
(***************************************************************************)
EXTENDS Naturals, Sequences, SequencesExt, FiniteSets

CONSTANTS
  Repos,         \* repository ids, the keys of the pool
  Paths,         \* database paths
  PathOf,        \* the path each repository's database is at
  Queries,       \* callers of executeQuery / executeParameterized
  MaxConns,      \* MAX_CONNS_PER_REPO
  MaxPool,       \* MAX_POOL_SIZE
  Attempts,      \* LOCK_RETRY_ATTEMPTS
  Scanners,      \* the callers whose query is a labelless node scan
  Labels,        \* the most label queries one labelless scan runs
  Lockable,      \* paths that another process may hold a lock on
  MaxEntries     \* bound: inits in one behaviour

ASSUME PathAssumption == PathOf \in [Repos -> Paths]
ASSUME BoundAssumption == 
  /\ {MaxConns, MaxPool, Attempts, Labels} \subseteq Nat \ {0}
  /\ MaxEntries \in Nat
ASSUME SubsetAssumption == Lockable \subseteq Paths /\ Scanners \subseteq Queries

VARIABLES
  pool,     \* repository -> its entry, 0 for none
  pending,  \* initPromises: repository -> the entry under construction, 0 for none
  entry,    \* the entries made so far: PoolEntry and the locals of its doInitCgdb
  older,    \* lastUsed: <<d, e>> when d was last used before e, for d and e in the pool
  cache,    \* dbCache: path -> database, 0 for none
  refs,     \* SharedDB.refCount of each database
  opened,   \* the databases that are open
  query     \* caller -> its place in executeQuery

vars == <<pool, pending, entry, older, cache, refs, opened, query>>

Conns == 1..MaxConns
Entries == 1..Len(entry)
Ids == 1..MaxEntries

(* Where an init is: before the answer of fs.stat, waiting to try a locked
   database again, loading the extensions, in the pool, or given up. *)
Stages == {"stat", "retry", "load", "ready", "failed"}

Registered == {e \in Entries : pool[entry[e].repo] = e}

(* A caller without a query. *)
Idle == [pc |-> "idle", entry |-> 0, conn |-> 0, left |-> 0]

(* The callers whose query runs on entry e, and the connections they hold. *)
Running(e) == {q \in Queries : query[q].pc = "running" /\ query[q].entry = e}
Held(e) == {query[q].conn : q \in Running(e)}

EntryRecords ==
  [repo : Repos, stage : Stages, attempt : 1..Attempts, db : 0..MaxEntries,
   available : SUBSET Conns, shut : SUBSET Conns, checkedOut : 0..MaxConns,
   waiters : Seq(Queries), closed : BOOLEAN]

QueryRecords ==
  [pc : {"idle", "waiting", "running", "next"}, entry : 0..Len(entry),
   conn : 0..MaxConns, left : 0..Labels]

TypeOK ==
  /\ pool \in [Repos -> 0..Len(entry)]
  /\ pending \in [Repos -> 0..Len(entry)]
  /\ entry \in Seq(EntryRecords)
  /\ Len(entry) <= MaxEntries
  /\ older \subseteq Entries \X Entries
  /\ cache \in [Paths -> 0..Len(entry)]
  /\ refs \in [Ids -> Nat]
  /\ opened \subseteq Entries
  /\ query \in [Queries -> QueryRecords]

Init ==
  /\ pool = [r \in Repos |-> 0]
  /\ pending = [r \in Repos |-> 0]
  /\ entry = <<>>
  /\ older = {}
  /\ cache = [p \in Paths |-> 0]
  /\ refs = [d \in Ids |-> 0]
  /\ opened = {}
  /\ query = [q \in Queries |-> Idle]
-----------------------------------------------------------------------------
(***************************************************************************)
(* Closing entries.                                                        *)
(***************************************************************************)

PathOfEntry(e) == PathOf[entry[e].repo]

(* closeOne: the entry as its queries in flight go on seeing it.  The waiters
   stay queued and checkedOut keeps its value. *)
ClosedEntry(e) ==
  [entry[e] EXCEPT !.closed = TRUE, !.available = {},
                   !.shut = @ \cup entry[e].available]

(* How many references the entries of S give back to the database cached
   under their path, and the cached databases that lose their last one. *)
GivenBack(S, p) == Cardinality({e \in S : PathOfEntry(e) = p})
(* Mutant: the database is closed with any of its repositories. *)
AnyUser(S, p) == cache[p] # 0 /\ GivenBack(S, p) > 0

LastUser(S, p) ==
  /\ cache[p] # 0
  /\ GivenBack(S, p) > 0
  /\ refs[cache[p]] <= GivenBack(S, p)

EntryWithout(S) == [e \in Entries |-> IF e \in S THEN ClosedEntry(e) ELSE entry[e]]
PoolWithout(S) == [r \in Repos |-> IF pool[r] \in S THEN 0 ELSE pool[r]]
OlderWithout(S) == {u \in older : u[1] \notin S /\ u[2] \notin S}
CacheWithout(S) == [p \in Paths |-> IF LastUser(S, p) THEN 0 ELSE cache[p]]
OpenedWithout(S) == opened \ {cache[p] : p \in {x \in Paths : LastUser(S, x)}}
RefsWithout(S) ==
  [d \in Ids |->
     LET given == {p \in Paths : cache[p] = d /\ GivenBack(S, p) > 0}
     IN  IF given = {} THEN refs[d]
         ELSE LET n == GivenBack(S, CHOOSE p \in given : TRUE)
              IN  IF refs[d] > n THEN refs[d] - n ELSE 0]

(* closeOne of every entry of S, one after the other.  The reference goes back
   to the database that is cached under the path now. *)
CloseAll(S) ==
  /\ entry' = EntryWithout(S)
  /\ pool' = PoolWithout(S)
  /\ older' = OlderWithout(S)
  /\ cache' = CacheWithout(S)
  /\ refs' = RefsWithout(S)
  /\ opened' = OpenedWithout(S)

(* closeCgdb(repoId) and closeCgdb(): a caller closes one entry or all. *)
CloseCgdb(S) ==
  /\ S # {}
  /\ CloseAll(S)
  /\ UNCHANGED <<pending, query>>

CloseOneRepo(r) == pool[r] # 0 /\ CloseCgdb({pool[r]})
CloseEveryRepo == CloseCgdb(Registered)

(* The idle timer closes the entries that no query holds and that were last
   used before some moment. *)
IdleTimer ==
  \E last \in Registered :
    CloseCgdb({e \in Registered : /\ e = last \/ <<e, last>> \in older
                                 /\ entry[e].checkedOut = 0})

(* evictLRU: at the bound, the least recently used entry no query holds. *)
Evicted ==
  LET idle == {e \in Registered : entry[e].checkedOut = 0}
  IN  IF Cardinality(Registered) < MaxPool
      THEN {}
      ELSE {e \in idle : \A d \in idle : <<d, e>> \notin older}
-----------------------------------------------------------------------------
(***************************************************************************)
(* Opening: initCgdb and doInitCgdb.                                       *)
(***************************************************************************)

Touch(e) == older' = OlderWithout({e}) \cup ((Registered \ {e}) \X {e})

NewEntry(r) ==
  [repo |-> r, stage |-> "stat", attempt |-> 1, db |-> 0,
   available |-> {}, shut |-> {}, checkedOut |-> 0, waiters |-> <<>>,
   closed |-> FALSE]

(* initCgdb up to its first await: an entry in the pool is touched, a pending
   init is joined, and otherwise a new init asks for the file's state. *)
InitCgdb(r) ==
  \/ /\ pool[r] # 0
     /\ Touch(pool[r])
     /\ UNCHANGED <<pool, pending, entry, cache, refs, opened, query>>
  \/ /\ pool[r] = 0
     /\ pending[r] = 0
     /\ Len(entry) < MaxEntries
     /\ entry' = Append(entry, NewEntry(r))
     /\ pending' = [pending EXCEPT ![r] = Len(entry')]
     /\ UNCHANGED <<pool, older, cache, refs, opened, query>>

(* The init of entry e rejects. *)
GiveUp(e) ==
  /\ entry' = [entry EXCEPT ![e].stage = "failed"]
  /\ pending' = [pending EXCEPT ![entry[e].repo] = 0]
  /\ UNCHANGED <<pool, older, cache, refs, opened, query>>

(* There is no such file. *)
StatFails(e) == entry[e].stage = "stat" /\ GiveUp(e)

(* The rest of the init of e once it has database d: the reference is counted
   and the connections are made in the same step; then the extensions load.
   E is what the entries are after an eviction. *)
Connected(E, e, d) ==
  [E EXCEPT ![e].stage = "load", ![e].db = d, ![e].available = Conns]

(* Mutant: the shared database is taken before the eviction that may close
   it. *)
ShareBeforeEviction(e) ==
  LET S == Evicted
      d == cache[PathOfEntry(e)]
  IN  /\ entry[e].stage = "stat"
      /\ d # 0
      /\ entry' = Connected(EntryWithout(S), e, d)
      /\ refs' = [RefsWithout(S) EXCEPT ![d] = @ + 1]
      /\ pool' = PoolWithout(S)
      /\ older' = OlderWithout(S)
      /\ cache' = CacheWithout(S)
      /\ opened' = OpenedWithout(S)
      /\ UNCHANGED <<pending, query>>

(* fs.stat answers: evict, then share the database cached under the path. *)
ShareDatabase(e) ==
  LET S == Evicted
      p == PathOfEntry(e)
      d == CacheWithout(S)[p]
  IN  /\ entry[e].stage = "stat"
      /\ d # 0
      /\ entry' = Connected(EntryWithout(S), e, d)
      /\ refs' = [RefsWithout(S) EXCEPT ![d] = @ + 1]
      /\ pool' = PoolWithout(S)
      /\ older' = OlderWithout(S)
      /\ cache' = CacheWithout(S)
      /\ opened' = OpenedWithout(S)
      /\ UNCHANGED <<pending, query>>

(* fs.stat answers and no database is cached: evict and open one. *)
OpenDatabase(e) ==
  LET S == Evicted
      p == PathOfEntry(e)
  IN  /\ entry[e].stage = "stat"
      /\ CacheWithout(S)[p] = 0
      /\ entry' = Connected(EntryWithout(S), e, e)
      /\ refs' = [RefsWithout(S) EXCEPT ![e] = 1]
      /\ pool' = PoolWithout(S)
      /\ older' = OlderWithout(S)
      /\ cache' = [CacheWithout(S) EXCEPT ![p] = e]
      /\ opened' = OpenedWithout(S) \cup {e}
      /\ UNCHANGED <<pending, query>>

(* ... or finds it locked, and waits to try again. *)
FindLocked(e) ==
  LET S == Evicted
  IN  /\ entry[e].stage = "stat"
      /\ CacheWithout(S)[PathOfEntry(e)] = 0
      /\ PathOfEntry(e) \in Lockable
      /\ Attempts > 1
      /\ entry' = [EntryWithout(S) EXCEPT ![e].stage = "retry", ![e].attempt = 2]
      /\ pool' = PoolWithout(S)
      /\ older' = OlderWithout(S)
      /\ cache' = CacheWithout(S)
      /\ refs' = RefsWithout(S)
      /\ opened' = OpenedWithout(S)
      /\ UNCHANGED <<pending, query>>

(* ... or cannot open it, for another reason than a lock or at the only attempt. *)
OpenFails(e) ==
  LET S == Evicted
  IN  /\ entry[e].stage = "stat"
      /\ CacheWithout(S)[PathOfEntry(e)] = 0
      /\ entry' = [EntryWithout(S) EXCEPT ![e].stage = "failed"]
      /\ pending' = [pending EXCEPT ![entry[e].repo] = 0]
      /\ pool' = PoolWithout(S)
      /\ older' = OlderWithout(S)
      /\ cache' = CacheWithout(S)
      /\ refs' = RefsWithout(S)
      /\ opened' = OpenedWithout(S)
      /\ UNCHANGED query

(* The delay is over: the database is opened and cached, whatever has been
   cached under the path meanwhile. *)
RetryOpens(e) ==
  /\ entry[e].stage = "retry"
  /\ entry' = Connected(entry, e, e)
  /\ refs' = [refs EXCEPT ![e] = 1]
  /\ cache' = [cache EXCEPT ![PathOfEntry(e)] = e]
  /\ opened' = opened \cup {e}
  /\ UNCHANGED <<pool, pending, older, query>>

RetryLocked(e) ==
  /\ entry[e].stage = "retry"
  /\ entry[e].attempt < Attempts
  /\ entry' = [entry EXCEPT ![e].attempt = @ + 1]
  /\ UNCHANGED <<pool, pending, older, cache, refs, opened, query>>

(* It is still locked at the last attempt, or does not open at this one. *)
RetryFails(e) == entry[e].stage = "retry" /\ GiveUp(e)

(* The extensions are loaded: the entry is registered. *)
Register(e) ==
  LET r == entry[e].repo
  IN  /\ entry[e].stage = "load"
      /\ entry' = [entry EXCEPT ![e].stage = "ready"]
      /\ pool' = [pool EXCEPT ![r] = e]
      /\ pending' = [pending EXCEPT ![r] = 0]
      /\ Touch(e)
      /\ UNCHANGED <<cache, refs, opened, query>>
-----------------------------------------------------------------------------
(***************************************************************************)
(* Queries: checkout, checkin and the two timeouts.                        *)
(***************************************************************************)

(* checkout by q on entry e, with n label queries to go after this one.  An
   entry with neither a connection to give nor all of them out is broken: the
   checkout throws, which ends a query and only skips the label of a scan. *)
Total(e) == Cardinality(entry[e].available) + entry[e].checkedOut
AfterError(e, n) ==
  IF n = 0 THEN Idle ELSE [pc |-> "next", entry |-> e, conn |-> 0, left |-> n]

Checkout(q, e, n) ==
  \/ \E c \in entry[e].available :
       /\ entry' = [entry EXCEPT ![e].available = @ \ {c},
                                 ![e].checkedOut = @ + 1]
       /\ query' = [query EXCEPT ![q] =
                      [pc |-> "running", entry |-> e, conn |-> c, left |-> n]]
  \/ /\ entry[e].available = {}
     /\ Total(e) < MaxConns
     /\ query' = [query EXCEPT ![q] = AfterError(e, n)]
     /\ UNCHANGED entry
  \/ /\ entry[e].available = {}
     /\ Total(e) >= MaxConns
     /\ entry' = [entry EXCEPT ![e].waiters = Append(@, q)]
     /\ query' = [query EXCEPT ![q] =
                    [pc |-> "waiting", entry |-> e, conn |-> 0, left |-> n]]

(* executeQuery: a plain query, or a scan of several labels one by one, on
   the entry the pool has now.  Without one it throws. *)
Execute(q, r) ==
  LET e == pool[r]
  IN  /\ query[q].pc = "idle"
      /\ e # 0
      /\ Touch(e)
      /\ \E n \in (IF q \in Scanners THEN 0..(Labels - 1) ELSE {0}) : Checkout(q, e, n)
      /\ UNCHANGED <<pool, pending, cache, refs, opened>>

(* The next label of a scan, on the entry the scan began with. *)
NextLabel(q) ==
  /\ query[q].pc = "next"
  /\ Checkout(q, query[q].entry, query[q].left - 1)
  /\ UNCHANGED <<pool, pending, older, cache, refs, opened>>

(* Mutant: the connection becomes available although somebody waits. *)
FinishPastWaiters(q) ==
  LET e == query[q].entry
      c == query[q].conn
  IN  /\ query[q].pc = "running"
      /\ query' = [query EXCEPT ![q] = AfterError(e, query[q].left)]
      /\ entry' = IF entry[e].closed
                   THEN [entry EXCEPT ![e].shut = @ \cup {c}]
                   ELSE [entry EXCEPT ![e].checkedOut = @ - 1,
                                      ![e].available = @ \cup {c}]
      /\ UNCHANGED <<pool, pending, older, cache, refs, opened>>

(* Mutant: the connection goes to the caller that came last. *)
FinishLastFirst(q) ==
  LET e == query[q].entry
      c == query[q].conn
      w == entry[e].waiters
  IN  /\ query[q].pc = "running"
      /\ ~entry[e].closed
      /\ w # <<>>
      /\ entry' = [entry EXCEPT ![e].waiters = Front(@)]
      /\ query' = [query EXCEPT ![q] = AfterError(e, query[q].left),
                                ![Last(w)].pc = "running",
                                ![Last(w)].conn = c]
      /\ UNCHANGED <<pool, pending, older, cache, refs, opened>>

(* Mutant: a hand-over gives the connection back as well. *)
FinishTwice(q) ==
  LET e == query[q].entry
      w == entry[e].waiters
  IN  /\ query[q].pc = "running"
      /\ w # <<>>
      /\ entry' = [entry EXCEPT ![e].waiters = Tail(@), ![e].checkedOut = @ - 1]
      /\ query' = [query EXCEPT ![q] = AfterError(e, query[q].left),
                                ![Head(w)].pc = "running",
                                ![Head(w)].conn = query[q].conn]
      /\ UNCHANGED <<pool, pending, older, cache, refs, opened>>

(* The query of q is answered, fails, or times out: checkin.  A closed entry
   closes the connection; a waiter gets it directly; otherwise it is available
   again. *)
Finish(q) ==
  LET e == query[q].entry
      c == query[q].conn
      after == [query EXCEPT ![q] = AfterError(e, query[q].left)]
      w == entry[e].waiters
  IN  /\ query[q].pc = "running"
      /\ \/ /\ entry[e].closed
            /\ entry' = [entry EXCEPT ![e].shut = @ \cup {c}]
            /\ query' = after
         \/ /\ ~entry[e].closed
            /\ w # <<>>
            /\ entry' = [entry EXCEPT ![e].waiters = Tail(@)]
            /\ query' = [after EXCEPT ![Head(w)].pc = "running",
                                      ![Head(w)].conn = c]
         \/ /\ ~entry[e].closed
            /\ w = <<>>
            /\ entry' = [entry EXCEPT ![e].checkedOut = @ - 1,
                                      ![e].available = @ \cup {c}]
            /\ query' = after
      /\ UNCHANGED <<pool, pending, older, cache, refs, opened>>

(* Mutant: the waiter leaves, and its place in the queue does not. *)
WaiterForgotten(q) ==
  LET e == query[q].entry
  IN  /\ query[q].pc = "waiting"
      /\ query' = [query EXCEPT ![q] = AfterError(e, query[q].left)]
      /\ UNCHANGED <<pool, pending, entry, older, cache, refs, opened>>

(* A waiter has waited long enough: it leaves the queue and gets an error. *)
WaiterTimeout(q) ==
  LET e == query[q].entry
  IN  /\ query[q].pc = "waiting"
      /\ \E i \in DOMAIN entry[e].waiters :
           /\ entry[e].waiters[i] = q
           /\ entry' = [entry EXCEPT ![e].waiters = RemoveAt(@, i)]
      /\ query' = [query EXCEPT ![q] = AfterError(e, query[q].left)]
      /\ UNCHANGED <<pool, pending, older, cache, refs, opened>>
-----------------------------------------------------------------------------
InitStep(e) ==
  \/ StatFails(e)
  \/ ShareDatabase(e)
  \/ OpenDatabase(e)
  \/ FindLocked(e)
  \/ OpenFails(e)
  \/ RetryOpens(e)
  \/ RetryLocked(e)
  \/ RetryFails(e)
  \/ Register(e)

QueryStep(q) == NextLabel(q) \/ Finish(q) \/ WaiterTimeout(q)

Next ==
  \/ \E r \in Repos : InitCgdb(r) \/ CloseOneRepo(r)
  \/ CloseEveryRepo
  \/ IdleTimer
  \/ \E e \in Entries : InitStep(e)
  \/ \E q \in Queries : QueryStep(q) \/ \E r \in Repos : Execute(q, r)

Spec == Init /\ [][Next]_vars

-----------------------------------------------------------------------------
(***************************************************************************)
(* Properties.                                                             *)
(***************************************************************************)

(* The connections of an entry whose init got that far are all accounted for:
   each is available, held by exactly one query, or closed; none is closed
   while a query holds it, and no two queries hold the same one.  An entry that
   was registered leaves the pool only by being closed. *)
ConnectionsAccounted ==
  \A e \in Entries : entry[e].stage \in {"load", "ready"} =>
    /\ entry[e].stage = "ready" => (entry[e].closed <=> e \notin Registered)
    /\ entry[e].available \cup Held(e) \cup entry[e].shut = Conns
    /\ Cardinality(entry[e].available) + Cardinality(Running(e))
         + Cardinality(entry[e].shut) = MaxConns

(* checkedOut counts the holders as long as the entry is open, so that the
   "pool integrity error" of checkout is never raised on an open entry, and
   nobody waits beside a free connection: a waiter means that every connection
   is with a query that will hand it over. *)
NoWaitBesideFree ==
  \A e \in Entries : ~entry[e].closed =>
    /\ entry[e].checkedOut = Cardinality(Running(e))
    /\ entry[e].waiters # <<>> => Cardinality(Running(e)) = MaxConns
    /\ ToSet(entry[e].waiters) = {q \in Queries : query[q].pc = "waiting"
                                                  /\ query[q].entry = e}

(* An entry of the pool, and an init that has its connections, use an open
   database, the one that is cached under the path, whose count is the number
   of such users.  A database nobody counts is closed. *)
Users(d) == {e \in Entries : entry[e].db = d /\ (entry[e].stage = "load" \/ e \in Registered)}
DatabasesCounted ==
  \A d \in Entries :
    /\ refs[d] = Cardinality(Users(d))
    /\ d \in opened <=> Users(d) # {}
    /\ d \in opened <=> \E p \in Paths : cache[p] = d

(* A query of an open entry, even one that waits, has an open database: another
   repository on the same path that is evicted, closed or idle does not take
   it away. *)
QueriesKeepDatabase ==
  \A q \in Queries :
    LET e == query[q].entry
    IN  query[q].pc \in {"running", "waiting"} /\ ~entry[e].closed => entry[e].db \in opened
=============================================================================
