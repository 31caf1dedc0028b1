--------------------------- MODULE ConnPoolProofs ---------------------------
(***************************************************************************)
(* Proofs about the connections of the pool's entries, for any numbers of  *)
(* repositories, queries, connections and inits: the inductive invariant   *)
(* Inv, the properties that follow from it, the refinement of Permits, and *)
(* the databases that entries share.                                       *)
(***************************************************************************)
EXTENDS ConnPoolRefinement, FiniteSetTheorems, FunctionTheorems, SequenceTheorems, TLAPS

(* Where the inits stand: an entry under construction is the pending one of
   its repository, a registered one is open, and an open one that got that far
   is registered. *)
Opening(e) == entry[e].stage \in {"stat", "retry", "load"}
InitsOrdered ==
  /\ \A r \in Repos : pool[r] # 0 =>
       /\ entry[pool[r]].repo = r
       /\ entry[pool[r]].stage = "ready"
       /\ ~entry[pool[r]].closed
  /\ \A r \in Repos : pending[r] # 0 => /\ entry[pending[r]].repo = r
                                        /\ Opening(pending[r])
                                        /\ pool[r] = 0
  /\ \A e \in Entries : Opening(e) => pending[entry[e].repo] = e
  /\ \A e \in Entries : entry[e].stage = "ready" /\ ~entry[e].closed
                          => pool[entry[e].repo] = e

(* Before it is registered an entry serves nobody. *)
Untouched(e) ==
  /\ entry[e].stage = "load" => entry[e].available = Conns
  /\ entry[e].stage # "ready" => /\ entry[e].shut = {}
                                 /\ entry[e].checkedOut = 0
                                 /\ entry[e].waiters = <<>>
                                 /\ ~entry[e].closed

(* The connections of a registered entry, open or closed. *)
ConnsOK(e) ==
  entry[e].stage = "ready" =>
    /\ entry[e].available \cap entry[e].shut = {}
    /\ \A c \in Conns \ (entry[e].available \cup entry[e].shut) :
         \E q \in Queries : q \in Running(e) /\ query[q].conn = c
    /\ entry[e].closed => entry[e].available = {}
    /\ ~entry[e].closed =>
         /\ entry[e].shut = {}
         /\ entry[e].checkedOut + Cardinality(entry[e].available) = MaxConns
         /\ entry[e].waiters # <<>> => entry[e].available = {}

(* The queue of an entry holds its waiters, each once. *)
Waits(q, e) == query[q].pc = "waiting" /\ query[q].entry = e
QueueOK(e) ==
  LET w == entry[e].waiters
  IN  /\ \A i \in DOMAIN w : Waits(w[i], e)
      /\ \A i, j \in DOMAIN w : w[i] = w[j] => i = j
      /\ \A q \in Queries : Waits(q, e) => \E i \in DOMAIN w : w[i] = q

(* A query under way is on an entry that was registered, and a running one
   holds a connection that is its own. *)
QueryOK(q) ==
  LET e == query[q].entry
      c == query[q].conn
  IN  /\ query[q].pc # "idle" => e \in Entries /\ entry[e].stage = "ready"
      /\ query[q].pc = "next" => query[q].left > 0
      /\ query[q].pc = "running" =>
           /\ c \in Conns \ (entry[e].available \cup entry[e].shut)
           /\ \A r \in Running(e) : query[r].conn = c => r = q

Inv ==
  /\ TypeOK
  /\ InitsOrdered
  /\ \A e \in Entries : Untouched(e) /\ ConnsOK(e) /\ QueueOK(e)
  /\ \A q \in Queries : QueryOK(q)

-----------------------------------------------------------------------------
(* Types *)

LEMMA EntryAt ==
  ASSUME TypeOK, NEW e \in Entries
  PROVE  entry[e] \in EntryRecords
  BY DEF TypeOK, Entries

LEMMA EntryCount ==
  ASSUME TypeOK
  PROVE  /\ Len(entry) \in Nat
         /\ Entries = DOMAIN entry
         /\ Entries \subseteq Ids
         /\ MaxEntries \in Nat
  BY BoundAssumption DEF TypeOK, Entries, Ids

LEMMA MapEntries ==
  ASSUME TypeOK, NEW f \in [Entries -> EntryRecords]
  PROVE  f \in Seq(EntryRecords) /\ Len(f) = Len(entry)
  <1>1. Len(entry) \in Nat
    BY EntryCount
  <1>2. f \in Seq(EntryRecords)
    BY <1>1 DEF Entries
  <1> QED
    BY <1>1, <1>2, LenProperties DEF Entries

LEMMA EntriesFinite ==
  ASSUME TypeOK, NEW S \in SUBSET Entries
  PROVE  IsFiniteSet(S) /\ Cardinality(S) \in Nat
  <1>1. IsFiniteSet(Entries)
    BY EntryCount, FS_Interval DEF Entries
  <1> QED
    BY <1>1, FS_Subset, FS_CardinalityType

LEMMA RegisteredType ==
  Registered \subseteq Entries
  BY DEF Registered

LEMMA EvictedType ==
  Evicted \subseteq Registered
  BY DEF Evicted

LEMMA WithoutEntry ==
  ASSUME TypeOK, NEW S \in SUBSET Entries
  PROVE  /\ EntryWithout(S) \in Seq(EntryRecords)
         /\ Len(EntryWithout(S)) = Len(entry)
         /\ DOMAIN EntryWithout(S) = Entries
         /\ \A e \in Entries : EntryWithout(S)[e] = IF e \in S THEN ClosedEntry(e) ELSE entry[e]
  <1>1. ASSUME NEW e \in Entries
        PROVE  ClosedEntry(e) \in EntryRecords
    BY EntryAt DEF EntryRecords, ClosedEntry
  <1>2. EntryWithout(S) \in [Entries -> EntryRecords]
    BY <1>1, EntryAt DEF EntryWithout
  <1> QED
    BY <1>2, MapEntries DEF EntryWithout

LEMMA WithoutTypes ==
  ASSUME TypeOK, NEW S \in SUBSET Entries
  PROVE  /\ PoolWithout(S) \in [Repos -> 0..Len(entry)]
         /\ OlderWithout(S) \subseteq Entries \X Entries
         /\ CacheWithout(S) \in [Paths -> 0..Len(entry)]
         /\ OpenedWithout(S) \subseteq Entries
         /\ RefsWithout(S) \in [Ids -> Nat]
  <1>1. PoolWithout(S) \in [Repos -> 0..Len(entry)]
    BY EntryCount DEF PoolWithout, TypeOK
  <1>2. OlderWithout(S) \subseteq Entries \X Entries
    BY DEF OlderWithout, TypeOK
  <1>3. CacheWithout(S) \in [Paths -> 0..Len(entry)]
    BY EntryCount DEF CacheWithout, TypeOK
  <1>4. OpenedWithout(S) \subseteq Entries
    BY DEF OpenedWithout, TypeOK
  <1>5. ASSUME NEW p PROVE GivenBack(S, p) \in Nat
    BY EntriesFinite DEF GivenBack
  <1>6. RefsWithout(S) \in [Ids -> Nat]
    <2> SUFFICES ASSUME NEW d \in Ids PROVE RefsWithout(S)[d] \in Nat
      BY DEF RefsWithout
    <2>1. refs[d] \in Nat
      BY DEF TypeOK
    <2>2. \A n \in Nat : (IF refs[d] > n THEN refs[d] - n ELSE 0) \in Nat
      BY <2>1
    <2> QED
      BY <1>5, <2>1, <2>2 DEF RefsWithout
  <1> QED
    BY <1>1, <1>2, <1>3, <1>4, <1>6

(* A step that changes entries in place, and adds or removes none. *)
InPlace ==
  /\ entry' \in [Entries -> EntryRecords]
  /\ entry' \in Seq(EntryRecords)
  /\ Len(entry') = Len(entry)

LEMMA InPlaceBy ==
  ASSUME TypeOK, entry' \in [Entries -> EntryRecords]
  PROVE  InPlace /\ Entries' = Entries
  BY MapEntries DEF InPlace, Entries

LEMMA GiveUpType ==
  ASSUME TypeOK, NEW e \in Entries, GiveUp(e)
  PROVE  TypeOK'
  <1>1. [entry[e] EXCEPT !.stage = "failed"] \in EntryRecords
    BY EntryAt DEF EntryRecords, Stages
  <1>2. entry' \in [Entries -> EntryRecords]
    BY <1>1, EntryAt, EntryCount DEF GiveUp, TypeOK
  <1>3. InPlace /\ Entries' = Entries
    BY <1>2, InPlaceBy
  <1>5. 0 \in 0..Len(entry)
    BY EntryCount
  <1>4. pending' \in [Repos -> 0..Len(entry)]
    BY <1>5 DEF GiveUp, TypeOK
  <1> QED
    BY <1>3, <1>4 DEF GiveUp, TypeOK, InPlace, QueryRecords

LEMMA ConnectedType ==
  ASSUME TypeOK, NEW E \in [Entries -> EntryRecords], NEW e \in Entries, NEW d \in Entries
  PROVE  Connected(E, e, d) \in [Entries -> EntryRecords]
  <1>1. d \in 0..MaxEntries /\ "load" \in Stages
    BY EntryCount DEF Ids, Stages
  <1>2. ASSUME NEW x \in EntryRecords
        PROVE  [x EXCEPT !.stage = "load", !.db = d, !.available = Conns] \in EntryRecords
    BY <1>1 DEF EntryRecords
  <1> QED
    BY <1>2 DEF Connected

LEMMA WithoutMap ==
  ASSUME TypeOK, NEW S \in SUBSET Entries
  PROVE  EntryWithout(S) \in [Entries -> EntryRecords]
  <1>1. ASSUME NEW e \in Entries
        PROVE  ClosedEntry(e) \in EntryRecords
    BY EntryAt DEF EntryRecords, ClosedEntry
  <1> QED
    BY <1>1, EntryAt DEF EntryWithout

LEMMA EvictedEntries == Evicted \in SUBSET Entries
  BY DEF Evicted, Registered

LEMMA ShareType ==
  ASSUME TypeOK, NEW e \in Entries, ShareDatabase(e)
  PROVE  TypeOK'
  <1> DEFINE S == Evicted
             d == CacheWithout(S)[PathOfEntry(e)]
  <1>1. PathOfEntry(e) \in Paths
    BY EntryAt, PathAssumption DEF PathOfEntry, EntryRecords
  <1>2. d \in Entries
    BY <1>1, EvictedEntries, WithoutTypes, EntryCount DEF ShareDatabase, Entries
  <1>3. entry' \in [Entries -> EntryRecords]
    BY <1>2, EvictedEntries, WithoutMap, ConnectedType DEF ShareDatabase
  <1>4. InPlace /\ Entries' = Entries
    BY <1>3, InPlaceBy
  <1>5. refs' \in [Ids -> Nat]
    BY <1>2, EvictedEntries, WithoutTypes, EntryCount DEF ShareDatabase
  <1> QED
    BY <1>4, <1>5, EvictedEntries, WithoutTypes DEF ShareDatabase, TypeOK, InPlace, QueryRecords

LEMMA OpenType ==
  ASSUME TypeOK, NEW e \in Entries, OpenDatabase(e)
  PROVE  TypeOK'
  <1>1. PathOfEntry(e) \in Paths
    BY EntryAt, PathAssumption DEF PathOfEntry, EntryRecords
  <1>2. entry' \in [Entries -> EntryRecords]
    BY EvictedEntries, WithoutMap, ConnectedType DEF OpenDatabase
  <1>3. InPlace /\ Entries' = Entries
    BY <1>2, InPlaceBy
  <1>4. refs' \in [Ids -> Nat]
    BY EvictedEntries, WithoutTypes, EntryCount DEF OpenDatabase
  <1>5. cache' \in [Paths -> 0..Len(entry)]
    BY <1>1, EvictedEntries, WithoutTypes, EntryCount DEF OpenDatabase, Entries
  <1> QED
    BY <1>3, <1>4, <1>5, EvictedEntries, WithoutTypes DEF OpenDatabase, TypeOK, InPlace, QueryRecords

LEMMA FindLockedType ==
  ASSUME TypeOK, NEW e \in Entries, FindLocked(e)
  PROVE  TypeOK'
  <1>1. EntryWithout(Evicted) \in [Entries -> EntryRecords]
    BY EvictedEntries, WithoutMap
  <1>2. 2 \in 1..Attempts /\ "retry" \in Stages
    BY BoundAssumption DEF FindLocked, Stages
  <1>3. [EntryWithout(Evicted)[e] EXCEPT !.stage = "retry", !.attempt = 2] \in EntryRecords
    BY <1>1, <1>2 DEF EntryRecords
  <1>4. entry' \in [Entries -> EntryRecords]
    BY <1>1, <1>3 DEF FindLocked
  <1>5. InPlace /\ Entries' = Entries
    BY <1>4, InPlaceBy
  <1> QED
    BY <1>5, EvictedEntries, WithoutTypes DEF FindLocked, TypeOK, InPlace, QueryRecords

LEMMA OpenFailsType ==
  ASSUME TypeOK, NEW e \in Entries, OpenFails(e)
  PROVE  TypeOK'
  <1>1. EntryWithout(Evicted) \in [Entries -> EntryRecords]
    BY EvictedEntries, WithoutMap
  <1>2. [EntryWithout(Evicted)[e] EXCEPT !.stage = "failed"] \in EntryRecords
    BY <1>1 DEF EntryRecords, Stages
  <1>3. entry' \in [Entries -> EntryRecords]
    BY <1>1, <1>2 DEF OpenFails
  <1>4. InPlace /\ Entries' = Entries
    BY <1>3, InPlaceBy
  <1>5. 0 \in 0..Len(entry)
    BY EntryCount
  <1>6. pending' \in [Repos -> 0..Len(entry)]
    BY <1>5 DEF OpenFails, TypeOK
  <1> QED
    BY <1>4, <1>6, EvictedEntries, WithoutTypes DEF OpenFails, TypeOK, InPlace, QueryRecords

LEMMA RetryTypes ==
  ASSUME TypeOK, NEW e \in Entries, RetryOpens(e) \/ RetryLocked(e)
  PROVE  TypeOK'
  <1>1. CASE RetryOpens(e)
    <2>1. PathOfEntry(e) \in Paths
      BY EntryAt, PathAssumption DEF PathOfEntry, EntryRecords
    <2>2. entry \in [Entries -> EntryRecords]
      BY EntryAt, EntryCount DEF TypeOK
    <2>3. entry' \in [Entries -> EntryRecords]
      BY <1>1, <2>2, ConnectedType DEF RetryOpens
    <2>4. InPlace /\ Entries' = Entries
      BY <2>3, InPlaceBy
    <2>5. refs' \in [Ids -> Nat]
      BY <1>1, EntryCount DEF RetryOpens, TypeOK
    <2>6. cache' \in [Paths -> 0..Len(entry)]
      BY <1>1, <2>1, EntryCount DEF RetryOpens, TypeOK, Entries
    <2> QED
      BY <1>1, <2>4, <2>5, <2>6 DEF RetryOpens, TypeOK, InPlace, QueryRecords
  <1>2. CASE RetryLocked(e)
    <2>1. entry[e].attempt + 1 \in 1..Attempts
      BY <1>2, EntryAt, BoundAssumption DEF RetryLocked, EntryRecords
    <2>2. [entry[e] EXCEPT !.attempt = @ + 1] \in EntryRecords
      BY <2>1, EntryAt DEF EntryRecords
    <2>3. entry' \in [Entries -> EntryRecords]
      BY <1>2, <2>2, EntryAt, EntryCount DEF RetryLocked, TypeOK
    <2>4. InPlace /\ Entries' = Entries
      BY <2>3, InPlaceBy
    <2> QED
      BY <1>2, <2>4 DEF RetryLocked, TypeOK, InPlace, QueryRecords
  <1> QED
    BY <1>1, <1>2

LEMMA TouchType ==
  ASSUME TypeOK, NEW e \in Entries, Touch(e)
  PROVE  older' \subseteq Entries \X Entries
  BY RegisteredType DEF Touch, TypeOK, OlderWithout

LEMMA RegisterType ==
  ASSUME TypeOK, NEW e \in Entries, Register(e)
  PROVE  TypeOK'
  <1>1. [entry[e] EXCEPT !.stage = "ready"] \in EntryRecords
    BY EntryAt DEF EntryRecords, Stages
  <1>2. entry' \in [Entries -> EntryRecords]
    BY <1>1, EntryAt, EntryCount DEF Register, TypeOK
  <1>3. InPlace /\ Entries' = Entries
    BY <1>2, InPlaceBy
  <1>4. older' \subseteq Entries \X Entries
    BY TouchType DEF Register
  <1>5. 0 \in 0..Len(entry) /\ e \in 0..Len(entry)
    BY EntryCount DEF Entries
  <1>6. pool' \in [Repos -> 0..Len(entry)] /\ pending' \in [Repos -> 0..Len(entry)]
    BY <1>5 DEF Register, TypeOK
  <1> QED
    BY <1>3, <1>4, <1>6 DEF Register, TypeOK, InPlace, QueryRecords

LEMMA InitCgdbType ==
  ASSUME TypeOK, NEW r \in Repos, InitCgdb(r)
  PROVE  TypeOK'
  <1>1. CASE pool[r] # 0 /\ Touch(pool[r])
             /\ UNCHANGED <<pool, pending, entry, cache, refs, opened, query>>
    <2>1. pool[r] \in Entries
      BY <1>1, EntryCount DEF TypeOK, Entries
    <2> QED
      BY <1>1, <2>1, TouchType DEF TypeOK, Entries, QueryRecords
  <1>2. CASE /\ pool[r] = 0
             /\ pending[r] = 0
             /\ Len(entry) < MaxEntries
             /\ entry' = Append(entry, NewEntry(r))
             /\ pending' = [pending EXCEPT ![r] = Len(entry')]
             /\ UNCHANGED <<pool, older, cache, refs, opened, query>>
    <2>1. NewEntry(r) \in EntryRecords
      BY BoundAssumption DEF NewEntry, EntryRecords, Stages
    <2>2. entry' \in Seq(EntryRecords) /\ Len(entry') = Len(entry) + 1
      BY <1>2, <2>1, AppendProperties DEF TypeOK
    <2>3. Len(entry) \in Nat /\ MaxEntries \in Nat
      BY EntryCount
    <2>4. 0..Len(entry) \subseteq 0..Len(entry') /\ Entries \subseteq Entries'
          /\ Len(entry') \in 0..Len(entry')
      BY <2>2, <2>3 DEF Entries
    <2>5. pool' \in [Repos -> 0..Len(entry')] /\ pending' \in [Repos -> 0..Len(entry')]
          /\ cache' \in [Paths -> 0..Len(entry')]
      BY <1>2, <2>4 DEF TypeOK
    <2>6. query' \in [Queries -> QueryRecords']
      <3>1. QueryRecords \subseteq QueryRecords'
        BY <2>4 DEF QueryRecords
      <3> QED
        BY <1>2, <3>1 DEF TypeOK
    <2>7. Len(entry') <= MaxEntries
      BY <1>2, <2>2, <2>3
    <2> QED
      BY <1>2, <2>2, <2>4, <2>5, <2>6, <2>7 DEF TypeOK
  <1> QED
    BY <1>1, <1>2 DEF InitCgdb

LEMMA CloseType ==
  ASSUME TypeOK, NEW S \in SUBSET Entries, CloseCgdb(S)
  PROVE  TypeOK'
  <1>1. entry' \in [Entries -> EntryRecords]
    BY WithoutMap DEF CloseCgdb, CloseAll
  <1>2. InPlace /\ Entries' = Entries
    BY <1>1, InPlaceBy
  <1> QED
    BY <1>2, WithoutTypes DEF CloseCgdb, CloseAll, TypeOK, InPlace, QueryRecords

LEMMA ConnsFinite ==
  /\ IsFiniteSet(Conns)
  /\ Cardinality(Conns) = MaxConns
  /\ MaxConns \in Nat \ {0}
  /\ \A S \in SUBSET Conns : /\ IsFiniteSet(S)
                             /\ Cardinality(S) \in Nat
                             /\ Cardinality(S) <= MaxConns
                             /\ Cardinality(S) = MaxConns => S = Conns
                             /\ Cardinality(S) = 0 <=> S = {}
  <1>1. MaxConns \in Nat \ {0}
    BY BoundAssumption
  <1>2. IsFiniteSet(Conns) /\ Cardinality(Conns) = MaxConns
    BY <1>1, FS_Interval DEF Conns
  <1> QED
    BY <1>1, <1>2, FS_Subset, FS_CardinalityType, FS_EmptySet

LEMMA EntryMap ==
  ASSUME TypeOK
  PROVE  entry \in [Entries -> EntryRecords]
  BY EntryAt, EntryCount DEF TypeOK

LEMMA SetEntry ==
  ASSUME TypeOK, NEW e \in Entries, NEW x \in EntryRecords,
         NEW E, E = [entry EXCEPT ![e] = x]
  PROVE  E \in [Entries -> EntryRecords]
  BY EntryMap

LEMMA AfterErrorType ==
  ASSUME TypeOK, NEW e \in Entries, NEW n \in 0..Labels
  PROVE  AfterError(e, n) \in QueryRecords
  <1>1. e \in 0..Len(entry) /\ 0 \in 0..Len(entry)
    BY EntryCount DEF Entries
  <1>2. 0 \in 0..MaxConns /\ 0 \in 0..Labels
    BY BoundAssumption
  <1> QED
    BY <1>1, <1>2 DEF AfterError, QueryRecords, Idle

LEMMA CheckoutType ==
  ASSUME Inv, NEW q \in Queries, NEW e \in Entries, NEW n \in 0..Labels,
         entry[e].stage = "ready", Checkout(q, e, n)
  PROVE  entry' \in [Entries -> EntryRecords] /\ query' \in [Queries -> QueryRecords]
  <1>0. TypeOK
    BY DEF Inv
  <1>1. entry[e] \in EntryRecords
    BY <1>0, EntryAt
  <1>2. e \in 0..Len(entry) /\ 0 \in 0..MaxConns /\ Conns \subseteq 0..MaxConns
    BY <1>0, EntryCount, BoundAssumption DEF Entries, Conns
  <1>3. ASSUME NEW c \in entry[e].available,
               entry' = [entry EXCEPT ![e].available = @ \ {c},
                                      ![e].checkedOut = @ + 1],
               query' = [query EXCEPT ![q] =
                           [pc |-> "running", entry |-> e, conn |-> c, left |-> n]]
        PROVE  entry' \in [Entries -> EntryRecords] /\ query' \in [Queries -> QueryRecords]
    <2>1. entry[e].available \in SUBSET Conns /\ entry[e].checkedOut \in 0..MaxConns
      BY <1>1 DEF EntryRecords
    <2>2. ~entry[e].closed
      BY <1>3 DEF ConnsOK, Inv
    <2>3. entry[e].checkedOut + Cardinality(entry[e].available) = MaxConns
      BY <2>2 DEF ConnsOK, Inv
    <2>4. Cardinality(entry[e].available) \in Nat \ {0}
      BY <2>1, ConnsFinite
    <2>5. entry[e].checkedOut + 1 \in 0..MaxConns
      BY <2>1, <2>3, <2>4, ConnsFinite
    <2>6. [entry[e] EXCEPT !.available = @ \ {c}, !.checkedOut = @ + 1] \in EntryRecords
      BY <1>1, <2>5 DEF EntryRecords
    <2>7. entry' = [entry EXCEPT ![e] = [entry[e] EXCEPT !.available = @ \ {c}, !.checkedOut = @ + 1]]
      BY <1>0, <1>3, EntryMap
    <2>9. entry' \in [Entries -> EntryRecords]
      BY <1>0, <2>6, <2>7, SetEntry, <1>0
    <2>8. [pc |-> "running", entry |-> e, conn |-> c, left |-> n] \in QueryRecords
      BY <1>2, <2>1 DEF QueryRecords
    <2> QED
      BY <1>0, <1>3, <2>9, <2>8 DEF TypeOK
  <1>4. ASSUME query' = [query EXCEPT ![q] = AfterError(e, n)], entry' = entry
        PROVE  entry' \in [Entries -> EntryRecords] /\ query' \in [Queries -> QueryRecords]
    BY <1>0, <1>4, AfterErrorType, EntryMap DEF TypeOK
  <1>5. ASSUME entry' = [entry EXCEPT ![e].waiters = Append(@, q)],
               query' = [query EXCEPT ![q] =
                          [pc |-> "waiting", entry |-> e, conn |-> 0, left |-> n]]
        PROVE  entry' \in [Entries -> EntryRecords] /\ query' \in [Queries -> QueryRecords]
    <2>1. Append(entry[e].waiters, q) \in Seq(Queries)
      BY <1>1, AppendProperties DEF EntryRecords
    <2>2. [entry[e] EXCEPT !.waiters = Append(@, q)] \in EntryRecords
      BY <1>1, <2>1 DEF EntryRecords
    <2>3. entry' \in [Entries -> EntryRecords]
      BY <1>5, <2>2, SetEntry, <1>0
    <2>4. [pc |-> "waiting", entry |-> e, conn |-> 0, left |-> n] \in QueryRecords
      BY <1>2 DEF QueryRecords
    <2> QED
      BY <1>0, <1>5, <2>3, <2>4 DEF TypeOK
  <1> QED
    BY <1>3, <1>4, <1>5 DEF Checkout

LEMMA FinishType ==
  ASSUME Inv, NEW q \in Queries, Finish(q)
  PROVE  TypeOK' /\ Entries' = Entries
  <1>0. TypeOK
    BY DEF Inv
  <1> DEFINE e == query[q].entry
             c == query[q].conn
             w == entry[e].waiters
             after == [query EXCEPT ![q] = AfterError(e, query[q].left)]
  <1>1. e \in Entries /\ entry[e].stage = "ready" /\ query[q].left \in 0..Labels
        /\ c \in Conns \ (entry[e].available \cup entry[e].shut)
    BY DEF Finish, QueryOK, TypeOK, Inv, QueryRecords
  <1>2. after \in [Queries -> QueryRecords]
    BY <1>1, <1>0, AfterErrorType DEF TypeOK
  <1>3. entry[e] \in EntryRecords
    BY <1>0, <1>1, EntryAt
  <1>4. c \in 0..MaxConns
    BY <1>1, BoundAssumption DEF Conns
  <1>5. ASSUME entry[e].closed, entry' = [entry EXCEPT ![e].shut = @ \cup {c}], query' = after
        PROVE  entry' \in [Entries -> EntryRecords] /\ query' \in [Queries -> QueryRecords]
    <2>1. [entry[e] EXCEPT !.shut = @ \cup {c}] \in EntryRecords
      BY <1>1, <1>3 DEF EntryRecords
    <2> QED
      BY <1>1, <1>2, <1>5, <2>1, SetEntry, <1>0
  <1>6. ASSUME w # <<>>, entry' = [entry EXCEPT ![e].waiters = Tail(@)],
               query' = [after EXCEPT ![Head(w)].pc = "running", ![Head(w)].conn = c]
        PROVE  entry' \in [Entries -> EntryRecords] /\ query' \in [Queries -> QueryRecords]
    <2>1. Tail(w) \in Seq(Queries) /\ Head(w) \in Queries
      BY <1>3, <1>6, HeadTailProperties DEF EntryRecords
    <2>2. [entry[e] EXCEPT !.waiters = Tail(@)] \in EntryRecords
      BY <1>3, <2>1 DEF EntryRecords
    <2>3. entry' \in [Entries -> EntryRecords]
      BY <1>1, <1>6, <2>2, SetEntry, <1>0
    <2>4. ASSUME NEW x \in QueryRecords
          PROVE  [x EXCEPT !.pc = "running", !.conn = c] \in QueryRecords
      BY <1>4 DEF QueryRecords
    <2>5. query' \in [Queries -> QueryRecords]
      BY <1>2, <1>6, <2>1, <2>4
    <2> QED
      BY <2>3, <2>5
  <1>7. ASSUME ~entry[e].closed,
               entry' = [entry EXCEPT ![e].checkedOut = @ - 1,
                                      ![e].available = @ \cup {c}],
               query' = after
        PROVE  entry' \in [Entries -> EntryRecords] /\ query' \in [Queries -> QueryRecords]
    <2>1. entry[e].available \in SUBSET Conns /\ entry[e].checkedOut \in 0..MaxConns
      BY <1>3 DEF EntryRecords
    <2>2. entry[e].checkedOut + Cardinality(entry[e].available) = MaxConns
      BY <1>1, <1>7 DEF ConnsOK, Inv
    <2>3. Cardinality(entry[e].available) # MaxConns
      BY <1>1, <2>1, ConnsFinite
    <2>4. entry[e].checkedOut - 1 \in 0..MaxConns
      BY <2>1, <2>2, <2>3, ConnsFinite
    <2>5. [entry[e] EXCEPT !.checkedOut = @ - 1, !.available = @ \cup {c}] \in EntryRecords
      BY <1>1, <1>3, <2>4 DEF EntryRecords
    <2>6. entry' = [entry EXCEPT ![e] = [entry[e] EXCEPT !.checkedOut = @ - 1, !.available = @ \cup {c}]]
      BY <1>0, <1>1, <1>7, EntryMap
    <2> QED
      BY <1>0, <1>1, <1>2, <1>7, <2>5, <2>6, SetEntry, <1>0
  <1>8. entry' \in [Entries -> EntryRecords] /\ query' \in [Queries -> QueryRecords]
    BY <1>5, <1>6, <1>7 DEF Finish
  <1>9. InPlace /\ Entries' = Entries
    BY <1>0, <1>8, InPlaceBy
  <1> QED
    BY <1>0, <1>8, <1>9 DEF Finish, TypeOK, InPlace, QueryRecords

LEMMA RemoveAtProperties ==
  ASSUME NEW T, NEW s \in Seq(T), NEW i \in 1..Len(s)
  PROVE  /\ RemoveAt(s, i) \in Seq(T)
         /\ Len(RemoveAt(s, i)) = Len(s) - 1
         /\ \A j \in 1..(Len(s) - 1) : RemoveAt(s, i)[j] = IF j < i THEN s[j] ELSE s[j + 1]
  <1> DEFINE a == SubSeq(s, 1, i - 1)
             b == SubSeq(s, i + 1, Len(s))
  <1>1. Len(s) \in Nat
    BY LenProperties
  <1>2. /\ a \in Seq(T) /\ Len(a) = i - 1
        /\ \A j \in 1..(i - 1) : a[j] = s[j]
    BY <1>1, SubSeqProperties
  <1>3. /\ b \in Seq(T) /\ Len(b) = Len(s) - i
        /\ \A j \in 1..(Len(s) - i) : b[j] = s[j + i]
    BY <1>1, SubSeqProperties
  <1>4. RemoveAt(s, i) = a \o b
    BY DEF RemoveAt
  <1> HIDE DEF a, b
  <1>5. /\ a \o b \in Seq(T) /\ Len(a \o b) = Len(a) + Len(b)
        /\ \A j \in 1..(Len(a) + Len(b)) :
             (a \o b)[j] = IF j <= Len(a) THEN a[j] ELSE b[j - Len(a)]
    BY <1>2, <1>3, ConcatProperties
  <1>6. ASSUME NEW j \in 1..(Len(s) - 1)
        PROVE  RemoveAt(s, i)[j] = IF j < i THEN s[j] ELSE s[j + 1]
    <2>1. CASE j < i
      BY <1>1, <1>2, <1>3, <1>4, <1>5, <2>1
    <2>2. CASE ~(j < i)
      <3>1. j - (i - 1) \in 1..(Len(s) - i) /\ (j - (i - 1)) + i = j + 1
        BY <1>1, <2>2
      <3>2. (a \o b)[j] = b[j - (i - 1)]
        BY <1>1, <1>2, <1>3, <1>5, <2>2
      <3>3. b[j - (i - 1)] = s[(j - (i - 1)) + i]
        BY <1>3, <3>1
      <3> QED
        BY <1>4, <2>2, <3>1, <3>2, <3>3
    <2> QED
      BY <2>1, <2>2
  <1> QED
    BY <1>1, <1>2, <1>3, <1>4, <1>5, <1>6

LEMMA WaiterTimeoutType ==
  ASSUME Inv, NEW q \in Queries, WaiterTimeout(q)
  PROVE  TypeOK' /\ Entries' = Entries
  <1> DEFINE e == query[q].entry
             w == entry[e].waiters
  <1>0. TypeOK
    BY DEF Inv
  <1>1. e \in Entries /\ query[q].left \in 0..Labels
    BY DEF WaiterTimeout, QueryOK, TypeOK, QueryRecords, Inv
  <1>2. entry[e] \in EntryRecords
    BY <1>0, <1>1, EntryAt
  <1>3. w \in Seq(Queries)
    BY <1>2 DEF EntryRecords
  <1>4. PICK i \in DOMAIN w : entry' = [entry EXCEPT ![e].waiters = RemoveAt(@, i)]
    BY DEF WaiterTimeout
  <1>5. RemoveAt(w, i) \in Seq(Queries)
    BY <1>3, RemoveAtProperties
  <1>6. [entry[e] EXCEPT !.waiters = RemoveAt(@, i)] \in EntryRecords
    BY <1>2, <1>5 DEF EntryRecords
  <1>7. entry' \in [Entries -> EntryRecords]
    BY <1>0, <1>1, <1>4, <1>6, SetEntry
  <1>8. query' \in [Queries -> QueryRecords]
    BY <1>0, <1>1, AfterErrorType DEF WaiterTimeout, TypeOK
  <1>9. InPlace /\ Entries' = Entries
    BY <1>0, <1>7, InPlaceBy
  <1> QED
    BY <1>0, <1>8, <1>9 DEF WaiterTimeout, TypeOK, InPlace, QueryRecords

LEMMA ExecuteType ==
  ASSUME Inv, NEW q \in Queries, NEW r \in Repos, Execute(q, r)
  PROVE  TypeOK'
  <1>0. TypeOK
    BY DEF Inv
  <1>1. pool[r] \in Entries /\ entry[pool[r]].stage = "ready"
    BY <1>0, EntryCount DEF Execute, TypeOK, Entries, Inv, InitsOrdered
  <1>2. PICK n \in (IF q \in Scanners THEN 0..(Labels - 1) ELSE {0}) : Checkout(q, pool[r], n)
    BY DEF Execute
  <1>3. n \in 0..Labels
    BY BoundAssumption
  <1>4. entry' \in [Entries -> EntryRecords] /\ query' \in [Queries -> QueryRecords]
    BY <1>1, <1>2, <1>3, CheckoutType
  <1>5. InPlace /\ Entries' = Entries
    BY <1>0, <1>4, InPlaceBy
  <1>6. older' \subseteq Entries \X Entries
    BY <1>0, <1>1, TouchType DEF Execute
  <1> QED
    BY <1>0, <1>4, <1>5, <1>6 DEF Execute, TypeOK, InPlace, QueryRecords

LEMMA NextLabelType ==
  ASSUME Inv, NEW q \in Queries, NextLabel(q)
  PROVE  TypeOK'
  <1>0. TypeOK
    BY DEF Inv
  <1>1. query[q].entry \in Entries /\ entry[query[q].entry].stage = "ready"
    BY DEF NextLabel, Inv, QueryOK
  <1>2. query[q].left - 1 \in 0..Labels
    BY BoundAssumption DEF NextLabel, Inv, QueryOK, TypeOK, QueryRecords
  <1>4. entry' \in [Entries -> EntryRecords] /\ query' \in [Queries -> QueryRecords]
    BY <1>1, <1>2, CheckoutType DEF NextLabel
  <1>5. InPlace /\ Entries' = Entries
    BY <1>0, <1>4, InPlaceBy
  <1> QED
    BY <1>0, <1>4, <1>5 DEF NextLabel, TypeOK, InPlace, QueryRecords

-----------------------------------------------------------------------------
(* Steps that serve no query. *)

Same(x) ==
  /\ entry'[x].available = entry[x].available
  /\ entry'[x].shut = entry[x].shut
  /\ entry'[x].checkedOut = entry[x].checkedOut
  /\ entry'[x].waiters = entry[x].waiters
  /\ entry'[x].closed = entry[x].closed

Stays(x) == Same(x) /\ entry'[x].stage = entry[x].stage
Postpones(x) == Same(x) /\ entry[x].stage # "ready" /\ entry'[x].stage \in {"retry", "failed"}
Connects(x) ==
  /\ entry[x].stage \in {"stat", "retry"}
  /\ entry'[x].stage = "load"
  /\ entry'[x].available = Conns
  /\ entry'[x].shut = entry[x].shut
  /\ entry'[x].checkedOut = entry[x].checkedOut
  /\ entry'[x].waiters = entry[x].waiters
  /\ entry'[x].closed = entry[x].closed
Registers(x) == Same(x) /\ entry[x].stage = "load" /\ entry'[x].stage = "ready"
Closes(x) ==
  /\ entry[x].stage = "ready"
  /\ entry'[x].stage = "ready"
  /\ entry'[x].available = {}
  /\ entry'[x].shut = entry[x].shut \cup entry[x].available
  /\ entry'[x].waiters = entry[x].waiters
  /\ entry'[x].closed = TRUE

LEMMA EntriesServed ==
  ASSUME Inv, query' = query, NEW x \in Entries,
         Stays(x) \/ Postpones(x) \/ Connects(x) \/ Registers(x) \/ Closes(x)
  PROVE  Untouched(x)' /\ ConnsOK(x)' /\ QueueOK(x)'
  <1>0. Untouched(x) /\ ConnsOK(x) /\ QueueOK(x)
    BY DEF Inv
  <1>1. entry'[x].waiters = entry[x].waiters
    BY DEF Stays, Postpones, Connects, Registers, Closes, Same
  <1>2. QueueOK(x)'
    BY <1>0, <1>1 DEF QueueOK, Waits
  <1>3. CASE Stays(x)
    BY <1>0, <1>2, <1>3 DEF Stays, Same, Untouched, ConnsOK, Running
  <1>4. CASE Postpones(x)
    BY <1>0, <1>2, <1>4 DEF Postpones, Same, Untouched, ConnsOK
  <1>5. CASE Connects(x)
    BY <1>0, <1>2, <1>5 DEF Connects, Untouched, ConnsOK
  <1>6. CASE Registers(x)
    <2>1. entry'[x].available = Conns /\ entry'[x].shut = {} /\ entry'[x].checkedOut = 0
          /\ entry'[x].waiters = <<>> /\ ~entry'[x].closed /\ entry'[x].stage = "ready"
      BY <1>0, <1>6 DEF Registers, Same, Untouched
    <2>2. 0 + Cardinality(Conns) = MaxConns
      BY ConnsFinite
    <2> QED
      BY <1>2, <2>1, <2>2 DEF Untouched, ConnsOK
  <1>7. CASE Closes(x)
    <2>1. entry'[x].available \cup entry'[x].shut = entry[x].available \cup entry[x].shut
      BY <1>7 DEF Closes
    <2> QED
      BY <1>0, <1>2, <1>7, <2>1 DEF Closes, Untouched, ConnsOK, Running
  <1> QED
    BY <1>3, <1>4, <1>5, <1>6, <1>7

LEMMA QueriesServed ==
  ASSUME Inv, query' = query, Entries \subseteq Entries',
         \A x \in Entries :
           Stays(x) \/ Postpones(x) \/ Connects(x) \/ Registers(x) \/ Closes(x)
  PROVE  \A q \in Queries : QueryOK(q)'
  <1> SUFFICES ASSUME NEW q \in Queries PROVE QueryOK(q)'
    OBVIOUS
  <1>0. QueryOK(q)
    BY DEF Inv
  <1>1. CASE query[q].pc = "idle"
    BY <1>1 DEF QueryOK
  <1>2. CASE query[q].pc # "idle"
    <2> DEFINE e == query[q].entry
    <2>1. e \in Entries /\ entry[e].stage = "ready"
      BY <1>0, <1>2 DEF QueryOK
    <2>2. Stays(e) \/ Closes(e)
      BY <2>1 DEF Postpones, Connects, Registers
    <2>3. entry'[e].stage = "ready"
          /\ entry'[e].available \cup entry'[e].shut = entry[e].available \cup entry[e].shut
      BY <2>1, <2>2 DEF Stays, Same, Closes
    <2> QED
      BY <1>0, <2>1, <2>3 DEF QueryOK, Running
  <1> QED
    BY <1>1, <1>2

LEMMA InitsKept ==
  ASSUME Inv, NEW S \in SUBSET Registered, pool' = PoolWithout(S), pending' = pending,
         Entries' = Entries,
         \A x \in Entries :
           /\ entry'[x].repo = entry[x].repo
           /\ entry'[x].closed <=> entry[x].closed \/ x \in S
           /\ entry'[x].stage = entry[x].stage \/ (Opening(x) /\ Opening(x)')
  PROVE  InitsOrdered'
  <1>0. InitsOrdered /\ TypeOK
    BY DEF Inv
  <1>1. \A r \in Repos : pool[r] # 0 => pool[r] \in Entries
    BY <1>0, EntryCount DEF TypeOK, Entries
  <1>2. \A r \in Repos : pending[r] # 0 => pending[r] \in Entries
    BY <1>0, EntryCount DEF TypeOK, Entries
  <1>3. \A e \in Entries : entry[e].repo \in Repos
    BY <1>0, EntryAt DEF EntryRecords
  <1>4. \A r \in Repos : pool'[r] = IF pool[r] \in S THEN 0 ELSE pool[r]
    BY DEF PoolWithout
  <1>5. ASSUME NEW r \in Repos, pool'[r] # 0
        PROVE  /\ entry'[pool'[r]].repo = r
               /\ entry'[pool'[r]].stage = "ready"
               /\ ~entry'[pool'[r]].closed
    BY <1>0, <1>1, <1>4, <1>5 DEF InitsOrdered, Opening
  <1>6. ASSUME NEW r \in Repos, pending'[r] # 0
        PROVE  entry'[pending'[r]].repo = r /\ Opening(pending[r])' /\ pool'[r] = 0
    BY <1>0, <1>2, <1>4, <1>6 DEF InitsOrdered, Opening
  <1>7. ASSUME NEW e \in Entries, Opening(e)'
        PROVE  pending'[entry'[e].repo] = e
    BY <1>0, <1>7 DEF InitsOrdered, Opening
  <1>8. ASSUME NEW e \in Entries, entry'[e].stage = "ready", ~entry'[e].closed
        PROVE  pool'[entry'[e].repo] = e
    BY <1>0, <1>3, <1>4, <1>8 DEF InitsOrdered, Opening
  <1> QED
    BY <1>5, <1>6, <1>7, <1>8 DEF InitsOrdered, Opening

LEMMA ServesNone ==
  ASSUME Inv, TypeOK', InitsOrdered', query' = query, Entries' = Entries,
         \A x \in Entries :
           Stays(x) \/ Postpones(x) \/ Connects(x) \/ Registers(x) \/ Closes(x)
  PROVE  Inv'
  BY EntriesServed, QueriesServed DEF Inv

(* A step that closes the entries of S and neither registers an entry nor
   moves a query or a queue. *)
Leaves(S) ==
  /\ query' = query
  /\ Entries' = Entries
  /\ \A x \in Entries : /\ entry'[x].waiters = entry[x].waiters
                        /\ entry'[x].closed <=> entry[x].closed \/ x \in S
                        /\ entry'[x].stage = "ready" <=> entry[x].stage = "ready"

LEMMA LeavesBy ==
  ASSUME query' = query, Entries' = Entries, NEW S,
         \A x \in Entries :
           /\ Stays(x) \/ Postpones(x) \/ Connects(x) \/ Closes(x)
           /\ entry'[x].closed <=> entry[x].closed \/ x \in S
  PROVE  Leaves(S)
  <1> SUFFICES ASSUME NEW x \in Entries
               PROVE  /\ entry'[x].waiters = entry[x].waiters
                      /\ entry'[x].stage = "ready" <=> entry[x].stage = "ready"
    BY DEF Leaves
  <1> QED
    BY DEF Stays, Postpones, Connects, Closes, Same

(* The entries as a closing of S leaves them. *)
LEMMA ClosedFields ==
  ASSUME Inv, NEW x \in Entries
  PROVE  /\ ClosedEntry(x).stage = entry[x].stage
         /\ ClosedEntry(x).repo = entry[x].repo
         /\ ClosedEntry(x).db = entry[x].db
         /\ ClosedEntry(x).available = {}
         /\ ClosedEntry(x).shut = entry[x].shut \cup entry[x].available
         /\ ClosedEntry(x).checkedOut = entry[x].checkedOut
         /\ ClosedEntry(x).waiters = entry[x].waiters
         /\ ClosedEntry(x).closed = TRUE
  <1>1. entry[x] \in EntryRecords
    BY EntryAt DEF Inv
  <1> QED
    BY <1>1 DEF ClosedEntry, EntryRecords

LEMMA RegisteredReady ==
  ASSUME Inv, NEW x \in Registered
  PROVE  /\ x \in Entries
         /\ entry[x].stage = "ready"
         /\ ~entry[x].closed
  <1>1. x \in Entries /\ TypeOK
    BY RegisteredType DEF Inv
  <1>2. entry[x].repo \in Repos /\ x # 0
    BY <1>1, EntryAt, EntryCount DEF EntryRecords, Entries
  <1> QED
    BY <1>1, <1>2 DEF Registered, InitsOrdered, Inv

LEMMA LeftBy ==
  ASSUME Inv, NEW S \in SUBSET Registered, NEW x \in Entries,
         entry'[x] = EntryWithout(S)[x]
  PROVE  /\ Stays(x) \/ Closes(x)
         /\ entry'[x].repo = entry[x].repo
         /\ entry'[x].db = entry[x].db
         /\ entry'[x].closed <=> entry[x].closed \/ x \in S
         /\ entry'[x].stage = entry[x].stage
  <1>1. CASE x \in S
    <2>1. entry'[x] = ClosedEntry(x)
      BY <1>1 DEF EntryWithout
    <2>2. x \in Registered
      BY <1>1
    <2>3. entry[x].stage = "ready"
      BY <2>2, RegisteredReady
    <2> QED
      BY <1>1, <2>1, <2>3, ClosedFields DEF Closes
  <1>2. CASE x \notin S
    <2>1. entry'[x] = entry[x]
      BY <1>2 DEF EntryWithout
    <2> QED
      BY <1>2, <2>1 DEF Stays, Same
  <1> QED
    BY <1>1, <1>2

LEMMA CloseInv ==
  ASSUME Inv, NEW S \in SUBSET Registered, CloseCgdb(S)
  PROVE  Inv' /\ Leaves(S)
  <1>0. TypeOK
    BY DEF Inv
  <1>1. TypeOK' /\ Entries' = Entries
    BY <1>0, CloseType, RegisteredType, WithoutEntry DEF CloseCgdb, CloseAll, Entries
  <1>2. ASSUME NEW x \in Entries
        PROVE  /\ Stays(x) \/ Closes(x)
               /\ entry'[x].repo = entry[x].repo
               /\ entry'[x].closed <=> entry[x].closed \/ x \in S
               /\ entry'[x].stage = entry[x].stage
    BY LeftBy DEF CloseCgdb, CloseAll
  <1>3. InitsOrdered'
    BY <1>1, <1>2, InitsKept DEF CloseCgdb, CloseAll
  <1> QED
    BY <1>1, <1>2, <1>3, ServesNone, LeavesBy DEF CloseCgdb

(* What the first step of an init leaves of the entries. *)
LEMMA ConnectedAre ==
  ASSUME Inv, NEW S \in SUBSET Registered, NEW e \in Entries, entry[e].stage = "stat",
         NEW d, NEW x \in Entries
  PROVE  /\ e \notin S
         /\ x # e => Connected(EntryWithout(S), e, d)[x] = EntryWithout(S)[x]
         /\ Connected(EntryWithout(S), e, d)[e].stage = "load"
         /\ Connected(EntryWithout(S), e, d)[e].db = d
         /\ Connected(EntryWithout(S), e, d)[e].available = Conns
         /\ Connected(EntryWithout(S), e, d)[e].repo = entry[e].repo
         /\ Connected(EntryWithout(S), e, d)[e].shut = entry[e].shut
         /\ Connected(EntryWithout(S), e, d)[e].checkedOut = entry[e].checkedOut
         /\ Connected(EntryWithout(S), e, d)[e].waiters = entry[e].waiters
         /\ Connected(EntryWithout(S), e, d)[e].closed = entry[e].closed
  <1>1. e \notin S
    BY RegisteredReady
  <1>2. EntryWithout(S)[e] = entry[e] /\ entry[e] \in EntryRecords
    BY <1>1, EntryAt DEF EntryWithout, Inv
  <1>3. EntryWithout(S) \in [Entries -> EntryRecords]
    BY WithoutMap, RegisteredType DEF Inv
  <1> QED
    BY <1>1, <1>2, <1>3 DEF Connected, EntryRecords

LEMMA ConnectsInv ==
  ASSUME Inv, NEW e \in Entries, entry[e].stage = "stat", NEW d \in Entries,
         TypeOK', Entries' = Entries,
         entry' = Connected(EntryWithout(Evicted), e, d),
         pool' = PoolWithout(Evicted), pending' = pending, query' = query
  PROVE  Inv' /\ Leaves(Evicted)
  <1>0. Evicted \in SUBSET Registered
    BY EvictedType
  <1>2. ASSUME NEW x \in Entries
        PROVE  /\ Stays(x) \/ Closes(x) \/ Connects(x)
               /\ entry'[x].repo = entry[x].repo
               /\ entry'[x].closed <=> entry[x].closed \/ x \in Evicted
               /\ entry'[x].stage = entry[x].stage \/ (Opening(x) /\ Opening(x)')
    <2>1. CASE x = e
      BY <1>0, <2>1, ConnectedAre DEF Connects, Opening
    <2>2. CASE x # e
      <3>1. entry'[x] = EntryWithout(Evicted)[x]
        BY <1>0, <2>2, ConnectedAre
      <3> QED
        BY <1>0, <3>1, LeftBy
    <2> QED
      BY <2>1, <2>2
  <1>3. InitsOrdered'
    BY <1>0, <1>2, InitsKept
  <1> QED
    BY <1>2, <1>3, ServesNone, LeavesBy

LEMMA EvictedLength ==
  ASSUME Inv, NEW e \in Entries, NEW d \in Entries,
         entry' = Connected(EntryWithout(Evicted), e, d)
  PROVE  Entries' = Entries
  <1>1. entry' \in [Entries -> EntryRecords]
    BY EvictedEntries, WithoutMap, ConnectedType DEF Inv
  <1> QED
    BY <1>1, InPlaceBy DEF Inv

LEMMA ShareInv ==
  ASSUME Inv, NEW e \in Entries, ShareDatabase(e)
  PROVE  Inv' /\ Leaves(Evicted)
  <1> DEFINE d == CacheWithout(Evicted)[PathOfEntry(e)]
  <1>0. TypeOK
    BY DEF Inv
  <1>1. PathOfEntry(e) \in Paths
    BY <1>0, EntryAt, PathAssumption DEF PathOfEntry, EntryRecords
  <1>2. d \in Entries
    BY <1>0, <1>1, EvictedEntries, WithoutTypes, EntryCount DEF ShareDatabase, Entries
  <1>3. TypeOK'
    BY <1>0, ShareType
  <1>4. entry' = Connected(EntryWithout(Evicted), e, d) /\ entry[e].stage = "stat"
        /\ pool' = PoolWithout(Evicted) /\ pending' = pending /\ query' = query
    BY DEF ShareDatabase
  <1> HIDE DEF d
  <1>5. Entries' = Entries
    BY <1>2, <1>3, <1>4, EvictedLength
  <1> QED
    BY <1>2, <1>3, <1>4, <1>5, ConnectsInv

LEMMA OpenInv ==
  ASSUME Inv, NEW e \in Entries, OpenDatabase(e)
  PROVE  Inv' /\ Leaves(Evicted)
  <1>1. TypeOK'
    BY OpenType DEF Inv
  <1>2. entry' = Connected(EntryWithout(Evicted), e, e) /\ entry[e].stage = "stat"
        /\ pool' = PoolWithout(Evicted) /\ pending' = pending /\ query' = query
    BY DEF OpenDatabase
  <1>3. Entries' = Entries
    BY <1>1, <1>2, EvictedLength
  <1> QED
    BY <1>1, <1>2, <1>3, ConnectsInv

LEMMA FindLockedInv ==
  ASSUME Inv, NEW e \in Entries, FindLocked(e)
  PROVE  Inv' /\ Leaves(Evicted)
  <1>0. Evicted \in SUBSET Registered /\ TypeOK
    BY EvictedType DEF Inv
  <1>1. TypeOK'
    BY <1>0, FindLockedType
  <1>2. EntryWithout(Evicted) \in [Entries -> EntryRecords]
    BY <1>0, WithoutMap, EvictedEntries
  <1>3. Entries' = Entries
    <2>1. "retry" \in Stages /\ 2 \in 1..Attempts
      BY BoundAssumption DEF FindLocked, Stages
    <2>2. [EntryWithout(Evicted)[e] EXCEPT !.stage = "retry", !.attempt = 2] \in EntryRecords
      BY <1>2, <2>1 DEF EntryRecords
    <2>3. entry' \in [Entries -> EntryRecords]
      BY <1>2, <2>2 DEF FindLocked
    <2> QED
      BY <1>0, <2>3, InPlaceBy
  <1>4. e \notin Evicted /\ EntryWithout(Evicted)[e] = entry[e] /\ entry[e] \in EntryRecords
    <2>1. e \notin Evicted
      BY <1>0, RegisteredReady DEF FindLocked
    <2> QED
      BY <1>0, <2>1, EntryAt DEF EntryWithout
  <1>5. entry'[e] = [entry[e] EXCEPT !.stage = "retry", !.attempt = 2]
    BY <1>2, <1>4 DEF FindLocked
  <1>6. /\ entry'[e].stage = "retry" /\ Same(e)
        /\ entry'[e].repo = entry[e].repo
    BY <1>4, <1>5 DEF Same, EntryRecords
  <1>7. ASSUME NEW x \in Entries
        PROVE  /\ Stays(x) \/ Closes(x) \/ Postpones(x)
               /\ entry'[x].repo = entry[x].repo
               /\ entry'[x].closed <=> entry[x].closed \/ x \in Evicted
               /\ entry'[x].stage = entry[x].stage \/ (Opening(x) /\ Opening(x)')
    <2>1. CASE x = e
      BY <1>4, <1>6, <2>1 DEF Postpones, Opening, FindLocked, Same
    <2>2. CASE x # e
      <3>1. entry'[x] = EntryWithout(Evicted)[x]
        BY <1>2, <2>2 DEF FindLocked
      <3> QED
        BY <1>0, <3>1, LeftBy
    <2> QED
      BY <2>1, <2>2
  <1>8. InitsOrdered'
    BY <1>0, <1>3, <1>7, InitsKept DEF FindLocked
  <1> QED
    BY <1>1, <1>3, <1>7, <1>8, ServesNone, LeavesBy DEF FindLocked

LEMMA PoolWithoutNone == ASSUME TypeOK PROVE PoolWithout({}) = pool
  BY DEF PoolWithout, TypeOK

LEMMA LengthKept ==
  ASSUME TypeOK, entry' \in [Entries -> EntryRecords]
  PROVE  Entries' = Entries
  BY InPlaceBy

LEMMA RetryInv ==
  ASSUME Inv, NEW e \in Entries, RetryOpens(e) \/ RetryLocked(e)
  PROVE  Inv' /\ Leaves({})
  <1>0. TypeOK /\ TypeOK' /\ {} \in SUBSET Registered
    BY RetryTypes DEF Inv
  <1>1. entry[e] \in EntryRecords /\ entry \in [Entries -> EntryRecords]
    BY <1>0, EntryAt, EntryMap
  <1>2. entry[e].stage = "retry" /\ pool' = PoolWithout({}) /\ pending' = pending /\ query' = query
    BY <1>0, PoolWithoutNone DEF RetryOpens, RetryLocked
  <1>3. Len(entry') = Len(entry)
    BY <1>0, <1>1 DEF RetryOpens, RetryLocked, Connected, TypeOK
  <1>4. Entries' = Entries
    BY <1>3 DEF Entries
  <1>5. \A x \in Entries : x # e => entry'[x] = entry[x]
    BY <1>1 DEF RetryOpens, RetryLocked, Connected
  <1>6. /\ Connects(e) \/ Stays(e)
        /\ entry'[e].repo = entry[e].repo
        /\ entry'[e].closed = entry[e].closed
        /\ Opening(e) /\ Opening(e)'
    <2>1. CASE RetryOpens(e)
      BY <1>1, <1>2, <2>1 DEF RetryOpens, Connected, Connects, EntryRecords, Opening
    <2>2. CASE RetryLocked(e)
      BY <1>1, <1>2, <2>2 DEF RetryLocked, Stays, Same, EntryRecords, Opening
    <2> QED
      BY <2>1, <2>2
  <1>7. ASSUME NEW x \in Entries
        PROVE  /\ Stays(x) \/ Connects(x)
               /\ entry'[x].repo = entry[x].repo
               /\ entry'[x].closed <=> entry[x].closed \/ x \in {}
               /\ entry'[x].stage = entry[x].stage \/ (Opening(x) /\ Opening(x)')
    BY <1>5, <1>6 DEF Stays, Same
  <1>8. InitsOrdered'
    BY <1>0, <1>2, <1>4, <1>7, InitsKept
  <1> QED
    BY <1>0, <1>2, <1>4, <1>7, <1>8, ServesNone, LeavesBy

(* The facts of InitsOrdered about entries and repositories that exist. *)
LEMMA InitFacts ==
  ASSUME Inv
  PROVE  /\ \A r \in Repos : pool[r] # 0 => pool[r] \in Entries
         /\ \A r \in Repos : pending[r] # 0 => pending[r] \in Entries
         /\ \A e \in Entries : entry[e].repo \in Repos /\ e # 0
  <1>0. TypeOK
    BY DEF Inv
  <1>1. /\ \A r \in Repos : pool[r] # 0 => pool[r] \in Entries
        /\ \A r \in Repos : pending[r] # 0 => pending[r] \in Entries
    BY <1>0, EntryCount DEF TypeOK, Entries
  <1>2. \A e \in Entries : entry[e].repo \in Repos
    BY <1>0, EntryAt DEF EntryRecords
  <1>3. 0 \notin Entries
    BY <1>0, EntryCount DEF Entries
  <1> QED
    BY <1>1, <1>2, <1>3

LEMMA GiveUpInv ==
  ASSUME Inv, NEW e \in Entries, GiveUp(e), entry[e].stage \in {"stat", "retry"}
  PROVE  Inv' /\ Leaves({})
  <1>0. TypeOK /\ TypeOK' /\ InitsOrdered
    BY GiveUpType DEF Inv
  <1>1. entry[e] \in EntryRecords /\ entry \in [Entries -> EntryRecords]
    BY <1>0, EntryAt, EntryMap
  <1>2. Len(entry') = Len(entry)
    BY <1>0, <1>1 DEF GiveUp, TypeOK
  <1>3. Entries' = Entries
    BY <1>2 DEF Entries
  <1>4. \A x \in Entries : x # e => entry'[x] = entry[x]
    BY <1>1 DEF GiveUp
  <1>5. /\ Postpones(e)
        /\ entry'[e].repo = entry[e].repo
        /\ entry'[e].closed = entry[e].closed
        /\ entry'[e].stage = "failed"
    BY <1>1 DEF GiveUp, Postpones, Same, EntryRecords
  <1>6. \A x \in Entries : /\ Stays(x) \/ Postpones(x)
                           /\ entry'[x].closed <=> entry[x].closed \/ x \in {}
    BY <1>4, <1>5 DEF Stays, Same
  <1>7. InitsOrdered'
    <2>1. pool' = pool
      BY DEF GiveUp
    <2>2. \A r \in Repos : pending'[r] = IF r = entry[e].repo THEN 0 ELSE pending[r]
      BY <1>0 DEF GiveUp, TypeOK
    <2>3. pending[entry[e].repo] = e
      BY <1>0 DEF InitsOrdered, Opening
    <2>4. ASSUME NEW r \in Repos, pool'[r] # 0
          PROVE  /\ entry'[pool'[r]].repo = r
                 /\ entry'[pool'[r]].stage = "ready"
                 /\ ~entry'[pool'[r]].closed
      BY <1>0, <1>4, <2>1, <2>4, InitFacts DEF InitsOrdered
    <2>5. ASSUME NEW r \in Repos, pending'[r] # 0
          PROVE  entry'[pending'[r]].repo = r /\ Opening(pending[r])' /\ pool'[r] = 0
      <3>1. r # entry[e].repo /\ pending'[r] = pending[r]
        BY <2>2, <2>5
      <3>2. pending[r] # e /\ pending[r] \in Entries
        BY <1>0, <2>5, <3>1, InitFacts DEF InitsOrdered
      <3> QED
        BY <1>0, <1>4, <2>1, <2>5, <3>1, <3>2 DEF InitsOrdered, Opening
    <2>6. ASSUME NEW x \in Entries, Opening(x)'
          PROVE  pending'[entry'[x].repo] = x
      <3>1. x # e
        BY <1>5, <2>6 DEF Opening
      <3>2. entry[x].repo \in Repos /\ pending[entry[x].repo] = x
        BY <1>0, <1>4, <2>6, <3>1, InitFacts DEF InitsOrdered, Opening
      <3> QED
        BY <1>4, <2>2, <2>3, <3>1, <3>2
    <2>7. ASSUME NEW x \in Entries, entry'[x].stage = "ready", ~entry'[x].closed
          PROVE  pool'[entry'[x].repo] = x
      BY <1>0, <1>4, <1>5, <2>1, <2>7 DEF InitsOrdered
    <2> QED
      BY <1>3, <2>4, <2>5, <2>6, <2>7 DEF InitsOrdered, Opening
  <1>8. query' = query
    BY DEF GiveUp
  <1>9. Leaves({})
    BY <1>3, <1>6, <1>8, LeavesBy
  <1> QED
    BY <1>0, <1>3, <1>6, <1>7, <1>8, <1>9, ServesNone

LEMMA OpenFailsInv ==
  ASSUME Inv, NEW e \in Entries, OpenFails(e)
  PROVE  Inv' /\ Leaves(Evicted)
  <1>0. TypeOK /\ TypeOK' /\ InitsOrdered /\ Evicted \in SUBSET Registered
    BY OpenFailsType, EvictedType DEF Inv
  <1>1. EntryWithout(Evicted) \in [Entries -> EntryRecords]
    BY <1>0, WithoutMap, EvictedEntries
  <1>2. e \notin Evicted /\ EntryWithout(Evicted)[e] = entry[e] /\ entry[e] \in EntryRecords
    <2>1. e \notin Evicted
      BY <1>0, RegisteredReady DEF OpenFails
    <2> QED
      BY <1>0, <2>1, EntryAt DEF EntryWithout
  <1>3. Entries' = Entries
    <2>1. [EntryWithout(Evicted)[e] EXCEPT !.stage = "failed"] \in EntryRecords
      BY <1>1 DEF EntryRecords, Stages
    <2>2. entry' \in [Entries -> EntryRecords]
      BY <1>1, <2>1 DEF OpenFails
    <2> QED
      BY <1>0, <2>2, InPlaceBy
  <1>4. /\ Postpones(e)
        /\ entry'[e].repo = entry[e].repo
        /\ entry'[e].closed = entry[e].closed
        /\ entry'[e].stage = "failed"
    <2>1. entry'[e] = [entry[e] EXCEPT !.stage = "failed"]
      BY <1>1, <1>2 DEF OpenFails
    <2> QED
      BY <1>2, <2>1 DEF OpenFails, Postpones, Same, EntryRecords
  <1>5. ASSUME NEW x \in Entries, x # e
        PROVE  /\ Stays(x) \/ Closes(x)
               /\ entry'[x].repo = entry[x].repo
               /\ entry'[x].stage = entry[x].stage
               /\ entry'[x].closed <=> entry[x].closed \/ x \in Evicted
    <2>1. entry'[x] = EntryWithout(Evicted)[x]
      BY <1>1, <1>5 DEF OpenFails
    <2> QED
      BY <1>0, <2>1, LeftBy
  <1>6. ASSUME NEW x \in Entries
        PROVE  /\ Stays(x) \/ Closes(x) \/ Postpones(x)
               /\ entry'[x].closed <=> entry[x].closed \/ x \in Evicted
    BY <1>2, <1>4, <1>5
  <1>7. InitsOrdered'
    <2>1. \A r \in Repos : pool'[r] = IF pool[r] \in Evicted THEN 0 ELSE pool[r]
      BY DEF OpenFails, PoolWithout
    <2>2. \A r \in Repos : pending'[r] = IF r = entry[e].repo THEN 0 ELSE pending[r]
      BY <1>0 DEF OpenFails, TypeOK
    <2>3. entry[e].stage = "stat" /\ pending[entry[e].repo] = e
      BY <1>0 DEF InitsOrdered, Opening, OpenFails
    <2>4. ASSUME NEW r \in Repos, pool'[r] # 0
          PROVE  /\ entry'[pool'[r]].repo = r
                 /\ entry'[pool'[r]].stage = "ready"
                 /\ ~entry'[pool'[r]].closed
      <3>1. pool'[r] = pool[r] /\ pool[r] \notin Evicted /\ pool[r] \in Entries
        BY <2>1, <2>4, InitFacts
      <3>2. entry[pool[r]].repo = r /\ entry[pool[r]].stage = "ready" /\ ~entry[pool[r]].closed
        BY <1>0, <2>4, <3>1 DEF InitsOrdered
      <3>3. pool[r] # e
        BY <2>3, <3>2
      <3> QED
        BY <1>5, <3>1, <3>2, <3>3
    <2>5. ASSUME NEW r \in Repos, pending'[r] # 0
          PROVE  entry'[pending'[r]].repo = r /\ Opening(pending[r])' /\ pool'[r] = 0
      <3>1. r # entry[e].repo /\ pending'[r] = pending[r]
        BY <2>2, <2>5
      <3>2. pending[r] # e /\ pending[r] \in Entries /\ pool[r] = 0
        BY <1>0, <2>5, <3>1, InitFacts DEF InitsOrdered
      <3> QED
        BY <1>0, <1>5, <2>1, <2>5, <3>1, <3>2 DEF InitsOrdered, Opening
    <2>6. ASSUME NEW x \in Entries, Opening(x)'
          PROVE  pending'[entry'[x].repo] = x
      <3>1. x # e
        BY <1>4, <2>6 DEF Opening
      <3>2. entry[x].repo \in Repos /\ pending[entry[x].repo] = x
        BY <1>0, <1>5, <2>6, <3>1, InitFacts DEF InitsOrdered, Opening
      <3> QED
        BY <1>5, <2>2, <2>3, <3>1, <3>2
    <2>7. ASSUME NEW x \in Entries, entry'[x].stage = "ready", ~entry'[x].closed
          PROVE  pool'[entry'[x].repo] = x
      <3>1. x # e
        BY <1>4, <2>7
      <3>2. entry[x].stage = "ready" /\ ~entry[x].closed /\ x \notin Evicted
            /\ entry'[x].repo = entry[x].repo
        BY <1>5, <2>7, <3>1
      <3>3. entry[x].repo \in Repos /\ pool[entry[x].repo] = x
        BY <1>0, <3>2, InitFacts DEF InitsOrdered
      <3> QED
        BY <2>1, <3>2, <3>3
    <2> QED
      BY <1>3, <2>4, <2>5, <2>6, <2>7 DEF InitsOrdered, Opening
  <1>8. query' = query
    BY DEF OpenFails
  <1>9. Leaves(Evicted)
    BY <1>0, <1>3, <1>6, <1>8, LeavesBy
  <1> QED
    BY <1>0, <1>3, <1>6, <1>7, <1>8, <1>9, ServesNone

LEMMA RegisterInv ==
  ASSUME Inv, NEW e \in Entries, Register(e)
  PROVE  /\ Inv'
         /\ query' = query /\ Entries' = Entries
         /\ Registers(e) /\ \A x \in Entries : x # e => entry'[x] = entry[x]
  <1> DEFINE r0 == entry[e].repo
  <1>0. TypeOK /\ TypeOK' /\ InitsOrdered
    BY RegisterType DEF Inv
  <1>1. entry[e] \in EntryRecords /\ entry \in [Entries -> EntryRecords]
    BY <1>0, EntryAt, EntryMap
  <1>2. Len(entry') = Len(entry)
    BY <1>0, <1>1 DEF Register, TypeOK
  <1>3. Entries' = Entries
    BY <1>2 DEF Entries
  <1>4. \A x \in Entries : x # e => entry'[x] = entry[x]
    BY <1>1 DEF Register
  <1>5. /\ Registers(e)
        /\ entry'[e].repo = entry[e].repo
        /\ entry'[e].closed = entry[e].closed
        /\ entry'[e].stage = "ready"
    BY <1>1 DEF Register, Registers, Same, EntryRecords
  <1>6. \A x \in Entries : Stays(x) \/ Registers(x)
    BY <1>4, <1>5 DEF Stays, Same
  <1>7. InitsOrdered'
    <2>1. \A r \in Repos : pool'[r] = IF r = r0 THEN e ELSE pool[r]
      BY <1>0 DEF Register, TypeOK
    <2>2. \A r \in Repos : pending'[r] = IF r = r0 THEN 0 ELSE pending[r]
      BY <1>0 DEF Register, TypeOK
    <2>3. pending[r0] = e /\ pool[r0] = 0 /\ r0 \in Repos /\ e # 0
      BY <1>0, InitFacts DEF InitsOrdered, Opening, Register
    <2>9. ~entry[e].closed
      BY DEF Inv, Untouched, Register
    <2>4. ASSUME NEW r \in Repos, pool'[r] # 0
          PROVE  /\ entry'[pool'[r]].repo = r
                 /\ entry'[pool'[r]].stage = "ready"
                 /\ ~entry'[pool'[r]].closed
      <3>1. CASE r = r0
        BY <1>5, <2>1, <2>9, <3>1
      <3>2. CASE r # r0
        <4>1. pool'[r] = pool[r] /\ pool[r] # e /\ pool[r] \in Entries
          BY <1>0, <2>1, <2>4, <3>2, InitFacts DEF InitsOrdered
        <4> QED
          BY <1>0, <1>4, <2>4, <4>1 DEF InitsOrdered
      <3> QED
        BY <3>1, <3>2
    <2>5. ASSUME NEW r \in Repos, pending'[r] # 0
          PROVE  entry'[pending'[r]].repo = r /\ Opening(pending[r])' /\ pool'[r] = 0
      <3>1. r # r0 /\ pending'[r] = pending[r] /\ pool'[r] = pool[r]
        BY <2>1, <2>2, <2>5
      <3>2. pending[r] # e /\ pending[r] \in Entries
        BY <1>0, <2>5, <3>1, InitFacts DEF InitsOrdered
      <3> QED
        BY <1>0, <1>4, <2>5, <3>1, <3>2 DEF InitsOrdered, Opening
    <2>6. ASSUME NEW x \in Entries, Opening(x)'
          PROVE  pending'[entry'[x].repo] = x
      <3>1. x # e
        BY <1>5, <2>6 DEF Opening
      <3>2. entry[x].repo \in Repos /\ pending[entry[x].repo] = x
        BY <1>0, <1>4, <2>6, <3>1, InitFacts DEF InitsOrdered, Opening
      <3> QED
        BY <1>4, <2>2, <2>3, <3>1, <3>2
    <2>7. ASSUME NEW x \in Entries, entry'[x].stage = "ready", ~entry'[x].closed
          PROVE  pool'[entry'[x].repo] = x
      <3>1. CASE x = e
        BY <1>5, <2>1, <2>3, <3>1
      <3>2. CASE x # e
        <4>1. pool[entry[x].repo] = x /\ entry[x].repo \in Repos /\ x # 0
          BY <1>0, <1>4, <2>7, <3>2, InitFacts DEF InitsOrdered
        <4> QED
          BY <1>4, <2>1, <2>3, <3>2, <4>1
      <3> QED
        BY <3>1, <3>2
    <2> QED
      BY <1>3, <2>4, <2>5, <2>6, <2>7 DEF InitsOrdered, Opening
  <1> QED
    BY <1>0, <1>3, <1>4, <1>5, <1>6, <1>7, ServesNone DEF Register

LEMMA InitCgdbInv ==
  ASSUME Inv, NEW r \in Repos, InitCgdb(r)
  PROVE  Inv'
  <1>0. TypeOK /\ TypeOK' /\ InitsOrdered
    BY InitCgdbType DEF Inv
  <1>1. CASE UNCHANGED <<pool, pending, entry, query>>
    <2>1. Entries' = Entries /\ PoolWithout({}) = pool
      BY <1>0, <1>1, PoolWithoutNone DEF Entries
    <2>2. \A x \in Entries : Stays(x)
      BY <1>1 DEF Stays, Same
    <2>3. InitsOrdered'
      BY <1>0, <1>1, <2>1 DEF InitsOrdered, Opening
    <2> QED
      BY <1>0, <1>1, <2>1, <2>2, <2>3, ServesNone
  <1>2. CASE /\ pool[r] = 0
             /\ pending[r] = 0
             /\ Len(entry) < MaxEntries
             /\ entry' = Append(entry, NewEntry(r))
             /\ pending' = [pending EXCEPT ![r] = Len(entry')]
             /\ UNCHANGED <<pool, older, cache, refs, opened, query>>
    <2>0. PICK n \in Nat : n = Len(entry) + 1
      BY <1>0, EntryCount
    <2>1. /\ Len(entry') = n
          /\ Len(entry) \in Nat
          /\ \A x \in Entries : entry'[x] = entry[x]
          /\ entry'[n] = NewEntry(r)
      <3>1. NewEntry(r) \in EntryRecords
        BY BoundAssumption DEF NewEntry, EntryRecords, Stages
      <3> QED
        BY <1>0, <1>2, <2>0, <3>1, AppendProperties, EntryCount DEF TypeOK, Entries
    <2>2. Entries' = Entries \cup {n} /\ n \notin Entries /\ n # 0
      BY <2>0, <2>1 DEF Entries
    <2>3. /\ entry'[n].repo = r /\ entry'[n].stage = "stat" /\ entry'[n].available = {}
          /\ entry'[n].shut = {} /\ entry'[n].checkedOut = 0 /\ entry'[n].waiters = <<>>
          /\ entry'[n].closed = FALSE
      BY <2>1 DEF NewEntry
    <2>4. \A x \in Entries : Stays(x)
      BY <2>1 DEF Stays, Same
    <2>5. \A s \in Repos : pending'[s] = IF s = r THEN n ELSE pending[s]
      BY <1>0, <1>2, <2>1 DEF TypeOK
    <2>6. pool' = pool /\ query' = query
      BY <1>2
    <2>7. InitsOrdered'
      <3>1. ASSUME NEW s \in Repos, pool'[s] # 0
            PROVE  /\ entry'[pool'[s]].repo = s
                   /\ entry'[pool'[s]].stage = "ready"
                   /\ ~entry'[pool'[s]].closed
        BY <1>0, <2>1, <2>6, <3>1, InitFacts DEF InitsOrdered
      <3>2. ASSUME NEW s \in Repos, pending'[s] # 0
            PROVE  entry'[pending'[s]].repo = s /\ entry'[pending'[s]].stage \in {"stat", "retry", "load"} /\ pool'[s] = 0
        <4>1. CASE s = r
          BY <1>2, <2>2, <2>3, <2>5, <2>6, <4>1
        <4>2. CASE s # r
          BY <1>0, <2>1, <2>5, <2>6, <3>2, <4>2, InitFacts DEF InitsOrdered, Opening
        <4> QED
          BY <4>1, <4>2
      <3>3. ASSUME NEW x \in Entries', entry'[x].stage \in {"stat", "retry", "load"}
            PROVE  pending'[entry'[x].repo] = x
        <4>1. CASE x = n
          BY <2>3, <2>5, <4>1
        <4>2. CASE x # n
          <5>1. x \in Entries /\ entry[x].repo \in Repos /\ pending[entry[x].repo] = x /\ x # 0
            BY <1>0, <2>1, <2>2, <3>3, <4>2, InitFacts DEF InitsOrdered, Opening
          <5> QED
            BY <1>2, <2>1, <2>5, <5>1
        <4> QED
          BY <4>1, <4>2
      <3>4. ASSUME NEW x \in Entries', entry'[x].stage = "ready", ~entry'[x].closed
            PROVE  pool'[entry'[x].repo] = x
        <4>1. x \in Entries
          BY <2>2, <2>3, <3>4
        <4> QED
          BY <1>0, <2>1, <2>6, <3>4, <4>1 DEF InitsOrdered
      <3> QED
        BY <3>1, <3>2, <3>3, <3>4 DEF InitsOrdered, Opening
    <2>8. \A q \in Queries : QueryOK(q)'
      BY <2>2, <2>4, <2>6, QueriesServed
    <2>9. \A x \in Entries : Untouched(x)' /\ ConnsOK(x)' /\ QueueOK(x)'
      BY <2>4, <2>6, EntriesServed
    <2>10. Untouched(n)' /\ ConnsOK(n)'
      BY <2>3 DEF Untouched, ConnsOK
    <2>11. QueueOK(n)'
      <3>1. \A q \in Queries : ~Waits(q, n)'
        BY <2>2, <2>6 DEF Inv, QueryOK, Waits
      <3>2. DOMAIN (entry'[n].waiters) = {}
        BY <2>3
      <3> QED
        BY <3>1, <3>2 DEF QueueOK, Waits
    <2> QED
      BY <1>0, <2>2, <2>7, <2>8, <2>9, <2>10, <2>11 DEF Inv
  <1> QED
    BY <1>1, <1>2 DEF InitCgdb

-----------------------------------------------------------------------------
(* Steps of queries.  A step of the queries of Q on entry e leaves the other
   entries and their queries alone. *)

OnlyOn(e, Q) ==
  /\ Entries' = Entries
  /\ \A x \in Entries : x # e => entry'[x] = entry[x]
  /\ entry'[e].repo = entry[e].repo
  /\ entry'[e].stage = entry[e].stage
  /\ entry'[e].closed = entry[e].closed
  /\ pool' = pool
  /\ pending' = pending
  /\ \A r \in Queries \ Q : query'[r] = query[r]
  /\ \A r \in Q : query[r].pc # "idle" => query[r].entry = e
  /\ \A r \in Q : query'[r].pc # "idle" => query'[r].entry = e

LEMMA OthersKept ==
  ASSUME Inv, NEW e \in Entries, entry[e].stage = "ready", NEW Q \in SUBSET Queries,
         OnlyOn(e, Q), TypeOK', ConnsOK(e)', QueueOK(e)',
         \A r \in Queries : query'[r].pc # "idle" /\ query'[r].entry = e => QueryOK(r)'
  PROVE  Inv'
  <1>1. InitsOrdered'
    <2>1. {} \in SUBSET Registered /\ pool = PoolWithout({})
      BY PoolWithoutNone DEF Inv
    <2> QED
      BY <2>1, InitsKept DEF OnlyOn
  <1>2. ASSUME NEW x \in Entries, x # e, NEW r \in Queries
        PROVE  /\ Waits(r, x)' <=> Waits(r, x)
               /\ (query'[r].pc = "running" /\ query'[r].entry = x)
                    <=> (query[r].pc = "running" /\ query[r].entry = x)
               /\ query[r].pc # "idle" /\ query[r].entry = x => query'[r] = query[r]
               /\ query'[r].pc # "idle" /\ query'[r].entry = x => query'[r] = query[r]
    BY <1>2 DEF OnlyOn, Waits
  <1>3. ASSUME NEW x \in Entries, x # e
        PROVE  Untouched(x)' /\ ConnsOK(x)' /\ QueueOK(x)'
    <2>1. entry'[x] = entry[x] /\ Untouched(x) /\ ConnsOK(x) /\ QueueOK(x)
      BY <1>3 DEF OnlyOn, Inv
    <2>2. Untouched(x)'
      BY <2>1 DEF Untouched
    <2>3. Running(x)' = Running(x)
      BY <1>2, <1>3 DEF Running
    <2>4. \A q \in Running(x) : query'[q] = query[q]
      BY <1>2, <1>3 DEF Running
    <2>5. ConnsOK(x)'
      BY <2>1, <2>3, <2>4 DEF ConnsOK
    <2>6. entry[x].waiters \in Seq(Queries)
      BY EntryAt DEF Inv, EntryRecords
    <2>7. QueueOK(x)'
      BY <1>2, <1>3, <2>1, <2>6 DEF QueueOK
    <2> QED
      BY <2>2, <2>5, <2>7
  <1>4. Untouched(e)'
    BY DEF OnlyOn, Untouched
  <1>5. ASSUME NEW r \in Queries
        PROVE  QueryOK(r)'
    <2>1. CASE query'[r].pc = "idle"
      BY <2>1 DEF QueryOK
    <2>2. CASE query'[r].pc # "idle" /\ query'[r].entry = e
      BY <2>2
    <2>3. CASE query'[r].pc # "idle" /\ query'[r].entry # e
      <3>1. query'[r] = query[r] /\ QueryOK(r)
        BY <2>3 DEF OnlyOn, Inv
      <3>2. PICK x \in Entries : x = query[r].entry
        BY <2>3, <3>1 DEF QueryOK
      <3>3. x # e /\ entry'[x] = entry[x] /\ entry[x].stage = "ready"
        BY <2>3, <3>1, <3>2 DEF QueryOK, OnlyOn
      <3>4. {q \in Queries : query'[q].pc = "running" /\ query'[q].entry = x}
              = {q \in Queries : query[q].pc = "running" /\ query[q].entry = x}
        BY <1>2, <3>3
      <3>5. \A q \in Queries : query[q].pc = "running" /\ query[q].entry = x
                                  => query'[q] = query[q]
        BY <1>2, <3>3
      <3> QED
        BY <3>1, <3>2, <3>3, <3>4, <3>5 DEF QueryOK, OnlyOn, Running
    <2> QED
      BY <2>1, <2>2, <2>3
  <1> QED
    BY <1>1, <1>3, <1>4, <1>5 DEF Inv, OnlyOn

(* Sequences without repetition: what appending, taking the first away and
   taking one out make of their elements. *)
Once(s) == \A i, j \in DOMAIN s : s[i] = s[j] => i = j
Occurs(y, s) == \E i \in DOMAIN s : s[i] = y

LEMMA AppendOnce ==
  ASSUME NEW T, NEW s \in Seq(T), NEW x \in T, ~Occurs(x, s), Once(s)
  PROVE  /\ Once(Append(s, x))
         /\ \A y : Occurs(y, Append(s, x)) <=> y = x \/ Occurs(y, s)
  <1> DEFINE v == Append(s, x)
  <1>1. Len(s) \in Nat /\ DOMAIN s = 1..Len(s)
    OBVIOUS
  <1>2. /\ DOMAIN v = 1..(Len(s) + 1)
        /\ \A i \in 1..Len(s) : v[i] = s[i]
        /\ v[Len(s) + 1] = x
    BY AppendProperties
  <1> HIDE DEF v
  <1>3. ASSUME NEW i \in DOMAIN v, NEW j \in DOMAIN v, v[i] = v[j], i # j
        PROVE  FALSE
    <2>1. CASE i \in 1..Len(s) /\ j \in 1..Len(s)
      BY <1>1, <1>2, <1>3, <2>1 DEF Once
    <2>2. CASE i = Len(s) + 1
      <3>1. j \in 1..Len(s)
        BY <1>1, <1>2, <1>3, <2>2
      <3> QED
        BY <1>1, <1>2, <1>3, <2>2, <3>1 DEF Occurs
    <2>3. CASE j = Len(s) + 1
      <3>1. i \in 1..Len(s)
        BY <1>1, <1>2, <1>3, <2>3
      <3> QED
        BY <1>1, <1>2, <1>3, <2>3, <3>1 DEF Occurs
    <2> QED
      BY <1>1, <1>2, <2>1, <2>2, <2>3
  <1>4. ASSUME NEW y
        PROVE  Occurs(y, v) <=> y = x \/ Occurs(y, s)
    <2>1. Occurs(y, v) => y = x \/ Occurs(y, s)
      <3> SUFFICES ASSUME NEW i \in DOMAIN v, v[i] = y, y # x PROVE Occurs(y, s)
        BY DEF Occurs
      <3>1. i \in 1..Len(s)
        BY <1>1, <1>2
      <3> QED
        BY <1>1, <1>2, <3>1 DEF Occurs
    <2>2. Occurs(x, v)
      <3>1. Len(s) + 1 \in 1..(Len(s) + 1)
        BY <1>1
      <3> QED
        BY <1>2, <3>1 DEF Occurs
    <2>3. Occurs(y, s) => Occurs(y, v)
      <3> SUFFICES ASSUME NEW i \in DOMAIN s, s[i] = y PROVE Occurs(y, v)
        BY DEF Occurs
      <3>1. i \in 1..Len(s) /\ i \in DOMAIN v
        BY <1>1, <1>2
      <3> QED
        BY <1>2, <3>1 DEF Occurs
    <2> QED
      BY <2>1, <2>2, <2>3
  <1> QED
    BY <1>3, <1>4 DEF Once, v

LEMMA RemoveOnce ==
  ASSUME NEW T, NEW s \in Seq(T), NEW k \in 1..Len(s), Once(s)
  PROVE  /\ Once(RemoveAt(s, k))
         /\ \A y : Occurs(y, RemoveAt(s, k)) <=> y # s[k] /\ Occurs(y, s)
  <1> DEFINE v == RemoveAt(s, k)
  <1>1. Len(s) \in Nat /\ DOMAIN s = 1..Len(s)
    OBVIOUS
  <1>2. /\ DOMAIN v = 1..(Len(s) - 1)
        /\ \A i \in 1..(Len(s) - 1) : v[i] = IF i < k THEN s[i] ELSE s[i + 1]
    <2>1. /\ v \in Seq(T) /\ Len(v) = Len(s) - 1
          /\ \A i \in 1..(Len(s) - 1) : v[i] = IF i < k THEN s[i] ELSE s[i + 1]
      BY RemoveAtProperties
    <2> HIDE DEF v
    <2>2. DOMAIN v = 1..Len(v)
      BY <2>1
    <2> QED
      BY <2>1, <2>2
  <1> HIDE DEF v
  <1> DEFINE at(i) == IF i < k THEN i ELSE i + 1
  <1>3. \A i \in 1..(Len(s) - 1) : at(i) \in 1..Len(s) /\ v[i] = s[at(i)] /\ at(i) # k
    BY <1>1, <1>2
  <1>4. \A i, j \in 1..(Len(s) - 1) : at(i) = at(j) => i = j
    BY <1>1
  <1>5. \A j \in 1..Len(s) : j # k => \E i \in 1..(Len(s) - 1) : at(i) = j
    <2> SUFFICES ASSUME NEW j \in 1..Len(s), j # k
                 PROVE  \E i \in 1..(Len(s) - 1) : at(i) = j
      OBVIOUS
    <2>1. CASE j < k
      <3>1. j \in 1..(Len(s) - 1) /\ at(j) = j
        BY <1>1, <2>1
      <3> QED
        BY <3>1
    <2>2. CASE ~(j < k)
      <3>1. j - 1 \in 1..(Len(s) - 1) /\ at(j - 1) = j
        BY <1>1, <2>2
      <3> QED
        BY <3>1
    <2> QED
      BY <2>1, <2>2
  <1> HIDE DEF at
  <1>6. Once(v)
    BY <1>1, <1>2, <1>3, <1>4 DEF Once
  <1>7. ASSUME NEW y
        PROVE  Occurs(y, v) <=> y # s[k] /\ Occurs(y, s)
    <2>1. ASSUME NEW i \in DOMAIN v, v[i] = y PROVE y # s[k] /\ Occurs(y, s)
      BY <1>1, <1>2, <1>3, <2>1 DEF Once, Occurs
    <2>2. ASSUME NEW j \in DOMAIN s, s[j] = y, y # s[k] PROVE Occurs(y, v)
      BY <1>1, <1>2, <1>3, <1>5, <2>2 DEF Occurs
    <2> QED
      BY <2>1, <2>2 DEF Occurs
  <1> QED
    BY <1>6, <1>7 DEF v

LEMMA TailOnce ==
  ASSUME NEW T, NEW s \in Seq(T), s # <<>>, Once(s)
  PROVE  /\ Once(Tail(s))
         /\ \A y : Occurs(y, Tail(s)) <=> y # Head(s) /\ Occurs(y, s)
         /\ Occurs(Head(s), s)
  <1> DEFINE v == Tail(s)
  <1>1. Len(s) \in Nat \ {0} /\ DOMAIN s = 1..Len(s)
    OBVIOUS
  <1>2. /\ DOMAIN v = 1..(Len(s) - 1)
        /\ \A i \in 1..(Len(s) - 1) : v[i] = s[i + 1]
        /\ Head(s) = s[1]
    BY <1>1, HeadTailProperties
  <1> HIDE DEF v
  <1>3. Once(v)
    BY <1>1, <1>2 DEF Once
  <1>4. ASSUME NEW y
        PROVE  Occurs(y, v) <=> y # s[1] /\ Occurs(y, s)
    <2>1. ASSUME NEW i \in DOMAIN v, v[i] = y PROVE y # s[1] /\ Occurs(y, s)
      <3>1. i + 1 \in 1..Len(s) /\ i + 1 # 1 /\ s[i + 1] = y /\ 1 \in 1..Len(s)
        BY <1>1, <1>2, <2>1
      <3> QED
        BY <1>1, <3>1 DEF Once, Occurs
    <2>2. ASSUME NEW j \in DOMAIN s, s[j] = y, y # s[1] PROVE Occurs(y, v)
      <3>1. j - 1 \in 1..(Len(s) - 1) /\ (j - 1) + 1 = j
        BY <1>1, <2>2
      <3>2. v[j - 1] = y
        BY <1>2, <2>2, <3>1
      <3> QED
        BY <1>2, <3>1, <3>2 DEF Occurs
    <2> QED
      BY <2>1, <2>2 DEF Occurs
  <1>5. Occurs(Head(s), s)
    BY <1>1, <1>2 DEF Occurs
  <1> QED
    BY <1>2, <1>3, <1>4, <1>5 DEF v

LEMMA QueueIs ==
  ASSUME NEW e, Once(entry'[e].waiters),
         \A r : Occurs(r, entry'[e].waiters)
                  <=> r \in Queries /\ query'[r].pc = "waiting" /\ query'[r].entry = e
  PROVE  QueueOK(e)'
  BY DEF QueueOK, Waits, Once, Occurs

LEMMA QueueWas ==
  ASSUME Inv, NEW e \in Entries
  PROVE  /\ entry[e].waiters \in Seq(Queries)
         /\ Once(entry[e].waiters)
         /\ \A r : Occurs(r, entry[e].waiters) <=> r \in Queries /\ Waits(r, e)
  <1>1. entry[e].waiters \in Seq(Queries)
    BY EntryAt DEF Inv, EntryRecords
  <1>2. \A i \in DOMAIN entry[e].waiters : entry[e].waiters[i] \in Queries
    BY <1>1
  <1> QED
    BY <1>1, <1>2 DEF QueueOK, Inv, Once, Occurs

LEMMA CheckoutInv ==
  ASSUME Inv, TypeOK', Entries' = Entries, pool' = pool, pending' = pending,
         NEW q \in Queries, NEW e \in Entries, NEW n \in 0..Labels,
         entry[e].stage = "ready",
         query[q].pc = "idle" \/ (query[q].pc = "next" /\ query[q].entry = e),
         Checkout(q, e, n)
  PROVE  Inv'
  <1>0. TypeOK /\ ConnsOK(e) /\ QueueOK(e) /\ Untouched(e)
    BY DEF Inv
  <1>1. entry[e] \in EntryRecords /\ entry \in [Entries -> EntryRecords]
        /\ query \in [Queries -> QueryRecords]
    BY <1>0, EntryAt, EntryMap DEF TypeOK
  <1>2. q \notin Running(e) /\ ~Waits(q, e)
    BY DEF Running, Waits
  <1>3. \A r \in Queries : QueryOK(r)
    BY DEF Inv
  <1>4. \A r \in Queries : r # q => query'[r] = query[r]
    BY <1>1 DEF Checkout
  <1>5. entry[e].available \in SUBSET Conns
    BY <1>1 DEF EntryRecords
  <1>6. ASSUME OnlyOn(e, {q}), ConnsOK(e)', QueueOK(e)',
               \A r \in Queries : query'[r].pc # "idle" /\ query'[r].entry = e => QueryOK(r)'
        PROVE  Inv'
    BY <1>6, OthersKept
  <1>7. ASSUME NEW c \in entry[e].available,
               entry' = [entry EXCEPT ![e].available = @ \ {c},
                                      ![e].checkedOut = @ + 1],
               query' = [query EXCEPT ![q] =
                           [pc |-> "running", entry |-> e, conn |-> c, left |-> n]]
        PROVE  Inv'
    <2>1. entry'[e] = [entry[e] EXCEPT !.available = @ \ {c}, !.checkedOut = @ + 1]
          /\ \A x \in Entries : x # e => entry'[x] = entry[x]
      BY <1>1, <1>7
    <2>2. /\ entry'[e].available = entry[e].available \ {c}
          /\ entry'[e].checkedOut = entry[e].checkedOut + 1
          /\ entry'[e].shut = entry[e].shut
          /\ entry'[e].waiters = entry[e].waiters
          /\ entry'[e].stage = entry[e].stage
          /\ entry'[e].closed = entry[e].closed
          /\ entry'[e].repo = entry[e].repo
      BY <1>1, <2>1 DEF EntryRecords
    <2>3. query'[q] = [pc |-> "running", entry |-> e, conn |-> c, left |-> n]
      BY <1>1, <1>7
    <2>4. /\ query'[q].pc = "running" /\ query'[q].entry = e /\ query'[q].conn = c
      BY <2>3
    <2>5. OnlyOn(e, {q})
      BY <1>4, <2>1, <2>2, <2>4 DEF OnlyOn
    <2>6. ~entry[e].closed /\ entry[e].shut = {} /\ entry[e].waiters = <<>>
          /\ entry[e].checkedOut + Cardinality(entry[e].available) = MaxConns
      BY <1>0 DEF ConnsOK
    <2>7. entry'[e].checkedOut + Cardinality(entry'[e].available) = MaxConns
      <3>1. IsFiniteSet(entry[e].available) /\ Cardinality(entry[e].available) \in Nat
        BY <1>5, ConnsFinite
      <3>2. Cardinality(entry[e].available \ {c}) = Cardinality(entry[e].available) - 1
        BY <3>1, FS_RemoveElement
      <3>3. entry[e].checkedOut \in Nat
        BY <1>1 DEF EntryRecords
      <3> QED
        BY <2>2, <2>6, <3>1, <3>2, <3>3
    <2>8. \A d \in Conns \ (entry'[e].available \cup entry'[e].shut) :
             \E r \in Queries : query'[r].pc = "running" /\ query'[r].entry = e /\ query'[r].conn = d
      <3> SUFFICES ASSUME NEW d \in Conns \ (entry'[e].available \cup entry'[e].shut)
                   PROVE  \E r \in Queries : query'[r].pc = "running" /\ query'[r].entry = e /\ query'[r].conn = d
        OBVIOUS
      <3>1. CASE d = c
        BY <2>4, <3>1
      <3>2. CASE d # c
        <4>1. PICK r \in Queries : r \in Running(e) /\ query[r].conn = d
          BY <1>0, <2>2, <3>2 DEF ConnsOK
        <4>2. r # q
          BY <1>2, <4>1
        <4> QED
          BY <1>4, <4>1, <4>2 DEF Running
      <3> QED
        BY <3>1, <3>2
    <2>9. ConnsOK(e)'
      BY <2>2, <2>6, <2>7, <2>8 DEF ConnsOK, Running
    <2>10. \A r \in Queries : Waits(r, e)' <=> Waits(r, e)
      BY <1>2, <1>4, <2>4 DEF Waits
    <2>11. QueueOK(e)'
      BY <1>0, <2>2, <2>6, <2>10 DEF QueueOK
    <2>12. ASSUME NEW r \in Queries, query'[r].pc # "idle", query'[r].entry = e
           PROVE  QueryOK(r)'
      <3>1. c \in Conns \ (entry'[e].available \cup entry'[e].shut)
        BY <1>5, <2>2, <2>6
      <3>2. CASE r = q
        <4>1. \A s \in Queries : s # q /\ query'[s].pc = "running" /\ query'[s].entry = e
                => query'[s].conn # c
          BY <1>3, <1>4 DEF QueryOK
        <4> QED
          BY <2>2, <2>4, <2>5, <3>1, <3>2, <4>1 DEF QueryOK, Running, OnlyOn
      <3>3. CASE r # q
        <4>1. query'[r] = query[r] /\ QueryOK(r)
          BY <1>3, <1>4, <3>3
        <4>2. query[r].pc = "running" => query[r].conn # c
          BY <2>12, <4>1 DEF QueryOK
        <4> QED
          BY <1>4, <2>2, <2>4, <2>5, <2>12, <4>1, <4>2 DEF QueryOK, Running, OnlyOn
      <3> QED
        BY <3>2, <3>3
    <2> QED
      BY <1>6, <2>5, <2>9, <2>11, <2>12
  <1>8. ASSUME entry' = entry, query' = [query EXCEPT ![q] = AfterError(e, n)]
        PROVE  Inv'
    <2>1. query'[q] = AfterError(e, n)
      BY <1>1, <1>8
    <2>2. query'[q].pc \in {"idle", "next"} /\ (query'[q].pc = "next" => query'[q].entry = e /\ query'[q].left > 0)
      BY <2>1 DEF AfterError, Idle
    <2>3. OnlyOn(e, {q})
      BY <1>4, <1>8, <2>2 DEF OnlyOn
    <2>4. \A r \in Queries : Waits(r, e)' <=> Waits(r, e)
      BY <1>2, <1>4, <2>2 DEF Waits
    <2>5. \A r \in Queries : query'[r].pc = "running" <=> query[r].pc = "running"
      BY <1>4, <2>2
    <2>6. ConnsOK(e)'
      BY <1>0, <1>2, <1>4, <1>8, <2>5 DEF ConnsOK, Running
    <2>7. QueueOK(e)'
      BY <1>0, <1>1, <1>8, <2>4 DEF QueueOK, EntryRecords
    <2>8. ASSUME NEW r \in Queries, query'[r].pc # "idle", query'[r].entry = e
           PROVE  QueryOK(r)'
      <3>1. CASE r = q
        BY <1>8, <2>2, <2>3, <2>8, <3>1 DEF QueryOK, OnlyOn
      <3>2. CASE r # q
        BY <1>3, <1>4, <1>8, <2>3, <2>5, <2>8, <3>2 DEF QueryOK, Running, OnlyOn
      <3> QED
        BY <3>1, <3>2
    <2> QED
      BY <1>6, <2>3, <2>6, <2>7, <2>8
  <1>9. ASSUME entry[e].available = {},
               entry' = [entry EXCEPT ![e].waiters = Append(@, q)],
               query' = [query EXCEPT ![q] =
                          [pc |-> "waiting", entry |-> e, conn |-> 0, left |-> n]]
        PROVE  Inv'
    <2> DEFINE w == entry[e].waiters
    <2>1. entry'[e] = [entry[e] EXCEPT !.waiters = Append(w, q)]
          /\ \A x \in Entries : x # e => entry'[x] = entry[x]
      BY <1>1, <1>9
    <2>2. /\ entry'[e].available = entry[e].available
          /\ entry'[e].checkedOut = entry[e].checkedOut
          /\ entry'[e].shut = entry[e].shut
          /\ entry'[e].waiters = Append(w, q)
          /\ entry'[e].stage = entry[e].stage
          /\ entry'[e].closed = entry[e].closed
          /\ entry'[e].repo = entry[e].repo
      BY <1>1, <2>1 DEF EntryRecords
    <2>3. query'[q].pc = "waiting" /\ query'[q].entry = e
      BY <1>1, <1>9
    <2>4. OnlyOn(e, {q})
      BY <1>4, <2>1, <2>2, <2>3 DEF OnlyOn
    <2>5. \A r \in Queries : query'[r].pc = "running" <=> query[r].pc = "running"
      BY <1>4, <2>3
    <2>6. ConnsOK(e)'
      <3>1. \A r \in Running(e) : query'[r] = query[r]
        BY <1>2, <1>4 DEF Running
      <3>2. \A c \in Conns \ (entry'[e].available \cup entry'[e].shut) :
               \E r \in Queries : query'[r].pc = "running" /\ query'[r].entry = e /\ query'[r].conn = c
        BY <1>0, <2>2, <3>1 DEF ConnsOK, Running
      <3> QED
        BY <1>0, <1>9, <2>2, <3>2 DEF ConnsOK, Running
    <2>7. QueueOK(e)'
      <3>1. ~Occurs(q, w) /\ w \in Seq(Queries) /\ Once(w)
        BY <1>2, QueueWas
      <3>2. Once(Append(w, q)) /\ \A r : Occurs(r, Append(w, q)) <=> r = q \/ Occurs(r, w)
        BY <3>1, AppendOnce
      <3>3. \A r \in Queries : r # q => (Waits(r, e) <=> query'[r].pc = "waiting" /\ query'[r].entry = e)
        BY <1>4 DEF Waits
      <3>4. \A r : Occurs(r, w) <=> r \in Queries /\ Waits(r, e)
        BY QueueWas
      <3> HIDE DEF w
      <3> QED
        BY <1>2, <2>2, <2>3, <3>2, <3>3, <3>4, QueueIs
    <2>8. ASSUME NEW r \in Queries, query'[r].pc # "idle", query'[r].entry = e
           PROVE  QueryOK(r)'
      <3>1. CASE r = q
        BY <2>2, <2>3, <2>4, <3>1 DEF QueryOK, OnlyOn
      <3>2. CASE r # q
        BY <1>3, <1>4, <2>2, <2>4, <2>5, <2>8, <3>2 DEF QueryOK, Running, OnlyOn
      <3> QED
        BY <3>1, <3>2
    <2> QED
      BY <1>6, <2>4, <2>6, <2>7, <2>8
  <1> QED
    BY <1>7, <1>8, <1>9 DEF Checkout

(* What the steps that end the query of q, which runs on connection c of
   entry e, have in common. *)
LEMMA FinishFacts ==
  ASSUME Inv, NEW q \in Queries, NEW e, NEW c, e = query[q].entry, c = query[q].conn,
         query[q].pc = "running"
  PROVE  /\ e \in Entries
         /\ entry[e].stage = "ready"
         /\ entry[e] \in EntryRecords
         /\ entry \in [Entries -> EntryRecords]
         /\ query \in [Queries -> QueryRecords]
         /\ c \in Conns \ (entry[e].available \cup entry[e].shut)
         /\ \A r \in Running(e) : query[r].conn = c => r = q
         /\ \A r \in Queries : r # q /\ Waits(r, e) => query[r].pc = "waiting"
         /\ ~Waits(q, e)
  <1>1. QueryOK(q) /\ TypeOK
    BY DEF Inv
  <1>2. e \in Entries /\ entry[e].stage = "ready"
    BY <1>1 DEF QueryOK
  <1> QED
    BY <1>1, <1>2, EntryAt, EntryMap DEF QueryOK, TypeOK, Waits

(* The holders of the other connections keep them, and the waiters that are
   not served go on waiting. *)
LEMMA OtherHolders ==
  ASSUME Inv, NEW q \in Queries, NEW e \in Entries, NEW c, entry[e].stage = "ready",
         query[q].conn = c, query[q].pc = "running", query[q].entry = e,
         NEW h \in Queries, h # q => Waits(h, e),
         \A r \in Queries : r \notin {q, h} => query'[r] = query[r]
  PROVE  /\ \A d \in Conns \ (entry[e].available \cup entry[e].shut) : d # c =>
              \E r \in Queries : query'[r].pc = "running" /\ query'[r].entry = e /\ query'[r].conn = d
         /\ \A r \in Queries : r \notin {q, h} => QueryOK(r) /\ query'[r] = query[r]
         /\ \A r \in Queries : r \notin {q, h} /\ query'[r].pc = "running" /\ query'[r].entry = e
              => query'[r].conn # c
  <1>1. ConnsOK(e) /\ \A r \in Queries : QueryOK(r)
    BY DEF Inv
  <1>2. ASSUME NEW d \in Conns \ (entry[e].available \cup entry[e].shut), d # c
        PROVE  \E r \in Queries : query'[r].pc = "running" /\ query'[r].entry = e /\ query'[r].conn = d
    <2>1. PICK r \in Queries : r \in Running(e) /\ query[r].conn = d
      BY <1>1 DEF ConnsOK
    <2>2. r # q /\ r # h
      BY <1>2, <2>1 DEF Running, Waits
    <2> QED
      BY <2>1, <2>2 DEF Running
  <1>3. ASSUME NEW r \in Queries, r \notin {q, h}, query'[r].pc = "running", query'[r].entry = e
        PROVE  query'[r].conn # c
    <2>1. QueryOK(q)
      BY <1>1
    <2>2. r \in Running(e)
      BY <1>3 DEF Running
    <2>3. \A s \in Running(query[q].entry) : query[s].conn = query[q].conn => s = q
      BY <2>1 DEF QueryOK
    <2> QED
      BY <1>3, <2>2, <2>3
  <1> QED
    BY <1>1, <1>2, <1>3

LEMMA RunningFrom ==
  ASSUME NEW r \in Queries, NEW e \in Entries, Entries' = Entries,
         entry'[e].stage = "ready", query'[r].entry = e,
         query'[r].pc = "next" => query'[r].left > 0,
         query'[r].pc = "running" =>
           /\ query'[r].conn \in Conns \ (entry'[e].available \cup entry'[e].shut)
           /\ \A s \in Queries : /\ query'[s].pc = "running"
                                 /\ query'[s].entry = e
                                 /\ query'[s].conn = query'[r].conn
                                 => s = r
  PROVE  QueryOK(r)'
  BY DEF QueryOK, Running

LEMMA AfterErrorIs ==
  ASSUME NEW e, NEW n
  PROVE  /\ AfterError(e, n).pc \in {"idle", "next"}
         /\ AfterError(e, n).pc = "next" => AfterError(e, n).entry = e /\ n # 0
                                            /\ AfterError(e, n).left = n
  BY DEF AfterError, Idle

LEMMA FinishInv ==
  ASSUME Inv, NEW q \in Queries, Finish(q)
  PROVE  Inv'
  <1>0. TypeOK /\ TypeOK'
    BY FinishType DEF Inv
  <1>1. PICK e, c : e = query[q].entry /\ c = query[q].conn
    OBVIOUS
  <1>2. query[q].pc = "running" /\ pool' = pool /\ pending' = pending
    BY DEF Finish
  <1>3. /\ e \in Entries
        /\ entry[e].stage = "ready"
        /\ entry[e] \in EntryRecords
        /\ entry \in [Entries -> EntryRecords]
        /\ query \in [Queries -> QueryRecords]
        /\ c \in Conns \ (entry[e].available \cup entry[e].shut)
        /\ ~Waits(q, e)
    BY <1>1, <1>2, FinishFacts
  <1>4. ConnsOK(e) /\ \A r \in Queries : QueryOK(r)
    BY <1>3 DEF Inv
  <1> DEFINE w == entry[e].waiters
             after == [query EXCEPT ![q] = AfterError(e, query[q].left)]
  <1>5. /\ after[q].pc \in {"idle", "next"}
        /\ after[q].pc = "next" => after[q].entry = e /\ after[q].left > 0
        /\ \A r \in Queries : r # q => after[r] = query[r]
    <2>1. after[q] = AfterError(e, query[q].left)
      BY <1>3
    <2>2. query[q].left \in Nat
      BY <1>3 DEF QueryRecords
    <2> QED
      BY <1>3, <2>1, <2>2, AfterErrorIs
  <1>6. after \in [Queries -> QueryRecords]
    BY <1>0, <1>3, AfterErrorType DEF QueryRecords
  <1> HIDE DEF after
  <1>7. CASE /\ entry[e].closed
             /\ entry' = [entry EXCEPT ![e].shut = @ \cup {c}]
             /\ query' = after
    <2>1. /\ entry'[e] = [entry[e] EXCEPT !.shut = @ \cup {c}]
          /\ \A x \in Entries : x # e => entry'[x] = entry[x]
          /\ Len(entry') = Len(entry)
      BY <1>0, <1>3, <1>7 DEF TypeOK
    <2>2. /\ entry'[e].available = entry[e].available
          /\ entry'[e].shut = entry[e].shut \cup {c}
          /\ entry'[e].waiters = w
          /\ entry'[e].stage = "ready"
          /\ entry'[e].closed = entry[e].closed
          /\ entry'[e].repo = entry[e].repo
      BY <1>3, <2>1 DEF EntryRecords
    <2>3. OnlyOn(e, {q})
      BY <1>1, <1>2, <1>3, <1>5, <1>7, <2>1, <2>2 DEF OnlyOn, Entries
    <2>4. /\ \A d \in Conns \ (entry[e].available \cup entry[e].shut) : d # c =>
              \E r \in Queries : query'[r].pc = "running" /\ query'[r].entry = e /\ query'[r].conn = d
          /\ \A r \in Queries : r # q => QueryOK(r) /\ query'[r] = query[r]
          /\ \A r \in Queries : r # q /\ query'[r].pc = "running" /\ query'[r].entry = e
              => query'[r].conn # c
      BY <1>1, <1>2, <1>3, <1>5, <1>7, OtherHolders
    <2>5. ConnsOK(e)'
      BY <1>3, <1>4, <1>7, <2>2, <2>4 DEF ConnsOK, Running
    <2>6. QueueOK(e)'
      <3>1. \A r \in Queries : Waits(r, e) <=> query'[r].pc = "waiting" /\ query'[r].entry = e
        BY <1>3, <1>5, <1>7 DEF Waits
      <3> QED
        BY <1>3, <2>2, <3>1, QueueWas, QueueIs
    <2>7. ASSUME NEW r \in Queries, query'[r].pc # "idle", query'[r].entry = e
          PROVE  QueryOK(r)'
      <3>1. CASE r = q
        BY <1>3, <1>5, <1>7, <2>2, <2>3, <2>7, <3>1, RunningFrom DEF OnlyOn
      <3>2. CASE r # q
        <4>1. query'[r] = query[r] /\ QueryOK(r) /\ query'[q].pc # "running"
          BY <1>5, <1>7, <2>4, <3>2
        <4>2. query[r].pc = "running" => query[r].conn # c
          BY <2>4, <2>7, <3>2, <4>1
        <4> QED
          BY <1>3, <2>2, <2>3, <2>4, <2>7, <4>1, <4>2 DEF QueryOK, Running, OnlyOn
      <3> QED
        BY <3>1, <3>2
    <2> QED
      BY <1>0, <1>3, <2>3, <2>5, <2>6, <2>7, OthersKept
  <1>8. CASE /\ ~entry[e].closed
             /\ w # <<>>
             /\ entry' = [entry EXCEPT ![e].waiters = Tail(@)]
             /\ query' = [after EXCEPT ![Head(w)].pc = "running",
                                       ![Head(w)].conn = c]
    <2>0. PICK h : h = Head(w)
      OBVIOUS
    <2>1. /\ entry'[e] = [entry[e] EXCEPT !.waiters = Tail(@)]
          /\ \A x \in Entries : x # e => entry'[x] = entry[x]
          /\ Len(entry') = Len(entry)
      BY <1>0, <1>3, <1>8 DEF TypeOK
    <2>2. /\ entry'[e].available = entry[e].available
          /\ entry'[e].shut = entry[e].shut
          /\ entry'[e].checkedOut = entry[e].checkedOut
          /\ entry'[e].waiters = Tail(w)
          /\ entry'[e].stage = "ready"
          /\ entry'[e].closed = entry[e].closed
          /\ entry'[e].repo = entry[e].repo
      BY <1>3, <2>1 DEF EntryRecords
    <2>3. w \in Seq(Queries) /\ Once(w) /\ \A r : Occurs(r, w) <=> r \in Queries /\ Waits(r, e)
      BY <1>3, QueueWas
    <2>4. /\ Once(Tail(w))
          /\ \A r : Occurs(r, Tail(w)) <=> r # h /\ r \in Queries /\ Waits(r, e)
          /\ h \in Queries /\ Waits(h, e)
      BY <1>8, <2>0, <2>3, TailOnce
    <2>5. h # q /\ after[h] = query[h]
      BY <1>3, <1>5, <2>4
    <2>6. /\ query'[h].pc = "running" /\ query'[h].conn = c /\ query'[h].entry = e
          /\ query'[q] = after[q]
          /\ \A r \in Queries : r \notin {q, h} => query'[r] = query[r]
      <3>1. query'[h] = [query[h] EXCEPT !.pc = "running", !.conn = c]
        BY <1>6, <1>8, <2>0, <2>4, <2>5
      <3>2. \A r \in Queries : r # h => query'[r] = after[r]
        BY <1>6, <1>8, <2>0
      <3>3. query'[h].pc = "running" /\ query'[h].conn = c /\ query'[h].entry = query[h].entry
        BY <1>3, <2>4, <3>1 DEF QueryRecords
      <3> QED
        BY <1>5, <2>4, <2>5, <3>2, <3>3 DEF Waits
    <2>7. OnlyOn(e, {q, h})
      BY <1>1, <1>2, <1>3, <1>5, <2>1, <2>2, <2>4, <2>6 DEF OnlyOn, Entries, Waits
    <2>8. /\ \A d \in Conns \ (entry[e].available \cup entry[e].shut) : d # c =>
              \E r \in Queries : query'[r].pc = "running" /\ query'[r].entry = e /\ query'[r].conn = d
          /\ \A r \in Queries : r \notin {q, h} => QueryOK(r) /\ query'[r] = query[r]
          /\ \A r \in Queries : r \notin {q, h} /\ query'[r].pc = "running" /\ query'[r].entry = e
              => query'[r].conn # c
      BY <1>1, <1>2, <1>3, <2>4, <2>6, OtherHolders
    <2>9. ConnsOK(e)'
      <3>1. \A d \in Conns \ (entry'[e].available \cup entry'[e].shut) :
              \E r \in Queries : query'[r].pc = "running" /\ query'[r].entry = e /\ query'[r].conn = d
        BY <2>2, <2>4, <2>6, <2>8
      <3>2. /\ entry[e].available = {} /\ entry[e].shut = {}
            /\ entry[e].checkedOut + Cardinality(entry[e].available) = MaxConns
        BY <1>3, <1>4, <1>8 DEF ConnsOK
      <3> HIDE DEF w
      <3> QED
        BY <1>8, <2>2, <3>1, <3>2 DEF ConnsOK, Running
    <2>10. QueueOK(e)'
      <3>1. \A r \in Queries : r # h => (Waits(r, e) <=> query'[r].pc = "waiting" /\ query'[r].entry = e)
        BY <1>3, <1>5, <2>6 DEF Waits
      <3> HIDE DEF w
      <3> QED
        BY <2>2, <2>4, <2>6, <3>1, QueueIs
    <2>11. ASSUME NEW r \in Queries, query'[r].pc # "idle", query'[r].entry = e
           PROVE  QueryOK(r)'
      <3>1. CASE r = q
        BY <1>3, <1>5, <2>2, <2>6, <2>7, <2>11, <3>1, RunningFrom DEF OnlyOn
      <3>2. CASE r = h
        <4>1. \A s \in Queries : query'[s].pc = "running" /\ query'[s].entry = e /\ query'[s].conn = c => s = h
          BY <1>5, <2>6, <2>8
        <4> QED
          BY <1>3, <2>2, <2>6, <2>7, <2>11, <3>2, <4>1, RunningFrom DEF OnlyOn
      <3>3. CASE r \notin {q, h}
        <4>1. query'[r] = query[r] /\ QueryOK(r) /\ query'[q].pc # "running"
          BY <1>5, <2>6, <2>8, <3>3
        <4>2. query[r].pc = "running" => query[r].conn # c
          BY <2>8, <2>11, <3>3, <4>1
        <4> QED
          BY <1>3, <2>2, <2>6, <2>7, <2>8, <2>11, <4>1, <4>2 DEF QueryOK, Running, OnlyOn
      <3> QED
        BY <3>1, <3>2, <3>3
    <2> QED
      BY <1>0, <1>3, <2>4, <2>7, <2>9, <2>10, <2>11, OthersKept
  <1>9. CASE /\ ~entry[e].closed
             /\ w = <<>>
             /\ entry' = [entry EXCEPT ![e].checkedOut = @ - 1,
                                       ![e].available = @ \cup {c}]
             /\ query' = after
    <2>1. /\ entry'[e] = [entry[e] EXCEPT !.checkedOut = @ - 1, !.available = @ \cup {c}]
          /\ \A x \in Entries : x # e => entry'[x] = entry[x]
          /\ Len(entry') = Len(entry)
      BY <1>0, <1>3, <1>9 DEF TypeOK
    <2>2. /\ entry'[e].available = entry[e].available \cup {c}
          /\ entry'[e].shut = entry[e].shut
          /\ entry'[e].checkedOut = entry[e].checkedOut - 1
          /\ entry'[e].waiters = w
          /\ entry'[e].stage = "ready"
          /\ entry'[e].closed = entry[e].closed
          /\ entry'[e].repo = entry[e].repo
      BY <1>3, <2>1 DEF EntryRecords
    <2>3. OnlyOn(e, {q})
      BY <1>1, <1>2, <1>3, <1>5, <1>9, <2>1, <2>2 DEF OnlyOn, Entries
    <2>4. /\ \A d \in Conns \ (entry[e].available \cup entry[e].shut) : d # c =>
              \E r \in Queries : query'[r].pc = "running" /\ query'[r].entry = e /\ query'[r].conn = d
          /\ \A r \in Queries : r # q => QueryOK(r) /\ query'[r] = query[r]
          /\ \A r \in Queries : r # q /\ query'[r].pc = "running" /\ query'[r].entry = e
              => query'[r].conn # c
      BY <1>1, <1>2, <1>3, <1>5, <1>9, OtherHolders
    <2>5. ConnsOK(e)'
      <3>1. entry[e].available \in SUBSET Conns /\ entry[e].checkedOut \in Nat
        BY <1>3 DEF EntryRecords
      <3>2. IsFiniteSet(entry[e].available) /\ Cardinality(entry[e].available) \in Nat
        BY <3>1, ConnsFinite
      <3>3. Cardinality(entry[e].available \cup {c}) = Cardinality(entry[e].available) + 1
        BY <1>3, <3>2, FS_AddElement
      <3>4. entry[e].checkedOut + Cardinality(entry[e].available) = MaxConns
        BY <1>3, <1>4, <1>9 DEF ConnsOK
      <3>5. entry'[e].checkedOut + Cardinality(entry'[e].available) = MaxConns
        BY <2>2, <3>1, <3>2, <3>3, <3>4
      <3> QED
        BY <1>3, <1>4, <1>9, <2>2, <2>4, <3>5 DEF ConnsOK, Running
    <2>6. QueueOK(e)'
      <3>1. \A r \in Queries : Waits(r, e) <=> query'[r].pc = "waiting" /\ query'[r].entry = e
        BY <1>3, <1>5, <1>9 DEF Waits
      <3> QED
        BY <1>3, <2>2, <3>1, QueueWas, QueueIs
    <2>7. ASSUME NEW r \in Queries, query'[r].pc # "idle", query'[r].entry = e
          PROVE  QueryOK(r)'
      <3>1. CASE r = q
        BY <1>3, <1>5, <1>9, <2>2, <2>3, <2>7, <3>1, RunningFrom DEF OnlyOn
      <3>2. CASE r # q
        <4>1. query'[r] = query[r] /\ QueryOK(r) /\ query'[q].pc # "running"
          BY <1>5, <1>9, <2>4, <3>2
        <4>2. query[r].pc = "running" => query[r].conn # c
          BY <2>4, <2>7, <3>2, <4>1
        <4> QED
          BY <1>3, <2>2, <2>3, <2>4, <2>7, <4>1, <4>2 DEF QueryOK, Running, OnlyOn
      <3> QED
        BY <3>1, <3>2
    <2> QED
      BY <1>0, <1>3, <2>3, <2>5, <2>6, <2>7, OthersKept
  <1> QED
    BY <1>1, <1>7, <1>8, <1>9 DEF Finish, after

LEMMA WaiterTimeoutInv ==
  ASSUME Inv, NEW q \in Queries, WaiterTimeout(q)
  PROVE  Inv'
  <1>0. TypeOK /\ TypeOK'
    BY WaiterTimeoutType DEF Inv
  <1>1. PICK e : e = query[q].entry
    OBVIOUS
  <1>2. query[q].pc = "waiting" /\ pool' = pool /\ pending' = pending
        /\ query' = [query EXCEPT ![q] = AfterError(e, query[q].left)]
    BY <1>1 DEF WaiterTimeout
  <1>3. e \in Entries /\ entry[e].stage = "ready"
    BY <1>1, <1>2 DEF Inv, QueryOK
  <1>4. /\ entry[e] \in EntryRecords
        /\ entry \in [Entries -> EntryRecords]
        /\ query \in [Queries -> QueryRecords]
        /\ \A r \in Queries : QueryOK(r)
        /\ ConnsOK(e)
    BY <1>0, <1>3, EntryAt, EntryMap DEF TypeOK, Inv
  <1> DEFINE w == entry[e].waiters
  <1>5. PICK i \in DOMAIN w : w[i] = q /\ entry' = [entry EXCEPT ![e].waiters = RemoveAt(@, i)]
    BY <1>1 DEF WaiterTimeout
  <1>6. /\ query'[q].pc \in {"idle", "next"}
        /\ query'[q].pc = "next" => query'[q].entry = e /\ query'[q].left > 0
        /\ \A r \in Queries : r # q => query'[r] = query[r]
    <2>1. query'[q] = AfterError(e, query[q].left)
      BY <1>2, <1>4
    <2>2. query[q].left \in Nat
      BY <1>4 DEF QueryRecords
    <2> QED
      BY <1>2, <1>4, <2>1, <2>2, AfterErrorIs
  <1>7. /\ entry'[e] = [entry[e] EXCEPT !.waiters = RemoveAt(w, i)]
        /\ \A x \in Entries : x # e => entry'[x] = entry[x]
        /\ Len(entry') = Len(entry)
    BY <1>0, <1>3, <1>4, <1>5 DEF TypeOK
  <1>8. /\ entry'[e].available = entry[e].available
        /\ entry'[e].shut = entry[e].shut
        /\ entry'[e].checkedOut = entry[e].checkedOut
        /\ entry'[e].waiters = RemoveAt(w, i)
        /\ entry'[e].stage = "ready"
        /\ entry'[e].closed = entry[e].closed
        /\ entry'[e].repo = entry[e].repo
    BY <1>3, <1>4, <1>7 DEF EntryRecords
  <1>9. OnlyOn(e, {q})
    BY <1>1, <1>2, <1>3, <1>6, <1>7, <1>8 DEF OnlyOn, Entries
  <1>10. \A r \in Queries : query'[r].pc = "running" <=> query[r].pc = "running"
    BY <1>2, <1>6
  <1>11. w \in Seq(Queries) /\ Once(w) /\ \A r : Occurs(r, w) <=> r \in Queries /\ Waits(r, e)
    BY <1>3, QueueWas
  <1>12. ConnsOK(e)'
    <2>1. \A r \in Running(e) : query'[r] = query[r]
      BY <1>2, <1>6 DEF Running
    <2>2. \A c \in Conns \ (entry'[e].available \cup entry'[e].shut) :
             \E r \in Queries : query'[r].pc = "running" /\ query'[r].entry = e /\ query'[r].conn = c
      BY <1>3, <1>4, <1>8, <2>1 DEF ConnsOK, Running
    <2>3. w # <<>>
      BY <1>5
    <2> QED
      BY <1>3, <1>4, <1>8, <2>2, <2>3 DEF ConnsOK, Running
  <1>13. QueueOK(e)'
    <2>1. i \in 1..Len(w)
      BY <1>5, <1>11
    <2>2. Once(RemoveAt(w, i)) /\ \A r : Occurs(r, RemoveAt(w, i)) <=> r # q /\ Occurs(r, w)
      BY <1>5, <1>11, <2>1, RemoveOnce
    <2>3. \A r \in Queries : r # q => (Waits(r, e) <=> query'[r].pc = "waiting" /\ query'[r].entry = e)
      BY <1>6 DEF Waits
    <2> HIDE DEF w
    <2> QED
      BY <1>6, <1>8, <1>11, <2>2, <2>3, QueueIs
  <1>14. ASSUME NEW r \in Queries, query'[r].pc # "idle", query'[r].entry = e
         PROVE  QueryOK(r)'
    <2>1. CASE r = q
      BY <1>3, <1>6, <1>8, <1>9, <1>14, <2>1, RunningFrom DEF OnlyOn
    <2>2. CASE r # q
      BY <1>4, <1>6, <1>8, <1>9, <1>10, <1>14, <2>2 DEF QueryOK, Running, OnlyOn
    <2> QED
      BY <2>1, <2>2
  <1> QED
    BY <1>0, <1>3, <1>9, <1>12, <1>13, <1>14, OthersKept

-----------------------------------------------------------------------------
(* Theorems. *)

LEMMA InitInv == Init => Inv
  <1> SUFFICES ASSUME Init PROVE Inv
    OBVIOUS
  <1>1. entry = <<>> /\ Len(entry) = 0 /\ Entries = {} /\ entry \in Seq(EntryRecords)
    BY DEF Init, Entries
  <1>2. 0 \in 0..Len(entry) /\ 0 \in 0..MaxConns /\ 0 \in 0..Labels /\ Len(entry) <= MaxEntries
    BY <1>1, BoundAssumption
  <1>3. Idle \in QueryRecords /\ Idle.pc = "idle"
    BY <1>2 DEF Idle, QueryRecords
  <1>4. TypeOK
    BY <1>1, <1>2, <1>3 DEF TypeOK, Init
  <1>5. InitsOrdered
    BY <1>1 DEF InitsOrdered, Init
  <1>6. \A q \in Queries : QueryOK(q)
    BY <1>3 DEF QueryOK, Init
  <1> QED
    BY <1>1, <1>4, <1>5, <1>6 DEF Inv

LEMMA NextInv == Inv /\ [Next]_vars => Inv'
  <1> SUFFICES ASSUME Inv, [Next]_vars PROVE Inv'
    OBVIOUS
  <1>0. TypeOK
    BY DEF Inv
  <1>1. ASSUME NEW r \in Repos, InitCgdb(r)
        PROVE  Inv'
    BY <1>1, InitCgdbInv
  <1>2. ASSUME NEW r \in Repos, CloseOneRepo(r)
        PROVE  Inv'
    <2>1. {pool[r]} \in SUBSET Registered
      BY <1>2, InitFacts DEF CloseOneRepo, Registered, Inv, InitsOrdered
    <2> QED
      BY <1>2, <2>1, CloseInv DEF CloseOneRepo
  <1>3. ASSUME CloseEveryRepo
        PROVE  Inv'
    BY <1>3, CloseInv DEF CloseEveryRepo
  <1>4. ASSUME IdleTimer
        PROVE  Inv'
    <2>1. PICK last \in Registered :
            CloseCgdb({e \in Registered : /\ e = last \/ <<e, last>> \in older
                                          /\ entry[e].checkedOut = 0})
      BY <1>4 DEF IdleTimer
    <2> QED
      BY <2>1, CloseInv
  <1>5. ASSUME NEW e \in Entries, InitStep(e)
        PROVE  Inv'
    <2>1. CASE StatFails(e)
      BY <2>1, GiveUpInv DEF StatFails
    <2>2. CASE ShareDatabase(e)
      BY <2>2, ShareInv
    <2>3. CASE OpenDatabase(e)
      BY <2>3, OpenInv
    <2>4. CASE FindLocked(e)
      BY <2>4, FindLockedInv
    <2>5. CASE RetryOpens(e) \/ RetryLocked(e)
      BY <2>5, RetryInv
    <2>6. CASE RetryFails(e)
      BY <2>6, GiveUpInv DEF RetryFails
    <2>7. CASE Register(e)
      BY <2>7, RegisterInv
    <2>8. CASE OpenFails(e)
      BY <2>8, OpenFailsInv
    <2> QED
      BY <1>5, <2>1, <2>2, <2>3, <2>4, <2>5, <2>6, <2>7, <2>8 DEF InitStep
  <1>6. ASSUME NEW q \in Queries, QueryStep(q)
        PROVE  Inv'
    <2>1. CASE NextLabel(q)
      <3>1. /\ query[q].entry \in Entries /\ entry[query[q].entry].stage = "ready"
            /\ query[q].pc = "next" /\ query[q].left - 1 \in 0..Labels
        BY <2>1, BoundAssumption DEF NextLabel, Inv, QueryOK, TypeOK, QueryRecords
      <3>2. entry' \in [Entries -> EntryRecords]
        BY <2>1, <3>1, CheckoutType DEF NextLabel
      <3>3. Entries' = Entries
        BY <1>0, <3>2, LengthKept
      <3>4. TypeOK'
        BY <2>1, NextLabelType
      <3> QED
        BY <2>1, <3>1, <3>3, <3>4, CheckoutInv DEF NextLabel
    <2>2. CASE Finish(q)
      BY <2>2, FinishInv
    <2>3. CASE WaiterTimeout(q)
      BY <2>3, WaiterTimeoutInv
    <2> QED
      BY <1>6, <2>1, <2>2, <2>3 DEF QueryStep
  <1>7. ASSUME NEW q \in Queries, NEW r \in Repos, Execute(q, r)
        PROVE  Inv'
    <2>1. pool[r] \in Entries /\ entry[pool[r]].stage = "ready" /\ query[q].pc = "idle"
      BY <1>7, InitFacts DEF Execute, Inv, InitsOrdered
    <2>2. PICK n \in (IF q \in Scanners THEN 0..(Labels - 1) ELSE {0}) : Checkout(q, pool[r], n)
      BY <1>7 DEF Execute
    <2>3. n \in 0..Labels
      BY BoundAssumption
    <2>4. entry' \in [Entries -> EntryRecords]
      BY <2>1, <2>2, <2>3, CheckoutType
    <2>5. Entries' = Entries
      BY <1>0, <2>4, LengthKept
    <2>6. TypeOK'
      BY <1>7, ExecuteType
    <2> QED
      BY <1>7, <2>1, <2>2, <2>3, <2>5, <2>6, CheckoutInv DEF Execute
  <1>8. CASE UNCHANGED vars
    <2>1. TypeOK'
      BY <1>0, <1>8 DEF vars, TypeOK, Entries, QueryRecords
    <2>2. InitsOrdered' /\ Entries' = Entries
      BY <1>8 DEF vars, Inv, InitsOrdered, Opening, Entries
    <2>3. \A x \in Entries : Stays(x)
      BY <1>8 DEF Stays, Same, vars
    <2> QED
      BY <1>8, <2>1, <2>2, <2>3, ServesNone DEF vars
  <1> QED
    BY <1>1, <1>2, <1>3, <1>4, <1>5, <1>6, <1>7, <1>8 DEF Next

(* The inits of a repository follow one another, an entry's connections and
   its queue are consistent with the queries that hold and await them, and a
   query under way is on an entry that was registered. *)
THEOREM PoolInvariant == Spec => []Inv
  BY InitInv, NextInv, PTL DEF Spec

(* Every variable of the pool keeps its type, whatever the order of the inits,
   closes and queries: in particular checkedOut stays between 0 and the number
   of connections (checkout, checkin). *)
THEOREM PoolTypes == Spec => []TypeOK
  <1>1. Inv => TypeOK
    BY DEF Inv
  <1> QED
    BY <1>1, PoolInvariant, PTL

(* The queries that run on an entry are as many as the connections it has
   given out: no two of them share one. *)
LEMMA HoldersCounted ==
  ASSUME Inv, NEW e \in Entries
  PROVE  /\ Held(e) = IF entry[e].stage = "ready"
                      THEN Conns \ (entry[e].available \cup entry[e].shut)
                      ELSE {}
         /\ Cardinality(Running(e)) = Cardinality(Held(e))
  <1>1. \A q \in Queries : QueryOK(q)
    BY DEF Inv
  <1>2. ConnsOK(e)
    BY DEF Inv
  <1>3. CASE entry[e].stage # "ready"
    <2>1. Running(e) = {}
      BY <1>1, <1>3 DEF Running, QueryOK
    <2> QED
      BY <1>3, <2>1 DEF Held
  <1>4. CASE entry[e].stage = "ready"
    <2>1. ASSUME NEW q \in Running(e)
          PROVE  q \in Queries /\ query[q].conn \in Conns \ (entry[e].available \cup entry[e].shut)
      BY <1>1 DEF Running, QueryOK
    <2>2. Held(e) = Conns \ (entry[e].available \cup entry[e].shut)
      BY <1>2, <1>4, <2>1 DEF Held, ConnsOK
    <2>3. IsFiniteSet(Held(e))
      BY <2>2, ConnsFinite
    <2> DEFINE f == [q \in Running(e) |-> query[q].conn]
    <2>4. f \in Bijection(Running(e), Held(e))
      <3>1. \A q, r \in Running(e) : query[q].conn = query[r].conn => q = r
        BY <1>1 DEF Running, QueryOK
      <3>2. f \in [Running(e) -> Held(e)]
        BY DEF Held
      <3>3. f \in Injection(Running(e), Held(e))
        BY <3>1, <3>2 DEF Injection, IsInjective
      <3>4. f \in Surjection(Running(e), Held(e))
        BY <3>2 DEF Surjection, Held
      <3> QED
        BY <3>3, <3>4 DEF Bijection
    <2>5. ExistsBijection(Held(e), Running(e))
      BY <2>4, Fun_ExistsBijSymmetric DEF ExistsBijection
    <2> QED
      BY <1>4, <2>2, <2>3, <2>5, FS_Bijection
  <1> QED
    BY <1>3, <1>4

LEMMA ConnsWithout ==
  ASSUME NEW S \in SUBSET Conns
  PROVE  /\ IsFiniteSet(S)
         /\ Cardinality(S) \in Nat
         /\ Cardinality(Conns \ S) = MaxConns - Cardinality(S)
  <1>1. IsFiniteSet(S) /\ IsFiniteSet(Conns) /\ Cardinality(S) \in Nat
    BY ConnsFinite
  <1>2. Cardinality(Conns \ S) = Cardinality(Conns) - Cardinality(Conns \cap S)
    BY <1>1, FS_Difference
  <1>3. Conns \cap S = S
    OBVIOUS
  <1> QED
    BY <1>1, <1>2, <1>3, ConnsFinite

(* No connection of an entry is lost, given twice or closed under a query, and
   an entry leaves the pool only by being closed (checkout, checkin, closeOne). *)
THEOREM ConnectionsKept == Spec => []ConnectionsAccounted
  <1>1. Inv => ConnectionsAccounted
    <2> SUFFICES ASSUME Inv, NEW e \in Entries, entry[e].stage \in {"load", "ready"}
                 PROVE  /\ entry[e].stage = "ready" => (entry[e].closed <=> e \notin Registered)
                        /\ entry[e].available \cup Held(e) \cup entry[e].shut = Conns
                        /\ Cardinality(entry[e].available) + Cardinality(Running(e))
                             + Cardinality(entry[e].shut) = MaxConns
      BY DEF ConnectionsAccounted
    <2>1. entry[e].stage = "ready" => (entry[e].closed <=> e \notin Registered)
      BY RegisteredReady DEF Registered, Inv, InitsOrdered
    <2>2. /\ entry[e].available \in SUBSET Conns
          /\ entry[e].shut \in SUBSET Conns
      BY EntryAt DEF Inv, EntryRecords
    <2>3. /\ entry[e].available \cap entry[e].shut = {}
          /\ entry[e].stage = "load" => entry[e].available = Conns /\ entry[e].shut = {}
      BY DEF Inv, ConnsOK, Untouched
    <2>4. Held(e) = Conns \ (entry[e].available \cup entry[e].shut)
      BY <2>3, HoldersCounted
    <2> DEFINE A == entry[e].available
               S == entry[e].shut
    <2> HIDE DEF A, S
    <2>5. Cardinality(A \cup S) = Cardinality(A) + Cardinality(S)
          /\ Cardinality(A) \in Nat /\ Cardinality(S) \in Nat
      <3>1. IsFiniteSet(A) /\ Cardinality(A) \in Nat /\ IsFiniteSet(S) /\ Cardinality(S) \in Nat
        BY <2>2, ConnsWithout DEF A, S
      <3>2. Cardinality(A \cup S) = Cardinality(A) + Cardinality(S) - Cardinality(A \cap S)
        BY <3>1, FS_Union
      <3>3. Cardinality(A \cap S) = 0
        BY <2>3, FS_EmptySet DEF A, S
      <3> QED
        BY <3>1, <3>2, <3>3
    <2>6. Cardinality(Conns \ (A \cup S)) = MaxConns - Cardinality(A \cup S)
      BY <2>2, ConnsWithout DEF A, S
    <2>7. Cardinality(Running(e)) = Cardinality(Conns \ (A \cup S))
      BY <2>4, HoldersCounted DEF A, S
    <2>8. Cardinality(A) + Cardinality(Running(e)) + Cardinality(S) = MaxConns
      BY <2>5, <2>6, <2>7, ConnsFinite
    <2> QED
      BY <2>1, <2>2, <2>4, <2>8 DEF A, S
  <1> QED
    BY <1>1, PoolInvariant, PTL

(* An open entry counts its holders right, and whoever waits on it waits for
   connections that are all with queries; its queue holds exactly the callers
   that wait (checkout, checkin, the waiter's timer). *)
THEOREM NobodyWaitsInVain == Spec => []NoWaitBesideFree
  <1>1. Inv => NoWaitBesideFree
    <2> SUFFICES ASSUME Inv, NEW e \in Entries, ~entry[e].closed
                 PROVE  /\ entry[e].checkedOut = Cardinality(Running(e))
                        /\ entry[e].waiters # <<>> => Cardinality(Running(e)) = MaxConns
                        /\ ToSet(entry[e].waiters) = {q \in Queries : query[q].pc = "waiting"
                                                                      /\ query[q].entry = e}
      BY DEF NoWaitBesideFree
    <2>1. ToSet(entry[e].waiters) = {q \in Queries : query[q].pc = "waiting" /\ query[q].entry = e}
      <3>1. ToSet(entry[e].waiters) = {y \in Queries : Occurs(y, entry[e].waiters)}
        BY QueueWas DEF ToSet, Occurs
      <3> QED
        BY <3>1, QueueWas DEF Waits
    <2>2. CASE entry[e].stage # "ready"
      <3>1. Held(e) = {} /\ entry[e].checkedOut = 0 /\ entry[e].waiters = <<>>
        BY <2>2, HoldersCounted DEF Inv, Untouched
      <3> QED
        BY <2>1, <3>1, HoldersCounted, FS_EmptySet
    <2>3. CASE entry[e].stage = "ready"
      <3> DEFINE A == entry[e].available
      <3>1. /\ A \in SUBSET Conns
            /\ entry[e].checkedOut \in Nat
        BY EntryAt DEF Inv, EntryRecords
      <3>2. /\ entry[e].shut = {}
            /\ entry[e].checkedOut + Cardinality(A) = MaxConns
            /\ entry[e].waiters # <<>> => A = {}
        BY <2>3 DEF Inv, ConnsOK
      <3>3. Held(e) = Conns \ A
        BY <2>3, <3>2, HoldersCounted
      <3>4. Cardinality(Conns \ A) = MaxConns - Cardinality(A)
        BY <3>1, ConnsWithout
      <3>5. Cardinality(Running(e)) = entry[e].checkedOut
        <4>1. Cardinality(Running(e)) = Cardinality(Conns \ A) /\ Cardinality(A) \in Nat
          BY <3>1, <3>3, HoldersCounted, ConnsWithout
        <4> HIDE DEF A
        <4> QED
          BY <3>1, <3>2, <3>4, <4>1, BoundAssumption
      <3>6. entry[e].waiters # <<>> => entry[e].checkedOut = MaxConns
        BY <3>1, <3>2, ConnsFinite, FS_EmptySet
      <3> QED
        BY <2>1, <3>5, <3>6
    <2> QED
      BY <2>2, <2>3
  <1> QED
    BY <1>1, PoolInvariant, PTL

-----------------------------------------------------------------------------
(* The entries as pools of permits: how a step of theirs is one of Permits. *)

StateOf(x) ==
  IF x \notin Entries \/ entry[x].stage # "ready" THEN "new"
  ELSE IF entry[x].closed THEN "shut" ELSE "open"
HoldersOf(x) == IF x \in Entries THEN Running(x) ELSE {}
QueueOf(x) == IF x \in Entries THEN entry[x].waiters ELSE <<>>

SameStates == \A x \in Ids : StateOf(x)' = StateOf(x)
SameHolders == \A x \in Ids : HoldersOf(x)' = HoldersOf(x)
SameQueues == \A x \in Ids : QueueOf(x)' = QueueOf(x)

EntryHolders == [x \in Ids |-> IF x \in Entries THEN Running(x) ELSE {}]
EntryQueues == [x \in Ids |-> IF x \in Entries THEN entry[x].waiters ELSE <<>>]

LEMMA SameOperators ==
  /\ \A S : EntryPermits!Cardinality(S) = Cardinality(S)
  /\ \A s : EntryPermits!ToSet(s) = ToSet(s)
  /\ \A s, i : EntryPermits!RemoveAt(s, i) = RemoveAt(s, i)
  <1>1. ASSUME NEW S PROVE EntryPermits!Cardinality(S) = Cardinality(S)
    BY DEF Cardinality, EntryPermits!Cardinality
  <1>2. ASSUME NEW s PROVE EntryPermits!ToSet(s) = ToSet(s)
    BY DEF ToSet, EntryPermits!ToSet
  <1>3. ASSUME NEW s, NEW i PROVE EntryPermits!RemoveAt(s, i) = RemoveAt(s, i)
    BY DEF RemoveAt, EntryPermits!RemoveAt
  <1> QED
    BY <1>1, <1>2, <1>3

LEMMA Permitted ==
  /\ \A x \in Ids : /\ EntryState[x] = StateOf(x)
                    /\ EntryHolders[x] = HoldersOf(x)
                    /\ EntryQueues[x] = QueueOf(x)
  /\ DOMAIN EntryState = Ids /\ DOMAIN EntryHolders = Ids /\ DOMAIN EntryQueues = Ids
  BY DEF EntryState, EntryHolders, EntryQueues, StateOf, HoldersOf, QueueOf

LEMMA PermittedNext ==
  /\ EntryState' = [x \in Ids |-> StateOf(x)']
  /\ EntryHolders' = [x \in Ids |-> HoldersOf(x)']
  /\ EntryQueues' = [x \in Ids |-> QueueOf(x)']
  BY DEF EntryState, EntryHolders, EntryQueues, StateOf, HoldersOf, QueueOf, Ids

LEMMA UnchangedParts ==
  /\ SameStates => EntryState' = EntryState
  /\ SameHolders => EntryHolders' = EntryHolders
  /\ SameQueues => EntryQueues' = EntryQueues
  <1>1. /\ EntryState = [x \in Ids |-> StateOf(x)]
        /\ EntryHolders = [x \in Ids |-> HoldersOf(x)]
        /\ EntryQueues = [x \in Ids |-> QueueOf(x)]
    BY DEF EntryState, EntryHolders, EntryQueues, StateOf, HoldersOf, QueueOf
  <1> QED
    BY <1>1, PermittedNext DEF SameStates, SameHolders, SameQueues

LEMMA StutterBy ==
  ASSUME SameStates, SameHolders, SameQueues
  PROVE  UNCHANGED EntryPermits!vars
  BY UnchangedParts DEF EntryPermits!vars, EntryHolders, EntryQueues

LEMMA OpenBy ==
  ASSUME NEW e \in Ids, StateOf(e) = "new", StateOf(e)' = "open",
         \A x \in Ids : x # e => StateOf(x)' = StateOf(x), SameHolders, SameQueues
  PROVE  EntryPermits!Open(e)
  <1>1. EntryState' = [EntryState EXCEPT ![e] = "open"]
    BY Permitted, PermittedNext
  <1> QED
    BY <1>1, Permitted, UnchangedParts DEF EntryPermits!Open, EntryHolders, EntryQueues

LEMMA ShutBy ==
  ASSUME NEW S \in SUBSET Ids, \A x \in S : StateOf(x) = "open",
         \A x \in Ids : StateOf(x)' = IF x \in S THEN "shut" ELSE StateOf(x),
         SameHolders, SameQueues
  PROVE  EntryPermits!Shut(S)
  <1>1. EntryState' = [x \in Ids |-> IF x \in S THEN "shut" ELSE EntryState[x]]
    BY Permitted, PermittedNext
  <1> QED
    BY <1>1, Permitted, UnchangedParts DEF EntryPermits!Shut, EntryHolders, EntryQueues

LEMMA AcquireBy ==
  ASSUME NEW e \in Ids, NEW q, StateOf(e) = "open",
         q \notin HoldersOf(e) \cup ToSet(QueueOf(e)), QueueOf(e) = <<>>,
         Cardinality(HoldersOf(e)) # MaxConns,
         \A x \in Ids : HoldersOf(x)' = IF x = e THEN HoldersOf(x) \cup {q} ELSE HoldersOf(x),
         SameStates, SameQueues
  PROVE  EntryPermits!Acquire(e, q)
  <1>1. EntryHolders' = [EntryHolders EXCEPT ![e] = @ \cup {q}]
    BY Permitted, PermittedNext
  <1> QED
    BY <1>1, SameOperators, Permitted, UnchangedParts
    DEF EntryPermits!Acquire, EntryPermits!Outside, EntryPermits!Full, EntryHolders, EntryQueues

LEMMA EnqueueBy ==
  ASSUME NEW e \in Ids, NEW q, StateOf(e) # "new",
         q \notin HoldersOf(e) \cup ToSet(QueueOf(e)),
         StateOf(e) = "open" => Cardinality(HoldersOf(e)) = MaxConns,
         \A x \in Ids : QueueOf(x)' = IF x = e THEN Append(QueueOf(x), q) ELSE QueueOf(x),
         SameStates, SameHolders
  PROVE  EntryPermits!Enqueue(e, q)
  <1>1. EntryQueues' = [EntryQueues EXCEPT ![e] = Append(@, q)]
    BY Permitted, PermittedNext
  <1> QED
    BY <1>1, SameOperators, Permitted, UnchangedParts
    DEF EntryPermits!Enqueue, EntryPermits!Outside, EntryPermits!Full, EntryHolders, EntryQueues

LEMMA HandOverBy ==
  ASSUME NEW e \in Ids, NEW q \in HoldersOf(e), StateOf(e) = "open", QueueOf(e) # <<>>,
         \A x \in Ids :
           /\ HoldersOf(x)' = IF x = e THEN (HoldersOf(x) \ {q}) \cup {Head(QueueOf(x))}
                              ELSE HoldersOf(x)
           /\ QueueOf(x)' = IF x = e THEN Tail(QueueOf(x)) ELSE QueueOf(x),
         SameStates
  PROVE  EntryPermits!HandOver(e, q)
  <1>1. EntryHolders' = [EntryHolders EXCEPT ![e] = (@ \ {q}) \cup {Head(EntryQueues[e])}]
    BY Permitted, PermittedNext
  <1>2. EntryQueues' = [EntryQueues EXCEPT ![e] = Tail(@)]
    BY Permitted, PermittedNext
  <1> QED
    BY <1>1, <1>2, Permitted, UnchangedParts DEF EntryPermits!HandOver, EntryHolders, EntryQueues

LEMMA HandInBy ==
  ASSUME NEW e \in Ids, NEW q \in HoldersOf(e), StateOf(e) = "open" => QueueOf(e) = <<>>,
         \A x \in Ids : HoldersOf(x)' = IF x = e THEN HoldersOf(x) \ {q} ELSE HoldersOf(x),
         SameStates, SameQueues
  PROVE  EntryPermits!HandIn(e, q)
  <1>1. EntryHolders' = [EntryHolders EXCEPT ![e] = @ \ {q}]
    BY Permitted, PermittedNext
  <1> QED
    BY <1>1, Permitted, UnchangedParts DEF EntryPermits!HandIn, EntryHolders, EntryQueues

LEMMA LosePatienceBy ==
  ASSUME NEW e \in Ids, NEW q, NEW i \in DOMAIN QueueOf(e), QueueOf(e)[i] = q,
         \A x \in Ids : QueueOf(x)' = IF x = e THEN RemoveAt(QueueOf(x), i) ELSE QueueOf(x),
         SameStates, SameHolders
  PROVE  EntryPermits!LosePatience(e, q)
  <1>1. EntryQueues' = [EntryQueues EXCEPT ![e] = RemoveAt(@, i)]
    BY Permitted, PermittedNext
  <1> QED
    BY <1>1, SameOperators, Permitted, UnchangedParts DEF EntryPermits!LosePatience, EntryHolders, EntryQueues

-----------------------------------------------------------------------------
LEMMA EntriesIds ==
  ASSUME Inv
  PROVE  Entries \subseteq Ids
  BY EntryCount DEF Inv

LEMMA LeavesShuts ==
  ASSUME Inv, NEW S \in SUBSET Registered, Leaves(S)
  PROVE  EntryPermits!Shut(S)
  <1>1. S \in SUBSET Ids /\ S \subseteq Entries
    BY RegisteredType, EntriesIds
  <1>2. \A x \in S : x \in Entries /\ entry[x].stage = "ready" /\ ~entry[x].closed
    BY RegisteredReady
  <1>3. \A x \in S : StateOf(x) = "open"
    BY <1>2 DEF StateOf
  <1>4. \A x \in Ids : StateOf(x)' = IF x \in S THEN "shut" ELSE StateOf(x)
    BY <1>1, <1>2 DEF StateOf, Leaves
  <1>5. SameHolders /\ SameQueues
    BY DEF SameHolders, SameQueues, HoldersOf, QueueOf, Running, Leaves
  <1> QED
    BY <1>1, <1>3, <1>4, <1>5, ShutBy

LEMMA InitStepPermitted ==
  ASSUME Inv, NEW e \in Entries, InitStep(e)
  PROVE  EntryPermits!Next
  <1>1. ASSUME NEW S \in SUBSET Registered, Leaves(S)
        PROVE  EntryPermits!Next
    <2>1. S \in SUBSET Ids /\ EntryPermits!Shut(S)
      BY <1>1, LeavesShuts, RegisteredType, EntriesIds
    <2> QED
      BY <2>1 DEF EntryPermits!Next
  <1>2. Evicted \in SUBSET Registered /\ {} \in SUBSET Registered
    BY EvictedType
  <1>3. CASE Register(e)
    <2>1. /\ query' = query /\ Entries' = Entries /\ e \in Ids
          /\ Registers(e) /\ \A x \in Entries : x # e => entry'[x] = entry[x]
      BY <1>3, RegisterInv, EntriesIds
    <2>2. ~entry[e].closed
      BY <1>3 DEF Inv, Untouched, Register
    <2>3. StateOf(e) = "new" /\ StateOf(e)' = "open"
      BY <2>1, <2>2 DEF StateOf, Registers, Same
    <2>4. \A x \in Ids : x # e => StateOf(x)' = StateOf(x)
      BY <2>1 DEF StateOf
    <2>5. SameHolders /\ SameQueues
      BY <2>1 DEF SameHolders, SameQueues, HoldersOf, QueueOf, Running, Registers, Same
    <2>6. EntryPermits!Open(e)
      BY <2>1, <2>3, <2>4, <2>5, OpenBy
    <2> QED
      BY <2>1, <2>6 DEF EntryPermits!Next
  <1>4. CASE StatFails(e) \/ RetryFails(e)
    BY <1>1, <1>2, <1>4, GiveUpInv DEF StatFails, RetryFails
  <1>5. CASE ShareDatabase(e) \/ OpenDatabase(e) \/ FindLocked(e) \/ OpenFails(e)
    BY <1>1, <1>2, <1>5, ShareInv, OpenInv, FindLockedInv, OpenFailsInv
  <1>6. CASE RetryOpens(e) \/ RetryLocked(e)
    BY <1>1, <1>2, <1>6, RetryInv
  <1> QED
    BY <1>3, <1>4, <1>5, <1>6 DEF InitStep

LEMMA ClosingPermitted ==
  ASSUME Inv, NEW S \in SUBSET Registered, CloseCgdb(S)
  PROVE  EntryPermits!Next
  <1>1. S \in SUBSET Ids /\ EntryPermits!Shut(S)
    BY CloseInv, LeavesShuts, RegisteredType, EntriesIds
  <1> QED
    BY <1>1 DEF EntryPermits!Next

LEMMA InitCgdbPermitted ==
  ASSUME Inv, NEW r \in Repos, InitCgdb(r)
  PROVE  UNCHANGED EntryPermits!vars
  <1>1. CASE entry' = entry /\ query' = query
    <2>1. SameStates /\ SameHolders /\ SameQueues
      BY <1>1 DEF SameStates, SameHolders, SameQueues, StateOf, HoldersOf, QueueOf, Entries, Running
    <2> QED
      BY <2>1, StutterBy
  <1>2. CASE entry' = Append(entry, NewEntry(r)) /\ query' = query
    <2>0. PICK n \in Nat : n = Len(entry) + 1
      BY EntryCount DEF Inv
    <2>1. /\ Len(entry') = n
          /\ Len(entry) \in Nat
          /\ \A x \in Entries : entry'[x] = entry[x]
          /\ entry'[n] = NewEntry(r)
      <3>1. NewEntry(r) \in EntryRecords
        BY BoundAssumption DEF NewEntry, EntryRecords, Stages
      <3> QED
        BY <1>2, <2>0, <3>1, AppendProperties, EntryCount DEF TypeOK, Entries, Inv
    <2>2. Entries' = Entries \cup {n} /\ n \notin Entries
      BY <2>0, <2>1 DEF Entries
    <2>3. entry'[n].stage = "stat" /\ entry'[n].waiters = <<>>
      BY <2>1 DEF NewEntry
    <2>4. \A q \in Queries : query[q].pc = "running" => query[q].entry # n
      BY <2>2 DEF Inv, QueryOK
    <2>5. SameStates
      BY <2>1, <2>2, <2>3 DEF SameStates, StateOf
    <2>6. SameHolders
      BY <1>2, <2>1, <2>2, <2>4 DEF SameHolders, HoldersOf, Running
    <2>7. SameQueues
      BY <2>1, <2>2, <2>3 DEF SameQueues, QueueOf
    <2> QED
      BY <2>5, <2>6, <2>7, StutterBy
  <1> QED
    BY <1>1, <1>2 DEF InitCgdb

(* The step of a query q on entry e: what a pool of permits sees of it. *)
LEMMA OneEntry ==
  ASSUME Entries' = Entries, NEW e \in Entries, \A x \in Entries : x # e => entry'[x] = entry[x],
         entry'[e].stage = entry[e].stage, entry'[e].closed = entry[e].closed
  PROVE  /\ SameStates
         /\ \A x \in Ids : x # e => QueueOf(x)' = QueueOf(x)
         /\ QueueOf(e)' = entry'[e].waiters
         /\ QueueOf(e) = entry[e].waiters
  BY DEF SameStates, StateOf, QueueOf

LEMMA OtherQueries ==
  ASSUME Entries' = Entries, NEW e \in Entries, NEW Q \in SUBSET Queries,
         \A r \in Queries \ Q : query'[r] = query[r],
         \A r \in Q : query[r].pc = "running" => query[r].entry = e,
         \A r \in Q : query'[r].pc = "running" => query'[r].entry = e
  PROVE  /\ \A x \in Ids : x # e => HoldersOf(x)' = HoldersOf(x)
         /\ HoldersOf(e)' = (Running(e) \ Q) \cup {r \in Q : query'[r].pc = "running"}
         /\ HoldersOf(e) = Running(e)
  <1>1. \A x \in Ids : x # e => HoldersOf(x)' = HoldersOf(x)
    BY DEF HoldersOf, Running
  <1> QED
    BY <1>1 DEF HoldersOf, Running

LEMMA OneQuery ==
  ASSUME Entries' = Entries, NEW e \in Entries, NEW q \in Queries,
         \A r \in Queries \ {q} : query'[r] = query[r],
         query[q].pc = "running" => query[q].entry = e,
         query'[q].pc # "running"
  PROVE  /\ \A x \in Ids : x # e => HoldersOf(x)' = HoldersOf(x)
         /\ HoldersOf(e)' = Running(e) \ {q}
         /\ HoldersOf(e) = Running(e)
  BY DEF HoldersOf, Running

(* Nobody holds a connection of an entry beyond what it has given out. *)
LEMMA HoldersOfEntry ==
  ASSUME Inv, NEW e \in Entries, entry[e].stage = "ready"
  PROVE  /\ ~entry[e].closed => Cardinality(Running(e)) = entry[e].checkedOut
         /\ Cardinality(Running(e)) \in Nat
         /\ entry[e].checkedOut \in Nat
         /\ Cardinality(entry[e].available) \in Nat
         /\ ~entry[e].closed => entry[e].checkedOut + Cardinality(entry[e].available) = MaxConns
         /\ entry[e].waiters # <<>> => entry[e].available = {}
         /\ entry[e].closed => entry[e].available = {}
  <1> DEFINE A == entry[e].available
  <1>1. /\ A \in SUBSET Conns
        /\ entry[e].checkedOut \in Nat
    BY EntryAt DEF Inv, EntryRecords
  <1>2. ConnsOK(e)
    BY DEF Inv
  <1>3. Held(e) = Conns \ (A \cup entry[e].shut) /\ Cardinality(Running(e)) = Cardinality(Held(e))
    BY HoldersCounted
  <1>4. Conns \ (A \cup entry[e].shut) \in SUBSET Conns
    OBVIOUS
  <1>5. Cardinality(Conns \ A) = MaxConns - Cardinality(A) /\ Cardinality(A) \in Nat
    BY <1>1, ConnsWithout
  <1>6. Cardinality(Running(e)) \in Nat
    BY <1>3, <1>4, ConnsFinite
  <1>7. ~entry[e].closed => Cardinality(Running(e)) = Cardinality(Conns \ A)
    <2>1. ~entry[e].closed => Conns \ (A \cup entry[e].shut) = Conns \ A
      BY <1>2 DEF ConnsOK
    <2> QED
      BY <1>3, <2>1
  <1>8. ~entry[e].closed => entry[e].checkedOut + Cardinality(A) = MaxConns
    BY <1>2 DEF ConnsOK
  <1>9. entry[e].waiters # <<>> => A = {}
    BY <1>2 DEF ConnsOK
  <1>10. entry[e].closed => A = {}
    BY <1>2 DEF ConnsOK
  <1> HIDE DEF A
  <1>11. ~entry[e].closed => Cardinality(Running(e)) = entry[e].checkedOut
    BY <1>1, <1>5, <1>7, <1>8, BoundAssumption
  <1> QED
    BY <1>1, <1>5, <1>6, <1>8, <1>9, <1>10, <1>11 DEF A

LEMMA CheckoutPermitted ==
  ASSUME Inv, Inv', NEW q \in Queries, NEW e \in Entries, NEW n, entry[e].stage = "ready",
         query[q].pc \in {"idle", "next"}, Entries' = Entries, Checkout(q, e, n)
  PROVE  EntryPermits!Next \/ UNCHANGED EntryPermits!vars
  <1>0. e \in Ids /\ q \notin Running(e) /\ ~Waits(q, e)
    BY EntriesIds DEF Running, Waits
  <1>1. entry[e] \in EntryRecords /\ entry \in [Entries -> EntryRecords]
        /\ query \in [Queries -> QueryRecords]
    BY EntryMap DEF Inv, TypeOK
  <1>2. \A r \in Queries \ {q} : query'[r] = query[r]
    BY <1>1 DEF Checkout
  <1>3. q \notin HoldersOf(e) \cup ToSet(QueueOf(e))
    <2>1. ~Occurs(q, entry[e].waiters)
      BY <1>0, QueueWas
    <2> QED
      BY <1>0, <2>1 DEF HoldersOf, QueueOf, ToSet, Occurs
  <1>4. StateOf(e) = IF entry[e].closed THEN "shut" ELSE "open"
    BY DEF StateOf
  <1>5. ASSUME NEW c \in entry[e].available,
               entry' = [entry EXCEPT ![e].available = @ \ {c},
                                      ![e].checkedOut = @ + 1],
               query' = [query EXCEPT ![q] =
                           [pc |-> "running", entry |-> e, conn |-> c, left |-> n]]
        PROVE  EntryPermits!Next
    <2>1. entry'[e] = [entry[e] EXCEPT !.available = @ \ {c}, !.checkedOut = @ + 1]
          /\ \A x \in Entries : x # e => entry'[x] = entry[x]
      BY <1>1, <1>5
    <2>2. /\ entry'[e].waiters = entry[e].waiters
          /\ entry'[e].stage = entry[e].stage
          /\ entry'[e].closed = entry[e].closed
      BY <1>1, <2>1 DEF EntryRecords
    <2>3. query'[q].pc = "running" /\ query'[q].entry = e
      BY <1>1, <1>5
    <2>4. SameStates /\ SameQueues
      BY <2>1, <2>2, OneEntry DEF SameQueues
    <2>5. \A x \in Ids : HoldersOf(x)' = IF x = e THEN HoldersOf(x) \cup {q} ELSE HoldersOf(x)
      <3>1. /\ \A x \in Ids : x # e => HoldersOf(x)' = HoldersOf(x)
            /\ HoldersOf(e)' = (Running(e) \ {q}) \cup {r \in {q} : query'[r].pc = "running"}
            /\ HoldersOf(e) = Running(e)
        BY <1>2, <2>3, OtherQueries
      <3>2. {r \in {q} : query'[r].pc = "running"} = {q}
        BY <2>3
      <3> QED
        BY <1>0, <3>1, <3>2
    <2>6. ~entry[e].closed /\ entry[e].waiters = <<>>
      BY <1>5, HoldersOfEntry
    <2>7. Cardinality(HoldersOf(e)) # MaxConns
      <3>1. entry[e].available \in SUBSET Conns /\ entry[e].available # {}
        BY <1>1, <1>5 DEF EntryRecords
      <3>2. Cardinality(entry[e].available) # 0
        BY <3>1, ConnsFinite
      <3> QED
        BY <2>6, <3>2, HoldersOfEntry DEF HoldersOf
    <2>8. StateOf(e) = "open" /\ QueueOf(e) = <<>>
      BY <1>4, <2>6 DEF QueueOf
    <2>9. EntryPermits!Acquire(e, q)
      BY <1>0, <1>3, <2>4, <2>5, <2>7, <2>8, AcquireBy
    <2> QED
      BY <1>0, <2>9 DEF EntryPermits!Next
  <1>6. ASSUME query' = [query EXCEPT ![q] = AfterError(e, n)], entry' = entry
        PROVE  UNCHANGED EntryPermits!vars
    <2>1. query'[q].pc \in {"idle", "next"}
      BY <1>1, <1>6, AfterErrorIs
    <2>2. SameHolders
      <3>1. \A r \in Queries : query'[r].pc = "running" <=> query[r].pc = "running"
        BY <1>2, <2>1
      <3>2. \A r \in Queries : query[r].pc = "running" => query'[r] = query[r]
        BY <1>2
      <3> QED
        BY <3>1, <3>2 DEF SameHolders, HoldersOf, Running
    <2>3. SameStates /\ SameQueues
      BY <1>6 DEF SameStates, SameQueues, StateOf, QueueOf
    <2> QED
      BY <2>2, <2>3, StutterBy
  <1>7. ASSUME entry[e].available = {}, Total(e) >= MaxConns,
               entry' = [entry EXCEPT ![e].waiters = Append(@, q)],
               query' = [query EXCEPT ![q] =
                           [pc |-> "waiting", entry |-> e, conn |-> 0, left |-> n]]
        PROVE  EntryPermits!Next
    <2>1. entry'[e] = [entry[e] EXCEPT !.waiters = Append(@, q)]
          /\ \A x \in Entries : x # e => entry'[x] = entry[x]
      BY <1>1, <1>7
    <2>2. /\ entry'[e].waiters = Append(entry[e].waiters, q)
          /\ entry'[e].stage = entry[e].stage
          /\ entry'[e].closed = entry[e].closed
      BY <1>1, <2>1 DEF EntryRecords
    <2>3. query'[q].pc = "waiting"
      BY <1>1, <1>7
    <2>4. /\ SameStates
          /\ \A x \in Ids : QueueOf(x)' = IF x = e THEN Append(QueueOf(x), q) ELSE QueueOf(x)
      BY <2>1, <2>2, OneEntry
    <2>5. SameHolders
      <3>1. /\ \A x \in Ids : x # e => HoldersOf(x)' = HoldersOf(x)
            /\ HoldersOf(e)' = Running(e) \ {q}
            /\ HoldersOf(e) = Running(e)
        BY <1>2, <2>3, OneQuery
      <3> QED
        BY <1>0, <3>1 DEF SameHolders
    <2>6. StateOf(e) = "open" => Cardinality(HoldersOf(e)) = MaxConns
      <3>1. Cardinality(entry[e].available) = 0
        BY <1>7, FS_EmptySet
      <3> QED
        BY <1>4, <3>1, HoldersOfEntry, BoundAssumption DEF HoldersOf
    <2>7. EntryPermits!Enqueue(e, q)
      BY <1>0, <1>3, <1>4, <2>4, <2>5, <2>6, EnqueueBy
    <2> QED
      BY <1>0, <2>7 DEF EntryPermits!Next
  <1> QED
    BY <1>5, <1>6, <1>7 DEF Checkout

LEMMA FinishPermitted ==
  ASSUME Inv, Inv', NEW q \in Queries, Finish(q), Entries' = Entries
  PROVE  EntryPermits!Next
  <1>1. PICK e, c : e = query[q].entry /\ c = query[q].conn
    OBVIOUS
  <1>2. query[q].pc = "running"
    BY DEF Finish
  <1>3. /\ e \in Entries
        /\ entry[e].stage = "ready"
        /\ entry[e] \in EntryRecords
        /\ entry \in [Entries -> EntryRecords]
        /\ query \in [Queries -> QueryRecords]
    BY <1>1, <1>2, FinishFacts
  <1>4. e \in Ids /\ q \in HoldersOf(e) /\ q \in Running(e)
    BY <1>1, <1>2, <1>3, EntriesIds DEF HoldersOf, Running
  <1>5. StateOf(e) = IF entry[e].closed THEN "shut" ELSE "open"
    BY <1>3 DEF StateOf
  <1>6. PICK after : after = [query EXCEPT ![q] = AfterError(e, query[q].left)]
    OBVIOUS
  <1>7. after[q].pc \in {"idle", "next"} /\ \A r \in Queries \ {q} : after[r] = query[r]
    BY <1>3, <1>6, AfterErrorIs
  <1>8. ASSUME query' = after
        PROVE  \A x \in Ids : HoldersOf(x)' = IF x = e THEN HoldersOf(x) \ {q} ELSE HoldersOf(x)
    BY <1>1, <1>3, <1>7, <1>8, OneQuery
  <1>9. CASE entry[e].closed /\ entry' = [entry EXCEPT ![e].shut = @ \cup {c}] /\ query' = after
    <2>1. entry'[e] = [entry[e] EXCEPT !.shut = @ \cup {c}]
          /\ \A x \in Entries : x # e => entry'[x] = entry[x]
      BY <1>3, <1>9
    <2>2. /\ entry'[e].waiters = entry[e].waiters
          /\ entry'[e].stage = entry[e].stage
          /\ entry'[e].closed = entry[e].closed
      BY <1>3, <2>1 DEF EntryRecords
    <2>3. SameStates /\ SameQueues
      BY <1>3, <2>1, <2>2, OneEntry DEF SameQueues
    <2>4. StateOf(e) = "shut"
      BY <1>5, <1>9
    <2>5. EntryPermits!HandIn(e, q)
      BY <1>4, <1>8, <1>9, <2>3, <2>4, HandInBy
    <2> QED
      BY <1>4, <2>5 DEF EntryPermits!Next
  <1>10. CASE /\ ~entry[e].closed
              /\ entry[e].waiters = <<>>
              /\ entry' = [entry EXCEPT ![e].checkedOut = @ - 1, ![e].available = @ \cup {c}]
              /\ query' = after
    <2>1. entry'[e] = [entry[e] EXCEPT !.checkedOut = @ - 1, !.available = @ \cup {c}]
          /\ \A x \in Entries : x # e => entry'[x] = entry[x]
      BY <1>3, <1>10
    <2>2. /\ entry'[e].waiters = entry[e].waiters
          /\ entry'[e].stage = entry[e].stage
          /\ entry'[e].closed = entry[e].closed
      BY <1>3, <2>1 DEF EntryRecords
    <2>3. SameStates /\ SameQueues
      BY <1>3, <2>1, <2>2, OneEntry DEF SameQueues
    <2>4. QueueOf(e) = <<>>
      BY <1>3, <1>10 DEF QueueOf
    <2>5. EntryPermits!HandIn(e, q)
      BY <1>4, <1>8, <1>10, <2>3, <2>4, HandInBy
    <2> QED
      BY <1>4, <2>5 DEF EntryPermits!Next
  <1>11. CASE /\ ~entry[e].closed
              /\ entry[e].waiters # <<>>
              /\ entry' = [entry EXCEPT ![e].waiters = Tail(@)]
              /\ query' = [after EXCEPT ![Head(entry[e].waiters)].pc = "running",
                                        ![Head(entry[e].waiters)].conn = c]
    <2>1. entry'[e] = [entry[e] EXCEPT !.waiters = Tail(@)]
          /\ \A x \in Entries : x # e => entry'[x] = entry[x]
      BY <1>3, <1>11
    <2>2. /\ entry'[e].waiters = Tail(entry[e].waiters)
          /\ entry'[e].stage = entry[e].stage
          /\ entry'[e].closed = entry[e].closed
      BY <1>3, <2>1 DEF EntryRecords
    <2>3. /\ SameStates
          /\ \A x \in Ids : QueueOf(x)' = IF x = e THEN Tail(QueueOf(x)) ELSE QueueOf(x)
          /\ QueueOf(e) = entry[e].waiters
      BY <1>3, <2>1, <2>2, OneEntry
    <2>4. PICK h : h = Head(entry[e].waiters)
      OBVIOUS
    <2>5. h \in Queries /\ Waits(h, e)
      <3>1. Occurs(Head(entry[e].waiters), entry[e].waiters)
        BY <1>3, <1>11, QueueWas, TailOnce
      <3> QED
        BY <1>3, <2>4, <3>1, QueueWas
    <2>6. h # q
      BY <1>2, <2>5 DEF Waits
    <2>7. after[h] = query[h] /\ query[h].entry = e /\ query[h] \in QueryRecords
      BY <1>3, <1>7, <2>5, <2>6 DEF Waits
    <2>8. query' = [after EXCEPT ![h].pc = "running", ![h].conn = c]
      BY <1>11, <2>4
    <2>9. after \in [Queries -> QueryRecords]
      <3>1. TypeOK /\ query[q].left \in 0..Labels
        BY <1>3 DEF Inv, QueryRecords
      <3> QED
        BY <1>3, <1>6, <3>1, AfterErrorType
    <2>10. query'[h] = [query[h] EXCEPT !.pc = "running", !.conn = c]
           /\ \A r \in Queries : r # h => query'[r] = after[r]
      BY <2>5, <2>7, <2>8, <2>9
    <2>11. query'[h].pc = "running" /\ query'[h].entry = e
      BY <2>7, <2>10 DEF QueryRecords
    <2>12. \A r \in Queries \ {q, h} : query'[r] = query[r]
      BY <1>7, <2>10
    <2>13. query'[q].pc \in {"idle", "next"}
      BY <1>7, <2>6, <2>10
    <2>14. \A x \in Ids : HoldersOf(x)' = IF x = e THEN (HoldersOf(x) \ {q}) \cup {h}
                                          ELSE HoldersOf(x)
      <3>1. ASSUME NEW x \in Ids, x # e
            PROVE  HoldersOf(x)' = HoldersOf(x)
        BY <1>1, <2>5, <2>11, <2>12, <2>13, <3>1 DEF HoldersOf, Running, Waits
      <3>2. HoldersOf(e)' = (Running(e) \ {q}) \cup {h}
        BY <1>3, <2>5, <2>6, <2>11, <2>12, <2>13 DEF HoldersOf, Running
      <3> QED
        BY <1>3, <3>1, <3>2 DEF HoldersOf
    <2>15. EntryPermits!HandOver(e, q)
      BY <1>4, <1>5, <1>11, <2>3, <2>4, <2>14, HandOverBy
    <2> QED
      BY <1>4, <2>15 DEF EntryPermits!Next
  <1> QED
    BY <1>1, <1>6, <1>9, <1>10, <1>11 DEF Finish

LEMMA TimeoutPermitted ==
  ASSUME Inv, NEW q \in Queries, WaiterTimeout(q), Entries' = Entries
  PROVE  EntryPermits!Next
  <1>1. PICK e : e = query[q].entry
    OBVIOUS
  <1>2. query[q].pc = "waiting" /\ query' = [query EXCEPT ![q] = AfterError(e, query[q].left)]
    BY <1>1 DEF WaiterTimeout
  <1>3. e \in Entries /\ e \in Ids
    BY <1>1, <1>2, EntriesIds DEF Inv, QueryOK
  <1>4. entry[e] \in EntryRecords /\ entry \in [Entries -> EntryRecords]
        /\ query \in [Queries -> QueryRecords]
    BY <1>3, EntryMap DEF Inv, TypeOK
  <1>5. PICK i \in DOMAIN entry[e].waiters :
           /\ entry[e].waiters[i] = q
           /\ entry' = [entry EXCEPT ![e].waiters = RemoveAt(@, i)]
    BY <1>1 DEF WaiterTimeout
  <1>6. entry'[e] = [entry[e] EXCEPT !.waiters = RemoveAt(@, i)]
        /\ \A x \in Entries : x # e => entry'[x] = entry[x]
    BY <1>3, <1>4, <1>5
  <1>7. /\ entry'[e].waiters = RemoveAt(entry[e].waiters, i)
        /\ entry'[e].stage = entry[e].stage
        /\ entry'[e].closed = entry[e].closed
    BY <1>4, <1>6 DEF EntryRecords
  <1>8. /\ SameStates
        /\ \A x \in Ids : QueueOf(x)' = IF x = e THEN RemoveAt(QueueOf(x), i) ELSE QueueOf(x)
        /\ QueueOf(e) = entry[e].waiters
    BY <1>3, <1>6, <1>7, OneEntry
  <1>9. query'[q].pc \in {"idle", "next"} /\ \A r \in Queries \ {q} : query'[r] = query[r]
    BY <1>2, <1>4, AfterErrorIs
  <1>10. SameHolders
    <2>1. q \notin Running(e)
      BY <1>2 DEF Running
    <2>2. /\ \A x \in Ids : x # e => HoldersOf(x)' = HoldersOf(x)
          /\ HoldersOf(e)' = Running(e) \ {q}
          /\ HoldersOf(e) = Running(e)
      BY <1>2, <1>3, <1>9, OneQuery
    <2> QED
      BY <2>1, <2>2 DEF SameHolders
  <1>11. EntryPermits!LosePatience(e, q)
    BY <1>3, <1>5, <1>8, <1>10, LosePatienceBy
  <1> QED
    BY <1>3, <1>11 DEF EntryPermits!Next

LEMMA StepPermitted ==
  ASSUME Inv, Inv', [Next]_vars
  PROVE  EntryPermits!Next \/ UNCHANGED EntryPermits!vars
  <1>1. CASE UNCHANGED vars
    <2>1. SameStates /\ SameHolders /\ SameQueues
      BY <1>1 DEF vars, SameStates, SameHolders, SameQueues, StateOf, HoldersOf, QueueOf,
                  Entries, Running
    <2> QED
      BY <2>1, StutterBy
  <1>2. ASSUME NEW r \in Repos, CloseOneRepo(r)
        PROVE  EntryPermits!Next
    <2>1. {pool[r]} \in SUBSET Registered
      BY <1>2, InitFacts DEF CloseOneRepo, Registered, Inv, InitsOrdered
    <2> QED
      BY <1>2, <2>1, ClosingPermitted DEF CloseOneRepo
  <1>3. CASE CloseEveryRepo
    BY <1>3, ClosingPermitted DEF CloseEveryRepo
  <1>4. CASE IdleTimer
    <2>1. PICK last \in Registered :
            CloseCgdb({e \in Registered : /\ e = last \/ <<e, last>> \in older
                                          /\ entry[e].checkedOut = 0})
      BY <1>4 DEF IdleTimer
    <2> QED
      BY <2>1, ClosingPermitted
  <1>5. ASSUME NEW q \in Queries, NextLabel(q)
        PROVE  EntryPermits!Next \/ UNCHANGED EntryPermits!vars
    <2>1. /\ query[q].entry \in Entries /\ entry[query[q].entry].stage = "ready"
          /\ query[q].pc = "next" /\ query[q].left - 1 \in 0..Labels
      BY <1>5, BoundAssumption DEF NextLabel, Inv, QueryOK, TypeOK, QueryRecords
    <2>2. entry' \in [Entries -> EntryRecords]
      BY <1>5, <2>1, CheckoutType DEF NextLabel
    <2>3. Entries' = Entries
      BY <2>2, LengthKept DEF Inv
    <2> QED
      BY <1>5, <2>1, <2>3, CheckoutPermitted DEF NextLabel
  <1>6. ASSUME NEW q \in Queries, NEW r \in Repos, Execute(q, r)
        PROVE  EntryPermits!Next \/ UNCHANGED EntryPermits!vars
    <2>1. pool[r] \in Entries /\ entry[pool[r]].stage = "ready" /\ query[q].pc = "idle"
      BY <1>6, InitFacts DEF Execute, Inv, InitsOrdered
    <2>2. PICK n \in (IF q \in Scanners THEN 0..(Labels - 1) ELSE {0}) : Checkout(q, pool[r], n)
      BY <1>6 DEF Execute
    <2>3. n \in 0..Labels
      BY BoundAssumption
    <2>4. entry' \in [Entries -> EntryRecords]
      BY <2>1, <2>2, <2>3, CheckoutType
    <2>5. Entries' = Entries
      BY <2>4, LengthKept DEF Inv
    <2> QED
      BY <2>1, <2>2, <2>5, CheckoutPermitted
  <1>7. ASSUME NEW q \in Queries, Finish(q) \/ WaiterTimeout(q)
        PROVE  EntryPermits!Next
    <2>1. Entries' = Entries
      BY <1>7, FinishType, WaiterTimeoutType
    <2> QED
      BY <1>7, <2>1, FinishPermitted, TimeoutPermitted
  <1> QED
    BY <1>1, <1>2, <1>3, <1>4, <1>5, <1>6, <1>7, InitCgdbPermitted, InitStepPermitted
    DEF Next, QueryStep

LEMMA InitPermitted == Init => EntryPermits!Init
  <1> SUFFICES ASSUME Init PROVE EntryPermits!Init
    OBVIOUS
  <1>1. Entries = {}
    BY DEF Init, Entries
  <1> QED
    BY <1>1 DEF EntryPermits!Init, EntryState

(* The entries of the pool keep the promise of Permits: connections go to
   callers in the order they came, to one at a time, to no more than there are,
   and a closed entry gives none (checkout, checkin, closeOne). *)
THEOREM EntriesArePermits == Spec => ImplementsPermits
  <1>1. Init => EntryPermits!Init
    BY InitPermitted
  <1>2. Inv /\ Inv' /\ [Next]_vars => [EntryPermits!Next]_(EntryPermits!vars)
    BY StepPermitted
  <1> QED
    BY <1>1, <1>2, PoolInvariant, PTL DEF Spec, ImplementsPermits, EntryPermits!Spec

-----------------------------------------------------------------------------
(* The databases that the entries share *)

(* Two repositories at one path that another process may lock could each open
   it after a delay, the second over the first (RetryOpens). *)
LockedPathsUnshared ==
  \A r, s \in Repos : r # s /\ PathOf[r] = PathOf[s] => PathOf[r] \notin Lockable

Shares(x) == entry[x].stage = "load" \/ x \in Registered

(* A database is open as long as it has users, is cached under the path of
   the entry that opened it, which is theirs, and counts them.  A path that an
   init waits to try again has none. *)
DatabasesOK ==
  /\ \A x \in Entries : Shares(x) => /\ entry[x].db \in opened
                                     /\ PathOfEntry(entry[x].db) = PathOfEntry(x)
  /\ \A d \in opened : /\ cache[PathOfEntry(d)] = d
                       /\ Users(d) # {}
                       /\ entry[d].stage \notin {"stat", "retry"}
  /\ \A p \in Paths : cache[p] # 0 => cache[p] \in opened /\ PathOfEntry(cache[p]) = p
  /\ \A d \in Ids : refs[d] = Cardinality(Users(d))
  /\ \A x \in Entries : entry[x].stage = "retry" => /\ PathOfEntry(x) \in Lockable
                                                    /\ cache[PathOfEntry(x)] = 0

LEMMA UsersShare ==
  ASSUME NEW d
  PROVE  Users(d) = {x \in Entries : entry[x].db = d /\ Shares(x)}
  BY DEF Users, Shares

LEMMA SharesIs ==
  ASSUME Inv, NEW x \in Entries
  PROVE  Shares(x) <=>
      entry[x].stage = "load" \/ (entry[x].stage = "ready" /\ ~entry[x].closed)
  BY RegisteredReady DEF Shares, Registered, Inv, InitsOrdered

SharesRule ==
  \A x \in Entries : Shares(x) <=>
      entry[x].stage = "load" \/ (entry[x].stage = "ready" /\ ~entry[x].closed)

LEMMA SharesNow == Inv => SharesRule
  <1> SUFFICES ASSUME Inv, NEW x \in Entries
               PROVE  Shares(x) <=>
      entry[x].stage = "load" \/ (entry[x].stage = "ready" /\ ~entry[x].closed)
    BY DEF SharesRule, Shares
  <1> QED
    BY SharesIs DEF Shares

LEMMA SharesNext ==
  ASSUME Inv', Entries' = Entries, NEW x \in Entries
  PROVE  Shares(x)' <=>
      entry'[x].stage = "load" \/ (entry'[x].stage = "ready" /\ ~entry'[x].closed)
  <1>1. Inv' => SharesRule'
    BY SharesNow, PTL
  <1> QED
    BY <1>1 DEF SharesRule, Shares

LEMMA PathType ==
  ASSUME Inv, NEW x \in Entries
  PROVE  PathOfEntry(x) \in Paths /\ entry[x].repo \in Repos
  BY EntryAt, PathAssumption DEF PathOfEntry, EntryRecords, Inv

(* A step that changes no database, no user and no retry. *)
LEMMA DatabasesUntouched ==
  ASSUME Inv, Inv', DatabasesOK, Entries' = Entries,
         UNCHANGED <<cache, refs, opened>>,
         \A x \in Entries :
           /\ entry'[x].db = entry[x].db
           /\ entry'[x].repo = entry[x].repo
           /\ Shares(x)' <=> Shares(x)
           /\ entry'[x].stage \in {"stat", "retry"} => entry'[x].stage = entry[x].stage
  PROVE  DatabasesOK'
  <1>1. \A x \in Entries : PathOfEntry(x)' = PathOfEntry(x)
    BY DEF PathOfEntry
  <1>2. \A d : Users(d)' = Users(d)
    BY UsersShare DEF Users, Shares
  <1>3. opened \subseteq Entries /\ \A p \in Paths : cache[p] # 0 => cache[p] \in Entries
    BY EntryCount DEF Inv, TypeOK, Entries
  <1>4. \A x \in Entries : Shares(x)' => /\ entry'[x].db \in opened'
                                         /\ PathOf[entry'[entry'[x].db].repo] = PathOf[entry'[x].repo]
    BY <1>3 DEF DatabasesOK, PathOfEntry
  <1>5. \A d \in opened' : /\ cache'[PathOf[entry'[d].repo]] = d
                           /\ Users(d)' # {}
                           /\ entry'[d].stage \notin {"stat", "retry"}
    BY <1>2, <1>3 DEF DatabasesOK, PathOfEntry
  <1>6. \A p \in Paths : cache'[p] # 0 => cache'[p] \in opened' /\ PathOf[entry'[cache'[p]].repo] = p
    BY <1>3 DEF DatabasesOK, PathOfEntry
  <1>7. \A d \in Ids : refs'[d] = Cardinality(Users(d)')
    BY <1>2 DEF DatabasesOK
  <1>8. \A x \in Entries : entry'[x].stage = "retry" =>
           PathOf[entry'[x].repo] \in Lockable /\ cache'[PathOf[entry'[x].repo]] = 0
    BY DEF DatabasesOK, PathOfEntry
  <1> QED
    BY <1>4, <1>5, <1>6, <1>7, <1>8 DEF DatabasesOK, PathOfEntry, Users, Ids

-----------------------------------------------------------------------------
(* Closing entries gives back exactly the references they have. *)

LEMMA GivenBackIs ==
  ASSUME Inv, DatabasesOK, NEW S \in SUBSET Registered, NEW p \in Paths
  PROVE  /\ cache[p] # 0 => GivenBack(S, p) = Cardinality(Users(cache[p]) \cap S)
         /\ cache[p] = 0 => GivenBack(S, p) = 0
  <1>1. ASSUME NEW e \in S, PathOfEntry(e) = p
        PROVE  cache[p] = entry[e].db /\ cache[p] # 0 /\ e \in Users(cache[p])
    <2>1. e \in Registered /\ e \in Entries
      BY RegisteredType
    <2>2. entry[e].db \in opened /\ PathOfEntry(entry[e].db) = p
      BY <1>1, <2>1 DEF DatabasesOK, Shares
    <2>3. cache[p] = entry[e].db /\ entry[e].db \in Entries
      BY <2>2 DEF DatabasesOK, Inv, TypeOK
    <2>4. entry[e].db # 0
      BY <2>3, EntryCount DEF Entries, Inv
    <2> QED
      BY <2>1, <2>3, <2>4 DEF Users
  <1>2. ASSUME cache[p] # 0
        PROVE  {e \in S : PathOfEntry(e) = p} = Users(cache[p]) \cap S
    <2>1. PathOfEntry(cache[p]) = p
      BY <1>2 DEF DatabasesOK
    <2>2. ASSUME NEW e \in Users(cache[p])
          PROVE  PathOfEntry(e) = p
      BY <2>1, <2>2 DEF DatabasesOK, Users, Shares
    <2> QED
      BY <1>1, <2>2
  <1>3. cache[p] = 0 => {e \in S : PathOfEntry(e) = p} = {}
    BY <1>1
  <1> QED
    BY <1>2, <1>3, FS_EmptySet DEF GivenBack

LEMMA UsersFinite ==
  ASSUME Inv, NEW d, NEW S
  PROVE  /\ IsFiniteSet(Users(d)) /\ IsFiniteSet(Users(d) \cap S) /\ IsFiniteSet(Users(d) \ S)
         /\ Cardinality(Users(d)) \in Nat
         /\ Cardinality(Users(d) \cap S) \in Nat
         /\ Cardinality(Users(d) \ S) \in Nat
         /\ Cardinality(Users(d) \ S) = Cardinality(Users(d)) - Cardinality(Users(d) \cap S)
         /\ Cardinality(Users(d) \ S) = 0 <=> Users(d) \ S = {}
         /\ Cardinality(Users(d) \cap S) = 0 <=> Users(d) \cap S = {}
  <1>1. Users(d) \in SUBSET Entries /\ Users(d) \cap S \in SUBSET Entries
        /\ Users(d) \ S \in SUBSET Entries
    BY DEF Users
  <1>2. TypeOK
    BY DEF Inv
  <1> QED
    BY <1>1, <1>2, EntriesFinite, FS_Difference, FS_EmptySet

LEMMA LastUserIs ==
  ASSUME Inv, DatabasesOK, NEW S \in SUBSET Registered, NEW p \in Paths
  PROVE  LastUser(S, p) <=> cache[p] # 0 /\ Users(cache[p]) \ S = {}
  <1>1. CASE cache[p] = 0
    BY <1>1 DEF LastUser
  <1>2. CASE cache[p] # 0
    <2>1. PICK d \in Ids : d = cache[p]
      BY <1>2, EntryCount DEF Inv, TypeOK, Entries
    <2>2. d \in opened /\ refs[d] = Cardinality(Users(d)) /\ Users(d) # {}
      BY <1>2, <2>1 DEF DatabasesOK
    <2>3. GivenBack(S, p) = Cardinality(Users(d) \cap S)
      BY <1>2, <2>1, GivenBackIs
    <2>4. LastUser(S, p) <=> /\ Cardinality(Users(d) \cap S) > 0
                             /\ Cardinality(Users(d)) <= Cardinality(Users(d) \cap S)
      BY <1>2, <2>1, <2>2, <2>3 DEF LastUser
    <2>5. /\ Cardinality(Users(d)) \in Nat
          /\ Cardinality(Users(d) \cap S) \in Nat
          /\ Cardinality(Users(d) \ S) \in Nat
          /\ Cardinality(Users(d) \ S) = Cardinality(Users(d)) - Cardinality(Users(d) \cap S)
          /\ Cardinality(Users(d) \ S) = 0 <=> Users(d) \ S = {}
          /\ Cardinality(Users(d) \cap S) = 0 <=> Users(d) \cap S = {}
      BY UsersFinite
    <2>6. Users(d) \ S = {} => Users(d) \cap S # {}
      BY <2>2
    <2> QED
      BY <1>2, <2>1, <2>4, <2>5, <2>6
  <1> QED
    BY <1>1, <1>2

LEMMA RefsWithoutIs ==
  ASSUME Inv, DatabasesOK, NEW S \in SUBSET Registered, NEW d \in Ids
  PROVE  RefsWithout(S)[d] = Cardinality(Users(d) \ S)
  <1> DEFINE given == {p \in Paths : cache[p] = d /\ GivenBack(S, p) > 0}
  <1>0. /\ RefsWithout(S)[d] =
             IF given = {} THEN refs[d]
             ELSE IF refs[d] > GivenBack(S, CHOOSE p \in given : TRUE)
                  THEN refs[d] - GivenBack(S, CHOOSE p \in given : TRUE) ELSE 0
        /\ refs[d] = Cardinality(Users(d))
        /\ d # 0
    BY EntryCount DEF RefsWithout, DatabasesOK, Inv, Ids
  <1>1. /\ Cardinality(Users(d)) \in Nat
        /\ Cardinality(Users(d) \cap S) \in Nat
        /\ Cardinality(Users(d) \ S) = Cardinality(Users(d)) - Cardinality(Users(d) \cap S)
        /\ Cardinality(Users(d) \ S) = 0 <=> Users(d) \ S = {}
        /\ Cardinality(Users(d) \cap S) = 0 <=> Users(d) \cap S = {}
        /\ Cardinality(Users(d) \ S) \in Nat
    BY UsersFinite
  <1>2. \A p \in given : GivenBack(S, p) = Cardinality(Users(d) \cap S)
    BY <1>0, GivenBackIs
  <1>3. CASE given = {}
    <2>1. Users(d) \cap S = {}
      <3> SUFFICES ASSUME NEW x \in Users(d), x \in S PROVE FALSE
        OBVIOUS
      <3>1. x \in Entries /\ Shares(x) /\ entry[x].db = d
        BY DEF Users, Shares
      <3>2. d \in opened /\ d \in Entries
        BY <3>1 DEF DatabasesOK, Inv, TypeOK
      <3>3. cache[PathOfEntry(d)] = d /\ PathOfEntry(d) \in Paths
        BY <3>2, PathType DEF DatabasesOK
      <3>4. GivenBack(S, PathOfEntry(d)) = Cardinality(Users(d) \cap S)
        BY <1>0, <3>3, GivenBackIs
      <3>5. ~(Cardinality(Users(d) \cap S) > 0)
        BY <1>3, <3>3, <3>4
      <3> QED
        BY <1>1, <3>5
    <2> QED
      BY <1>0, <1>1, <1>3, <2>1
  <1>4. CASE given # {}
    <2>1. (CHOOSE p \in given : TRUE) \in given
      BY <1>4
    <2>2. GivenBack(S, CHOOSE p \in given : TRUE) = Cardinality(Users(d) \cap S)
      BY <1>2, <2>1
    <2> HIDE DEF given
    <2> QED
      BY <1>0, <1>1, <1>4, <2>2
  <1> QED
    BY <1>3, <1>4

LEMMA CloseDatabases ==
  ASSUME Inv, DatabasesOK, NEW S \in SUBSET Registered
  PROVE  /\ \A d \in Ids : RefsWithout(S)[d] = Cardinality(Users(d) \ S)
         /\ \A d : d \in OpenedWithout(S) <=> d \in opened /\ Users(d) \ S # {}
         /\ \A p \in Paths : /\ CacheWithout(S)[p] # 0 => /\ CacheWithout(S)[p] = cache[p]
                                                          /\ cache[p] \in OpenedWithout(S)
                             /\ cache[p] \in OpenedWithout(S) => CacheWithout(S)[p] = cache[p]
  <1>1. \A p \in Paths : LastUser(S, p) <=> cache[p] # 0 /\ Users(cache[p]) \ S = {}
    BY LastUserIs
  <1>2. ASSUME NEW d
        PROVE  d \in OpenedWithout(S) <=> d \in opened /\ Users(d) \ S # {}
    <2>1. d \in OpenedWithout(S) <=> d \in opened /\ ~ \E p \in Paths : LastUser(S, p) /\ cache[p] = d
      BY DEF OpenedWithout
    <2>2. d \in opened => PathOfEntry(d) \in Paths /\ cache[PathOfEntry(d)] = d /\ d # 0
      BY PathType, EntryCount DEF DatabasesOK, Inv, TypeOK, Entries
    <2> QED
      BY <1>1, <2>1, <2>2
  <1>3. ASSUME NEW p \in Paths
        PROVE  CacheWithout(S)[p] = IF LastUser(S, p) THEN 0 ELSE cache[p]
    BY DEF CacheWithout
  <1>4. \A p \in Paths : cache[p] # 0 => cache[p] \in opened
    BY DEF DatabasesOK
  <1> QED
    BY <1>1, <1>2, <1>3, <1>4, RefsWithoutIs

-----------------------------------------------------------------------------
(* The three ways a step changes the databases: entries of S are closed, and
   perhaps entry e begins to use a database, a cached one or a new one. *)

NextUsers(d) == {x \in Entries : entry'[x].db = d /\ Shares(x)'}

LEMMA DatabasesParts ==
  ASSUME Entries' = Entries,
         \A x \in Entries : entry'[x].repo = entry[x].repo,
         opened' \subseteq Entries,
         \A p \in Paths : cache'[p] # 0 => cache'[p] \in opened',
         \A x \in Entries : Shares(x)' => /\ entry'[x].db \in opened'
                                          /\ PathOfEntry(entry'[x].db) = PathOfEntry(x),
         \A d \in opened' : /\ cache'[PathOfEntry(d)] = d
                            /\ \E x \in Entries : entry'[x].db = d /\ Shares(x)'
                            /\ entry'[d].stage \notin {"stat", "retry"},
         \A p \in Paths : cache'[p] # 0 => PathOfEntry(cache'[p]) = p,
         \A d \in Ids : refs'[d] = Cardinality(NextUsers(d)),
         \A x \in Entries : entry'[x].stage = "retry" => /\ PathOfEntry(x) \in Lockable
                                                         /\ cache'[PathOfEntry(x)] = 0
  PROVE  DatabasesOK'
  <1>1. \A d : Users(d)' = NextUsers(d)
    BY DEF Users, Shares, NextUsers
  <1>2. \A x \in Entries : PathOf[entry'[x].repo] = PathOfEntry(x)
    BY DEF PathOfEntry
  <1>3. \A x \in Entries : Shares(x)' => /\ entry'[x].db \in opened'
                                         /\ PathOf[entry'[entry'[x].db].repo] = PathOf[entry'[x].repo]
    BY <1>2
  <1>4. ASSUME NEW d \in opened'
        PROVE  /\ cache'[PathOf[entry'[d].repo]] = d
               /\ Users(d)' # {}
               /\ entry'[d].stage \notin {"stat", "retry"}
    <2>1. d \in Entries /\ cache'[PathOfEntry(d)] = d /\ entry'[d].stage \notin {"stat", "retry"}
      OBVIOUS
    <2>2. NextUsers(d) # {}
      BY DEF NextUsers
    <2> QED
      BY <1>1, <1>2, <2>1, <2>2
  <1>5. \A p \in Paths : cache'[p] # 0 => cache'[p] \in opened' /\ PathOf[entry'[cache'[p]].repo] = p
    BY <1>2
  <1>6. \A d \in Ids : refs'[d] = Cardinality(Users(d)')
    BY <1>1
  <1>7. \A x \in Entries : entry'[x].stage = "retry" =>
           PathOf[entry'[x].repo] \in Lockable /\ cache'[PathOf[entry'[x].repo]] = 0
    BY <1>2
  <1> QED
    BY <1>3, <1>4, <1>5, <1>6, <1>7 DEF DatabasesOK, PathOfEntry, Users, Ids

LEMMA ClosingOnly ==
  ASSUME Inv, DatabasesOK, NEW S \in SUBSET Registered, Entries' = Entries,
         cache' = CacheWithout(S), refs' = RefsWithout(S), opened' = OpenedWithout(S),
         \A x \in Entries :
           /\ entry'[x].repo = entry[x].repo
           /\ entry'[x].db = entry[x].db
           /\ Shares(x)' <=> Shares(x) /\ x \notin S
           /\ entry'[x].stage \in {"stat", "retry"} => entry[x].stage \in {"stat", "retry"}
           /\ entry'[x].stage = "retry" /\ entry[x].stage # "retry"
                => PathOfEntry(x) \in Lockable /\ CacheWithout(S)[PathOfEntry(x)] = 0
  PROVE  DatabasesOK'
  <1>1. \A d \in Ids : refs'[d] = Cardinality(Users(d) \ S)
    BY CloseDatabases
  <1>2. \A d : d \in opened' <=> d \in opened /\ Users(d) \ S # {}
    BY CloseDatabases
  <1>3. \A p \in Paths : /\ cache'[p] # 0 => cache'[p] = cache[p] /\ cache[p] \in opened'
                         /\ cache[p] \in opened' => cache'[p] = cache[p]
    BY CloseDatabases
  <1>4. \A d : NextUsers(d) = Users(d) \ S
    BY UsersShare DEF NextUsers
  <1>5. opened' \subseteq Entries
    BY <1>2 DEF Inv, TypeOK
  <1>6. \A x \in Entries : Shares(x)' => /\ entry'[x].db \in opened'
                                         /\ PathOfEntry(entry'[x].db) = PathOfEntry(x)
    BY <1>2, UsersShare DEF DatabasesOK
  <1>7. \A d \in opened' : /\ cache'[PathOfEntry(d)] = d
                           /\ \E x \in Entries : entry'[x].db = d /\ Shares(x)'
                           /\ entry'[d].stage \notin {"stat", "retry"}
    <2> SUFFICES ASSUME NEW d \in opened'
                 PROVE  /\ cache'[PathOfEntry(d)] = d
                        /\ \E x \in Entries : entry'[x].db = d /\ Shares(x)'
                        /\ entry'[d].stage \notin {"stat", "retry"}
      OBVIOUS
    <2>1. d \in opened /\ d \in Entries /\ Users(d) \ S # {}
      BY <1>2, <1>5
    <2>2. cache[PathOfEntry(d)] = d /\ entry[d].stage \notin {"stat", "retry"}
          /\ PathOfEntry(d) \in Paths
      BY <2>1, PathType DEF DatabasesOK
    <2> QED
      BY <1>3, <1>4, <2>1, <2>2 DEF NextUsers
  <1>8. \A p \in Paths : cache'[p] # 0 => PathOfEntry(cache'[p]) = p /\ cache'[p] \in opened'
    BY <1>3 DEF DatabasesOK
  <1>9. \A x \in Entries : entry'[x].stage = "retry" => /\ PathOfEntry(x) \in Lockable
                                                        /\ cache'[PathOfEntry(x)] = 0
    BY <1>3, PathType DEF DatabasesOK
  <1> QED
    BY <1>1, <1>4, <1>5, <1>6, <1>7, <1>8, <1>9, DatabasesParts

(* Entry e begins to use d. *)
Joins(S, e, d) ==
  \A x \in Entries :
    /\ entry'[x].repo = entry[x].repo
    /\ entry'[x].db = IF x = e THEN d ELSE entry[x].db
    /\ Shares(x)' <=> x = e \/ (Shares(x) /\ x \notin S)
    /\ entry'[x].stage \in {"stat", "retry"} => entry'[x].stage = entry[x].stage

LEMMA JoinedUsers ==
  ASSUME Inv, NEW S \in SUBSET Registered, NEW e \in Entries, ~Shares(e), NEW d \in Entries,
         Joins(S, e, d)
  PROVE  \A b \in Ids :
           /\ NextUsers(b)
                = (Users(b) \ S) \cup (IF b = d THEN {e} ELSE {})
           /\ Cardinality(NextUsers(b))
                = Cardinality(Users(b) \ S) + (IF b = d THEN 1 ELSE 0)
  <1> SUFFICES ASSUME NEW b \in Ids
               PROVE  /\ NextUsers(b)
                           = (Users(b) \ S) \cup (IF b = d THEN {e} ELSE {})
                      /\ Cardinality(NextUsers(b))
                           = Cardinality(Users(b) \ S) + (IF b = d THEN 1 ELSE 0)
    OBVIOUS
  <1>1. NextUsers(b)
          = (Users(b) \ S) \cup (IF b = d THEN {e} ELSE {})
    BY UsersShare DEF Joins, NextUsers
  <1>2. e \notin Users(b) \ S
    BY UsersShare
  <1>3. IsFiniteSet(Users(b) \ S) /\ Cardinality(Users(b) \ S) \in Nat
    BY UsersFinite
  <1>4. Cardinality((Users(b) \ S) \cup {e}) = Cardinality(Users(b) \ S) + 1
    BY <1>2, <1>3, FS_AddElement
  <1>5. CASE b = d
    BY <1>1, <1>4, <1>5
  <1>6. CASE b # d
    <2>1. NextUsers(b) = Users(b) \ S
      BY <1>1, <1>6
    <2> QED
      BY <1>1, <1>3, <1>6, <2>1
  <1> QED
    BY <1>5, <1>6

LEMMA SharesCached ==
  ASSUME Inv, DatabasesOK, NEW S \in SUBSET Registered, Entries' = Entries,
         NEW e \in Entries, ~Shares(e), NEW d, d = CacheWithout(S)[PathOfEntry(e)], d # 0,
         cache' = CacheWithout(S), opened' = OpenedWithout(S),
         refs' = [RefsWithout(S) EXCEPT ![d] = @ + 1],
         Joins(S, e, d), entry'[e].stage = "load"
  PROVE  DatabasesOK'
  <1>1. \A b \in Ids : RefsWithout(S)[b] = Cardinality(Users(b) \ S)
    BY CloseDatabases
  <1>2. \A b : b \in opened' <=> b \in opened /\ Users(b) \ S # {}
    BY CloseDatabases
  <1>3. \A p \in Paths : /\ cache'[p] # 0 => cache'[p] = cache[p] /\ cache[p] \in opened'
                         /\ cache[p] \in opened' => cache'[p] = cache[p]
    BY CloseDatabases
  <1>4. opened' \subseteq Entries /\ Entries \subseteq Ids
    BY <1>2, EntryCount DEF Inv, TypeOK
  <1>5. d = cache[PathOfEntry(e)] /\ d \in opened' /\ d \in Entries /\ PathOfEntry(d) = PathOfEntry(e)
        /\ d \in opened
    BY <1>2, <1>3, <1>4, PathType DEF DatabasesOK
  <1>6. \A b \in Ids :
           /\ NextUsers(b)
                = (Users(b) \ S) \cup (IF b = d THEN {e} ELSE {})
           /\ Cardinality(NextUsers(b))
                = Cardinality(Users(b) \ S) + (IF b = d THEN 1 ELSE 0)
    BY <1>5, JoinedUsers
  <1>7. \A b \in Ids : refs'[b] = Cardinality(NextUsers(b))
    <2>1. RefsWithout(S) \in [Ids -> Nat]
      BY WithoutTypes, RegisteredType DEF Inv
    <2> QED
      BY <1>1, <1>4, <1>5, <1>6, <2>1
  <1>8. \A x \in Entries : Shares(x)' => /\ entry'[x].db \in opened'
                                         /\ PathOfEntry(entry'[x].db) = PathOfEntry(x)
    <2> SUFFICES ASSUME NEW x \in Entries, Shares(x)'
                 PROVE  /\ entry'[x].db \in opened'
                        /\ PathOfEntry(entry'[x].db) = PathOfEntry(x)
      OBVIOUS
    <2>1. CASE x = e
      BY <1>5, <2>1 DEF Joins
    <2>2. CASE x # e
      BY <1>2, <2>2, UsersShare DEF DatabasesOK, Joins
    <2> QED
      BY <2>1, <2>2
  <1>9. \A b \in opened' : /\ cache'[PathOfEntry(b)] = b
                           /\ \E x \in Entries : entry'[x].db = b /\ Shares(x)'
                           /\ entry'[b].stage \notin {"stat", "retry"}
    <2> SUFFICES ASSUME NEW b \in opened'
                 PROVE  /\ cache'[PathOfEntry(b)] = b
                        /\ \E x \in Entries : entry'[x].db = b /\ Shares(x)'
                        /\ entry'[b].stage \notin {"stat", "retry"}
      OBVIOUS
    <2>1. b \in opened /\ b \in Entries /\ b \in Ids /\ Users(b) \ S # {}
      BY <1>2, <1>4
    <2>2. cache[PathOfEntry(b)] = b /\ entry[b].stage \notin {"stat", "retry"}
          /\ PathOfEntry(b) \in Paths
      BY <2>1, PathType DEF DatabasesOK
    <2>3. entry'[b].stage \notin {"stat", "retry"}
      BY <2>1, <2>2 DEF Joins
    <2>4. NextUsers(b) # {}
      BY <1>6, <2>1
    <2> QED
      BY <1>3, <2>1, <2>2, <2>3, <2>4 DEF NextUsers
  <1>10. \A p \in Paths : cache'[p] # 0 => PathOfEntry(cache'[p]) = p /\ cache'[p] \in opened'
    BY <1>3 DEF DatabasesOK
  <1>11. \A x \in Entries : entry'[x].stage = "retry" => /\ PathOfEntry(x) \in Lockable
                                                         /\ cache'[PathOfEntry(x)] = 0
    BY <1>3, PathType DEF DatabasesOK, Joins
  <1>12. \A x \in Entries : entry'[x].repo = entry[x].repo
    BY DEF Joins
  <1> QED
    BY <1>4, <1>7, <1>8, <1>9, <1>10, <1>11, <1>12, DatabasesParts

LEMMA OpensNew ==
  ASSUME Inv, DatabasesOK, LockedPathsUnshared, NEW S \in SUBSET Registered, Entries' = Entries,
         NEW e \in Entries, entry[e].stage \in {"stat", "retry"},
         CacheWithout(S)[PathOfEntry(e)] = 0,
         cache' = [CacheWithout(S) EXCEPT ![PathOfEntry(e)] = e],
         opened' = OpenedWithout(S) \cup {e},
         refs' = [RefsWithout(S) EXCEPT ![e] = 1],
         Joins(S, e, e), entry'[e].stage = "load"
  PROVE  DatabasesOK'
  <1>1. \A b \in Ids : RefsWithout(S)[b] = Cardinality(Users(b) \ S)
    BY CloseDatabases
  <1>2. \A b : b \in OpenedWithout(S) <=> b \in opened /\ Users(b) \ S # {}
    BY CloseDatabases
  <1>3. \A p \in Paths : /\ CacheWithout(S)[p] # 0 => /\ CacheWithout(S)[p] = cache[p]
                                                      /\ cache[p] \in OpenedWithout(S)
                         /\ cache[p] \in OpenedWithout(S) => CacheWithout(S)[p] = cache[p]
    BY CloseDatabases
  <1>4. OpenedWithout(S) \subseteq Entries /\ Entries \subseteq Ids /\ 0 \notin Entries
    <2>1. OpenedWithout(S) \subseteq Entries
      BY <1>2 DEF Inv, TypeOK
    <2>2. TypeOK
      BY DEF Inv
    <2> QED
      BY <2>1, <2>2, EntryCount, InitFacts
  <1>5. PathOfEntry(e) \in Paths /\ CacheWithout(S) \in [Paths -> 0..Len(entry)]
        /\ RefsWithout(S) \in [Ids -> Nat]
    BY PathType, WithoutTypes, RegisteredType DEF Inv
  <1>6. e \notin opened /\ ~Shares(e)
    BY SharesIs DEF DatabasesOK
  <1>7. Users(e) = {}
    BY <1>6, UsersShare DEF DatabasesOK
  <1>8. \A b \in Ids :
           /\ NextUsers(b)
                = (Users(b) \ S) \cup (IF b = e THEN {e} ELSE {})
           /\ Cardinality(NextUsers(b))
                = Cardinality(Users(b) \ S) + (IF b = e THEN 1 ELSE 0)
    BY <1>6, JoinedUsers
  <1>9. \A b \in Ids : refs'[b] = Cardinality(NextUsers(b))
    <2>1. Cardinality(Users(e) \ S) = 0
      BY <1>7, FS_EmptySet
    <2>2. \A b \in Ids : Cardinality(Users(b) \ S) \in Nat
      BY UsersFinite
    <2>3. \A b \in Ids : Cardinality(NextUsers(b)) = Cardinality(Users(b) \ S) + (IF b = e THEN 1 ELSE 0)
      BY <1>8
    <2>4. \A b \in Ids : refs'[b] = IF b = e THEN 1 ELSE RefsWithout(S)[b]
      BY <1>5
    <2> SUFFICES ASSUME NEW b \in Ids PROVE refs'[b] = Cardinality(NextUsers(b))
      OBVIOUS
    <2>5. CASE b = e
      <3>1. refs'[b] = 1
        BY <2>4, <2>5
      <3>2. Cardinality(NextUsers(b)) = Cardinality(Users(e) \ S) + 1
        BY <2>3, <2>5
      <3> QED
        BY <2>1, <3>1, <3>2
    <2>6. CASE b # e
      <3>1. refs'[b] = RefsWithout(S)[b] /\ RefsWithout(S)[b] = Cardinality(Users(b) \ S)
        BY <1>1, <2>4, <2>6
      <3>2. Cardinality(NextUsers(b)) = Cardinality(Users(b) \ S) + 0
        BY <2>3, <2>6
      <3> QED
        BY <2>2, <3>1, <3>2
    <2> QED
      BY <2>5, <2>6
  <1>10. \A p \in Paths : cache'[p] = IF p = PathOfEntry(e) THEN e ELSE CacheWithout(S)[p]
    BY <1>5
  <1>11. \A b \in OpenedWithout(S) : PathOfEntry(b) # PathOfEntry(e)
    BY <1>2, <1>3, <1>4, <1>5 DEF DatabasesOK
  <1>12. \A x \in Entries : Shares(x)' => /\ entry'[x].db \in opened'
                                          /\ PathOfEntry(entry'[x].db) = PathOfEntry(x)
    <2> SUFFICES ASSUME NEW x \in Entries, Shares(x)'
                 PROVE  /\ entry'[x].db \in opened'
                        /\ PathOfEntry(entry'[x].db) = PathOfEntry(x)
      OBVIOUS
    <2>1. CASE x = e
      BY <2>1 DEF Joins
    <2>2. CASE x # e
      BY <1>2, <2>2, UsersShare DEF DatabasesOK, Joins
    <2> QED
      BY <2>1, <2>2
  <1>13. \A b \in opened' : /\ cache'[PathOfEntry(b)] = b
                            /\ \E x \in Entries : entry'[x].db = b /\ Shares(x)'
                            /\ entry'[b].stage \notin {"stat", "retry"}
    <2> SUFFICES ASSUME NEW b \in opened'
                 PROVE  /\ cache'[PathOfEntry(b)] = b
                        /\ \E x \in Entries : entry'[x].db = b /\ Shares(x)'
                        /\ entry'[b].stage \notin {"stat", "retry"}
      OBVIOUS
    <2>1. CASE b = e
      BY <1>5, <1>10, <2>1 DEF Joins
    <2>2. CASE b \in OpenedWithout(S)
      <3>1. b \in opened /\ b \in Entries /\ b \in Ids /\ Users(b) \ S # {}
        BY <1>2, <1>4, <2>2
      <3>2. cache[PathOfEntry(b)] = b /\ entry[b].stage \notin {"stat", "retry"}
            /\ PathOfEntry(b) \in Paths
        BY <3>1, PathType DEF DatabasesOK
      <3>3. entry'[b].stage \notin {"stat", "retry"}
        BY <3>1, <3>2 DEF Joins
      <3>4. NextUsers(b) # {}
        BY <1>8, <3>1
      <3>5. cache'[PathOfEntry(b)] = b
        BY <1>3, <1>10, <1>11, <2>2, <3>2
      <3> QED
        BY <3>3, <3>4, <3>5 DEF NextUsers
    <2> QED
      BY <2>1, <2>2
  <1>14. \A p \in Paths : cache'[p] # 0 => PathOfEntry(cache'[p]) = p /\ cache'[p] \in opened'
    BY <1>3, <1>10 DEF DatabasesOK
  <1>15. \A x \in Entries : entry'[x].stage = "retry" => /\ PathOfEntry(x) \in Lockable
                                                         /\ cache'[PathOfEntry(x)] = 0
    <2> SUFFICES ASSUME NEW x \in Entries, entry'[x].stage = "retry"
                 PROVE  PathOfEntry(x) \in Lockable /\ cache'[PathOfEntry(x)] = 0
      OBVIOUS
    <2>1. x # e /\ entry[x].stage = "retry"
      BY DEF Joins
    <2>2. PathOfEntry(x) \in Lockable /\ cache[PathOfEntry(x)] = 0 /\ PathOfEntry(x) \in Paths
      BY <2>1, PathType DEF DatabasesOK
    <2>3. entry[x].repo # entry[e].repo
      BY <2>1 DEF Inv, InitsOrdered, Opening
    <2>4. PathOfEntry(x) # PathOfEntry(e)
      BY <2>2, <2>3, PathType DEF LockedPathsUnshared, PathOfEntry
    <2> QED
      BY <1>3, <1>10, <2>2, <2>4
  <1>16. opened' \subseteq Entries /\ \A x \in Entries : entry'[x].repo = entry[x].repo
    BY <1>4 DEF Joins
  <1> QED
    BY <1>9, <1>12, <1>13, <1>14, <1>15, <1>16, DatabasesParts
-----------------------------------------------------------------------------
(* The actions. *)

LEMMA CloseCgdbDatabases ==
  ASSUME Inv, Inv', DatabasesOK, NEW S \in SUBSET Registered, CloseCgdb(S)
  PROVE  DatabasesOK'
  <1>1. Entries' = Entries
    BY RegisteredType, WithoutEntry DEF CloseCgdb, CloseAll, Entries, Inv
  <1>2. ASSUME NEW x \in Entries
        PROVE  /\ entry'[x].repo = entry[x].repo
               /\ entry'[x].db = entry[x].db
               /\ entry'[x].stage = entry[x].stage
               /\ entry'[x].closed <=> entry[x].closed \/ x \in S
    BY LeftBy DEF CloseCgdb, CloseAll
  <1>3. ASSUME NEW x \in Entries
        PROVE  Shares(x)' <=> Shares(x) /\ x \notin S
    BY <1>1, <1>2, SharesNext, SharesIs, RegisteredReady DEF Shares
  <1>4. cache' = CacheWithout(S) /\ refs' = RefsWithout(S) /\ opened' = OpenedWithout(S)
    BY DEF CloseCgdb, CloseAll
  <1> QED
    BY <1>1, <1>2, <1>3, <1>4, ClosingOnly

LEMMA FindLockedDatabases ==
  ASSUME Inv, Inv', DatabasesOK, NEW e \in Entries, FindLocked(e)
  PROVE  DatabasesOK'
  <1> DEFINE S == Evicted
  <1>0. S \in SUBSET Registered
    BY EvictedType
  <1> HIDE DEF S
  <1>1. EntryWithout(S) \in [Entries -> EntryRecords]
        /\ entry' = [EntryWithout(S) EXCEPT ![e].stage = "retry", ![e].attempt = 2]
    BY <1>0, WithoutMap, RegisteredType DEF FindLocked, Inv, S
  <1>2. Len(entry') = Len(entry)
    <2>1. Len(EntryWithout(S)) = Len(entry) /\ EntryWithout(S) \in Seq(EntryRecords)
      BY <1>0, WithoutEntry, RegisteredType DEF Inv
    <2> QED
      BY <1>1, <2>1
  <1>3. Entries' = Entries
    BY <1>2 DEF Entries
  <1>4. e \notin S /\ entry[e].stage = "stat" /\ EntryWithout(S)[e] = entry[e]
        /\ entry[e] \in EntryRecords
    BY <1>0, RegisteredReady, EntryAt DEF FindLocked, EntryWithout, Inv
  <1>5. entry'[e] = [entry[e] EXCEPT !.stage = "retry", !.attempt = 2]
    BY <1>1, <1>4
  <1>6. /\ entry'[e].stage = "retry"
        /\ entry'[e].repo = entry[e].repo
        /\ entry'[e].db = entry[e].db
        /\ entry'[e].closed = entry[e].closed
    BY <1>4, <1>5 DEF EntryRecords
  <1>7. ASSUME NEW x \in Entries, x # e
        PROVE  /\ entry'[x].repo = entry[x].repo
               /\ entry'[x].db = entry[x].db
               /\ entry'[x].stage = entry[x].stage
               /\ entry'[x].closed <=> entry[x].closed \/ x \in S
    <2>1. entry'[x] = EntryWithout(S)[x]
      BY <1>1, <1>7
    <2> QED
      BY <1>0, <2>1, LeftBy
  <1>8. ASSUME NEW x \in Entries
        PROVE  Shares(x)' <=> Shares(x) /\ x \notin S
    <2>1. CASE x = e
      BY <1>3, <1>4, <1>6, <2>1, SharesNext, SharesIs DEF Shares
    <2>2. CASE x # e
      <3>1. x \in S => entry[x].stage = "ready"
        BY <1>0, RegisteredReady
      <3> QED
        BY <1>3, <1>7, <2>2, <3>1, SharesNext, SharesIs DEF Shares
    <2> QED
      BY <2>1, <2>2
  <1>9. /\ cache' = CacheWithout(S) /\ refs' = RefsWithout(S) /\ opened' = OpenedWithout(S)
        /\ PathOfEntry(e) \in Lockable /\ CacheWithout(S)[PathOfEntry(e)] = 0
    BY DEF FindLocked, S
  <1>10. ASSUME NEW x \in Entries
         PROVE  /\ entry'[x].repo = entry[x].repo
                /\ entry'[x].db = entry[x].db
                /\ entry'[x].stage \in {"stat", "retry"} => entry[x].stage \in {"stat", "retry"}
                /\ entry'[x].stage = "retry" /\ entry[x].stage # "retry"
                     => PathOfEntry(x) \in Lockable /\ CacheWithout(S)[PathOfEntry(x)] = 0
    BY <1>4, <1>6, <1>7, <1>9
  <1> QED
    BY <1>0, <1>3, <1>8, <1>9, <1>10, ClosingOnly

LEMMA OpenFailsDatabases ==
  ASSUME Inv, Inv', DatabasesOK, NEW e \in Entries, OpenFails(e)
  PROVE  DatabasesOK'
  <1> DEFINE S == Evicted
  <1>0. S \in SUBSET Registered
    BY EvictedType
  <1> HIDE DEF S
  <1>1. EntryWithout(S) \in [Entries -> EntryRecords]
        /\ entry' = [EntryWithout(S) EXCEPT ![e].stage = "failed"]
    BY <1>0, WithoutMap, RegisteredType DEF OpenFails, Inv, S
  <1>2. Len(entry') = Len(entry)
    <2>1. Len(EntryWithout(S)) = Len(entry) /\ EntryWithout(S) \in Seq(EntryRecords)
      BY <1>0, WithoutEntry, RegisteredType DEF Inv
    <2> QED
      BY <1>1, <2>1
  <1>3. Entries' = Entries
    BY <1>2 DEF Entries
  <1>4. e \notin S /\ entry[e].stage = "stat" /\ EntryWithout(S)[e] = entry[e]
        /\ entry[e] \in EntryRecords
    BY <1>0, RegisteredReady, EntryAt DEF OpenFails, EntryWithout, Inv
  <1>5. entry'[e] = [entry[e] EXCEPT !.stage = "failed"]
    BY <1>1, <1>4
  <1>6. /\ entry'[e].stage = "failed"
        /\ entry'[e].repo = entry[e].repo
        /\ entry'[e].db = entry[e].db
        /\ entry'[e].closed = entry[e].closed
    BY <1>4, <1>5 DEF EntryRecords
  <1>7. ASSUME NEW x \in Entries, x # e
        PROVE  /\ entry'[x].repo = entry[x].repo
               /\ entry'[x].db = entry[x].db
               /\ entry'[x].stage = entry[x].stage
               /\ entry'[x].closed <=> entry[x].closed \/ x \in S
    <2>1. entry'[x] = EntryWithout(S)[x]
      BY <1>1, <1>7
    <2> QED
      BY <1>0, <2>1, LeftBy
  <1>8. ASSUME NEW x \in Entries
        PROVE  Shares(x)' <=> Shares(x) /\ x \notin S
    <2>1. CASE x = e
      BY <1>3, <1>4, <1>6, <2>1, SharesNext, SharesIs DEF Shares
    <2>2. CASE x # e
      <3>1. x \in S => entry[x].stage = "ready"
        BY <1>0, RegisteredReady
      <3> QED
        BY <1>3, <1>7, <2>2, <3>1, SharesNext, SharesIs DEF Shares
    <2> QED
      BY <2>1, <2>2
  <1>9. cache' = CacheWithout(S) /\ refs' = RefsWithout(S) /\ opened' = OpenedWithout(S)
    BY DEF OpenFails, S
  <1>10. ASSUME NEW x \in Entries
         PROVE  /\ entry'[x].repo = entry[x].repo
                /\ entry'[x].db = entry[x].db
                /\ entry'[x].stage \in {"stat", "retry"} => entry[x].stage \in {"stat", "retry"}
                /\ entry'[x].stage = "retry" /\ entry[x].stage # "retry"
                     => PathOfEntry(x) \in Lockable /\ CacheWithout(S)[PathOfEntry(x)] = 0
    BY <1>4, <1>6, <1>7
  <1> QED
    BY <1>0, <1>3, <1>8, <1>9, <1>10, ClosingOnly

(* What Connected and a closing before it make of the users. *)
LEMMA ConnectJoins ==
  ASSUME Inv, Inv', NEW S \in SUBSET Registered, NEW e \in Entries, NEW d \in Entries,
         entry[e].stage = "stat" \/ (entry[e].stage = "retry" /\ S = {}),
         entry' = Connected(EntryWithout(S), e, d)
  PROVE  /\ Entries' = Entries
         /\ Joins(S, e, d)
         /\ entry'[e].stage = "load"
         /\ ~Shares(e)
  <1>1. EntryWithout(S) \in [Entries -> EntryRecords]
    BY WithoutMap, RegisteredType DEF Inv
  <1>2. Len(entry') = Len(entry)
    <2>1. Len(EntryWithout(S)) = Len(entry) /\ EntryWithout(S) \in Seq(EntryRecords)
      BY WithoutEntry, RegisteredType DEF Inv
    <2> QED
      BY <1>1, <2>1 DEF Connected
  <1>3. Entries' = Entries
    BY <1>2 DEF Entries
  <1>4. e \notin S /\ EntryWithout(S)[e] = entry[e] /\ entry[e] \in EntryRecords
    BY RegisteredReady, EntryAt DEF EntryWithout, Inv
  <1>5. entry'[e] = [entry[e] EXCEPT !.stage = "load", !.db = d, !.available = Conns]
    BY <1>1, <1>4 DEF Connected
  <1>6. /\ entry'[e].stage = "load"
        /\ entry'[e].repo = entry[e].repo
        /\ entry'[e].db = d
    BY <1>4, <1>5 DEF EntryRecords
  <1>7. ASSUME NEW x \in Entries, x # e
        PROVE  /\ entry'[x].repo = entry[x].repo
               /\ entry'[x].db = entry[x].db
               /\ entry'[x].stage = entry[x].stage
               /\ entry'[x].closed <=> entry[x].closed \/ x \in S
    <2>1. entry'[x] = EntryWithout(S)[x]
      BY <1>1, <1>7 DEF Connected
    <2> QED
      BY <2>1, LeftBy
  <1>8. ASSUME NEW x \in Entries
        PROVE  Shares(x)' <=> x = e \/ (Shares(x) /\ x \notin S)
    <2>1. CASE x = e
      BY <1>3, <1>6, <2>1, SharesNext DEF Shares
    <2>2. CASE x # e
      <3>1. x \in S => entry[x].stage = "ready"
        BY RegisteredReady
      <3> QED
        BY <1>3, <1>7, <2>2, <3>1, SharesNext, SharesIs DEF Shares
    <2> QED
      BY <2>1, <2>2
  <1>9. ~Shares(e)
    BY SharesIs
  <1> QED
    BY <1>3, <1>6, <1>7, <1>8, <1>9 DEF Joins

LEMMA ShareDatabases ==
  ASSUME Inv, Inv', DatabasesOK, NEW e \in Entries, ShareDatabase(e)
  PROVE  DatabasesOK'
  <1>1. PICK d : d = CacheWithout(Evicted)[PathOfEntry(e)]
    OBVIOUS
  <1>2. /\ entry[e].stage = "stat" /\ d # 0
        /\ entry' = Connected(EntryWithout(Evicted), e, d)
        /\ refs' = [RefsWithout(Evicted) EXCEPT ![d] = @ + 1]
        /\ cache' = CacheWithout(Evicted)
        /\ opened' = OpenedWithout(Evicted)
    BY <1>1 DEF ShareDatabase
  <1>3. d \in Entries
    BY <1>1, <1>2, PathType, WithoutTypes, EvictedEntries, EntryCount DEF Inv, Entries
  <1>4. Entries' = Entries /\ Joins(Evicted, e, d) /\ entry'[e].stage = "load" /\ ~Shares(e)
    BY <1>2, <1>3, ConnectJoins, EvictedType
  <1> QED
    BY <1>1, <1>2, <1>4, SharesCached, EvictedType

LEMMA OpenDatabases ==
  ASSUME Inv, Inv', DatabasesOK, LockedPathsUnshared, NEW e \in Entries, OpenDatabase(e)
  PROVE  DatabasesOK'
  <1>2. /\ entry[e].stage = "stat" /\ CacheWithout(Evicted)[PathOfEntry(e)] = 0
        /\ entry' = Connected(EntryWithout(Evicted), e, e)
        /\ refs' = [RefsWithout(Evicted) EXCEPT ![e] = 1]
        /\ cache' = [CacheWithout(Evicted) EXCEPT ![PathOfEntry(e)] = e]
        /\ opened' = OpenedWithout(Evicted) \cup {e}
    BY DEF OpenDatabase
  <1>4. Entries' = Entries /\ Joins(Evicted, e, e) /\ entry'[e].stage = "load"
    BY <1>2, ConnectJoins, EvictedType
  <1> QED
    BY <1>2, <1>4, OpensNew, EvictedType

LEMMA WithoutNone ==
  ASSUME Inv
  PROVE  /\ EntryWithout({}) = entry
         /\ CacheWithout({}) = cache
         /\ RefsWithout({}) = refs
         /\ OpenedWithout({}) = opened
  <1>1. \A p : GivenBack({}, p) = 0
    BY FS_EmptySet DEF GivenBack
  <1>2. \A p : ~LastUser({}, p)
    BY <1>1 DEF LastUser
  <1>3. EntryWithout({}) = entry
    BY EntryMap DEF EntryWithout, Inv
  <1>4. CacheWithout({}) = cache
    BY <1>2 DEF CacheWithout, Inv, TypeOK
  <1>5. RefsWithout({}) = refs
    BY <1>1 DEF RefsWithout, Inv, TypeOK
  <1>6. OpenedWithout({}) = opened
    BY <1>2 DEF OpenedWithout
  <1> QED
    BY <1>3, <1>4, <1>5, <1>6

LEMMA RetryOpensDatabases ==
  ASSUME Inv, Inv', DatabasesOK, LockedPathsUnshared, NEW e \in Entries, RetryOpens(e)
  PROVE  DatabasesOK'
  <1>1. {} \in SUBSET Registered
    OBVIOUS
  <1>2. /\ entry[e].stage = "retry"
        /\ entry' = Connected(EntryWithout({}), e, e)
        /\ refs' = [RefsWithout({}) EXCEPT ![e] = 1]
        /\ cache' = [CacheWithout({}) EXCEPT ![PathOfEntry(e)] = e]
        /\ opened' = OpenedWithout({}) \cup {e}
    BY WithoutNone DEF RetryOpens
  <1>3. CacheWithout({})[PathOfEntry(e)] = 0
    BY <1>2, WithoutNone DEF DatabasesOK
  <1>4. Entries' = Entries /\ Joins({}, e, e) /\ entry'[e].stage = "load"
    BY <1>1, <1>2, ConnectJoins
  <1> QED
    BY <1>1, <1>2, <1>3, <1>4, OpensNew

LEMMA InitCgdbDatabases ==
  ASSUME Inv, Inv', DatabasesOK, NEW r \in Repos, InitCgdb(r)
  PROVE  DatabasesOK'
  <1>1. CASE UNCHANGED <<pool, pending, entry, cache, refs, opened, query>>
    <2>1. Entries' = Entries
      BY <1>1 DEF Entries
    <2>2. \A x \in Entries : Shares(x)' <=> Shares(x)
      BY <1>1, <2>1, SharesNext, SharesIs DEF Shares
    <2> QED
      BY <1>1, <2>1, <2>2, DatabasesUntouched
  <1>2. CASE /\ Len(entry) < MaxEntries
             /\ entry' = Append(entry, NewEntry(r))
             /\ UNCHANGED <<pool, older, cache, refs, opened, query>>
    <2>0. PICK n \in Nat : n = Len(entry) + 1
      BY EntryCount DEF Inv
    <2>1. /\ Len(entry') = n
          /\ Len(entry) \in Nat
          /\ \A x \in Entries : entry'[x] = entry[x]
          /\ entry'[n] = NewEntry(r)
      <3>1. NewEntry(r) \in EntryRecords
        BY BoundAssumption DEF NewEntry, EntryRecords, Stages
      <3>2. TypeOK
        BY DEF Inv
      <3> QED
        BY <1>2, <2>0, <3>1, <3>2, AppendProperties, EntryCount DEF TypeOK, Entries
    <2>2. Entries' = Entries \cup {n} /\ n \notin Entries /\ n # 0
      BY <2>0, <2>1 DEF Entries
    <2>3. entry'[n].stage = "stat" /\ entry'[n].repo = r
      BY <2>1 DEF NewEntry
    <2>4. ~Shares(n)'
      <3>1. pool'[r] # n
        BY <1>2, <2>2, InitFacts
      <3> QED
        BY <2>3, <3>1 DEF Shares, Registered
    <2>5. \A x \in Entries : Shares(x)' <=> Shares(x)
      BY <1>2, <2>1, <2>2 DEF Shares, Registered
    <2>6. \A d : Users(d)' = Users(d)
      BY <2>1, <2>2, <2>4, <2>5, UsersShare DEF Users, Shares
    <2>7. \A x \in Entries : PathOf[entry'[x].repo] = PathOfEntry(x)
      BY <2>1 DEF PathOfEntry
    <2>8. opened \subseteq Entries /\ \A p \in Paths : cache[p] # 0 => cache[p] \in opened
      BY DEF DatabasesOK, Inv, TypeOK
    <2>9. \A x \in Entries' : Shares(x)' => /\ entry'[x].db \in opened'
                                            /\ PathOf[entry'[entry'[x].db].repo] = PathOf[entry'[x].repo]
      <3> SUFFICES ASSUME NEW x \in Entries', Shares(x)'
                   PROVE  /\ entry'[x].db \in opened'
                          /\ PathOf[entry'[entry'[x].db].repo] = PathOf[entry'[x].repo]
        OBVIOUS
      <3>1. x # n
        BY <2>4
      <3>2. x \in Entries
        BY <2>2, <3>1
      <3>3. Shares(x) /\ entry'[x].db = entry[x].db
        BY <2>1, <2>5, <3>2
      <3>4. entry[x].db \in opened /\ PathOfEntry(entry[x].db) = PathOfEntry(x)
        BY <3>2, <3>3 DEF DatabasesOK
      <3> QED
        BY <1>2, <2>7, <2>8, <3>2, <3>3, <3>4
    <2>10. \A d \in opened' : /\ cache'[PathOf[entry'[d].repo]] = d
                              /\ Users(d)' # {}
                              /\ entry'[d].stage \notin {"stat", "retry"}
      BY <1>2, <2>1, <2>6, <2>7, <2>8 DEF DatabasesOK
    <2>11. \A p \in Paths : cache'[p] # 0 => cache'[p] \in opened' /\ PathOf[entry'[cache'[p]].repo] = p
      BY <1>2, <2>7, <2>8 DEF DatabasesOK
    <2>12. \A d \in Ids : refs'[d] = Cardinality(Users(d)')
      BY <1>2, <2>6 DEF DatabasesOK
    <2>13. \A x \in Entries' : entry'[x].stage = "retry" =>
             PathOf[entry'[x].repo] \in Lockable /\ cache'[PathOf[entry'[x].repo]] = 0
      BY <1>2, <2>1, <2>2, <2>3, <2>7 DEF DatabasesOK
    <2> QED
      BY <2>9, <2>10, <2>11, <2>12, <2>13 DEF DatabasesOK, PathOfEntry, Users, Ids
  <1> QED
    BY <1>1, <1>2 DEF InitCgdb

LEMMA InPlaceDatabases ==
  ASSUME Inv, Inv', DatabasesOK, Entries' = Entries,
         UNCHANGED <<cache, refs, opened>>,
         \A x \in Entries :
           /\ entry'[x].db = entry[x].db
           /\ entry'[x].repo = entry[x].repo
           /\ entry'[x].closed = entry[x].closed
           /\ \/ entry'[x].stage = entry[x].stage
              \/ entry[x].stage = "load" /\ entry'[x].stage = "ready" /\ ~entry[x].closed
              \/ entry[x].stage \in {"stat", "retry"} /\ entry'[x].stage = "failed"
  PROVE  DatabasesOK'
  <1>1. \A x \in Entries : Shares(x)' <=> Shares(x)
    BY SharesNext, SharesIs DEF Shares
  <1> QED
    BY <1>1, DatabasesUntouched

(* Giving up, waiting on and registering. *)
LEMMA StagesDatabases ==
  ASSUME Inv, Inv', DatabasesOK, NEW e \in Entries,
         StatFails(e) \/ RetryLocked(e) \/ RetryFails(e) \/ Register(e)
  PROVE  DatabasesOK'
  <1>0. /\ entry \in [Entries -> EntryRecords] /\ entry[e] \in EntryRecords
        /\ entry[e].stage = "load" => ~entry[e].closed
    BY EntryMap DEF Inv, Untouched
  <1>1. UNCHANGED <<cache, refs, opened>>
    BY DEF StatFails, RetryLocked, RetryFails, GiveUp, Register
  <1>2. \/ /\ entry' = [entry EXCEPT ![e].stage = "failed"]
           /\ entry[e].stage \in {"stat", "retry"}
        \/ entry' = [entry EXCEPT ![e].attempt = @ + 1]
        \/ entry' = [entry EXCEPT ![e].stage = "ready"] /\ entry[e].stage = "load"
    BY DEF StatFails, RetryLocked, RetryFails, GiveUp, Register
  <1>3. Entries' = Entries
    BY <1>2 DEF Entries
  <1>4. ASSUME NEW x \in Entries
        PROVE  /\ entry'[x].db = entry[x].db
               /\ entry'[x].repo = entry[x].repo
               /\ entry'[x].closed = entry[x].closed
               /\ \/ entry'[x].stage = entry[x].stage
                  \/ entry[x].stage = "load" /\ entry'[x].stage = "ready" /\ ~entry[x].closed
                  \/ entry[x].stage \in {"stat", "retry"} /\ entry'[x].stage = "failed"
    <2>1. CASE x # e
      BY <1>0, <1>2, <2>1
    <2>2. CASE x = e
      BY <1>0, <1>2, <2>2 DEF EntryRecords
    <2> QED
      BY <2>1, <2>2
  <1> QED
    BY <1>1, <1>3, <1>4, InPlaceDatabases

(* What a query does to an entry leaves its database alone. *)
Kept ==
  /\ Entries' = Entries
  /\ \A x \in Entries : /\ entry'[x].db = entry[x].db
                        /\ entry'[x].repo = entry[x].repo
                        /\ entry'[x].closed = entry[x].closed
                        /\ entry'[x].stage = entry[x].stage

LEMMA KeptBy ==
  ASSUME Inv, NEW e \in Entries, NEW h,
         h.db = entry[e].db, h.repo = entry[e].repo,
         h.closed = entry[e].closed, h.stage = entry[e].stage,
         entry' = [entry EXCEPT ![e] = h]
  PROVE  Kept
  <1>1. entry \in [Entries -> EntryRecords]
    BY EntryMap DEF Inv
  <1>2. entry' = [x \in Entries |-> IF x = e THEN h ELSE entry[x]]
    BY <1>1
  <1>3. Len(entry') = Len(entry)
    BY <1>2, LenProperties, EntryCount DEF Inv, Entries
  <1> QED
    BY <1>2, <1>3 DEF Kept, Entries

LEMMA OneField ==
  ASSUME Inv, NEW e \in Entries, NEW v,
         \/ entry' = [entry EXCEPT ![e].waiters = v]
         \/ entry' = [entry EXCEPT ![e].shut = v]
  PROVE  Kept
  <1>1. entry[e] \in EntryRecords
    BY EntryAt DEF Inv
  <1>2. CASE entry' = [entry EXCEPT ![e].waiters = v]
    <2>1. PICK h : h = [entry[e] EXCEPT !.waiters = v]
      OBVIOUS
    <2>2. /\ h.db = entry[e].db /\ h.repo = entry[e].repo
          /\ h.closed = entry[e].closed /\ h.stage = entry[e].stage
      BY <1>1, <2>1 DEF EntryRecords
    <2> QED
      BY <1>2, <2>1, <2>2, KeptBy
  <1>3. CASE entry' = [entry EXCEPT ![e].shut = v]
    <2>1. PICK h : h = [entry[e] EXCEPT !.shut = v]
      OBVIOUS
    <2>2. /\ h.db = entry[e].db /\ h.repo = entry[e].repo
          /\ h.closed = entry[e].closed /\ h.stage = entry[e].stage
      BY <1>1, <2>1 DEF EntryRecords
    <2> QED
      BY <1>3, <2>1, <2>2, KeptBy
  <1> QED
    BY <1>2, <1>3

LEMMA TwoFields ==
  ASSUME Inv, NEW e \in Entries, NEW a, NEW n,
         \/ entry' = [entry EXCEPT ![e].available = a, ![e].checkedOut = n]
         \/ entry' = [entry EXCEPT ![e].checkedOut = n, ![e].available = a]
  PROVE  Kept
  <1>1. entry[e] \in EntryRecords
    BY EntryAt DEF Inv
  <1>2. PICK h : h = [entry[e] EXCEPT !.available = a, !.checkedOut = n]
    OBVIOUS
  <1>3. /\ h.db = entry[e].db /\ h.repo = entry[e].repo
        /\ h.closed = entry[e].closed /\ h.stage = entry[e].stage
    BY <1>1, <1>2 DEF EntryRecords
  <1>4. [entry[e] EXCEPT !.checkedOut = n, !.available = a] = h
    BY <1>1, <1>2 DEF EntryRecords
  <1>5. entry \in [Entries -> EntryRecords]
    BY EntryMap DEF Inv
  <1>6. entry' = [entry EXCEPT ![e] = h]
    <2>1. CASE entry' = [entry EXCEPT ![e].available = a, ![e].checkedOut = n]
      BY <1>2, <1>5, <2>1
    <2>2. CASE entry' = [entry EXCEPT ![e].checkedOut = n, ![e].available = a]
      BY <1>4, <1>5, <2>2
    <2> QED
      BY <2>1, <2>2
  <1> QED
    BY <1>3, <1>6, KeptBy

LEMMA CheckoutKept ==
  ASSUME Inv, NEW q, NEW e \in Entries, NEW n, Checkout(q, e, n)
  PROVE  Kept
  <1>1. ASSUME NEW c, entry' = [entry EXCEPT ![e].available = @ \ {c}, ![e].checkedOut = @ + 1]
        PROVE  Kept
    <2>1. entry \in [Entries -> EntryRecords] /\ entry[e] \in EntryRecords
      BY EntryMap DEF Inv
    <2>2. entry' = [entry EXCEPT ![e].available = entry[e].available \ {c},
                                 ![e].checkedOut = entry[e].checkedOut + 1]
      BY <1>1, <2>1 DEF EntryRecords
    <2> QED
      BY <2>2, TwoFields
  <1>2. CASE entry' = entry
    BY <1>2 DEF Kept, Entries
  <1>3. CASE entry' = [entry EXCEPT ![e].waiters = Append(@, q)]
    BY <1>3, OneField
  <1> QED
    BY <1>1, <1>2, <1>3 DEF Checkout

LEMMA FinishKept ==
  ASSUME Inv, NEW q \in Queries, Finish(q)
  PROVE  Kept
  <1>1. PICK e \in Entries : e = query[q].entry
    BY DEF Finish, Inv, QueryOK
  <1>2. PICK c : c = query[q].conn
    OBVIOUS
  <1>3. CASE entry' = [entry EXCEPT ![e].shut = @ \cup {c}]
    BY <1>3, OneField
  <1>4. CASE entry' = [entry EXCEPT ![e].waiters = Tail(@)]
    BY <1>4, OneField
  <1>5. CASE entry' = [entry EXCEPT ![e].checkedOut = @ - 1, ![e].available = @ \cup {c}]
    <2>1. entry \in [Entries -> EntryRecords] /\ entry[e] \in EntryRecords
      BY EntryMap DEF Inv
    <2>2. entry' = [entry EXCEPT ![e].checkedOut = entry[e].checkedOut - 1,
                                 ![e].available = entry[e].available \cup {c}]
      BY <1>5, <2>1 DEF EntryRecords
    <2> QED
      BY <2>2, TwoFields
  <1> QED
    BY <1>1, <1>2, <1>3, <1>4, <1>5 DEF Finish

LEMMA WaiterTimeoutKept ==
  ASSUME Inv, NEW q \in Queries, WaiterTimeout(q)
  PROVE  Kept
  <1>1. PICK e \in Entries : e = query[q].entry
    BY DEF WaiterTimeout, Inv, QueryOK
  <1>2. PICK i : entry' = [entry EXCEPT ![e].waiters = RemoveAt(@, i)]
    BY <1>1 DEF WaiterTimeout
  <1> QED
    BY <1>2, OneField

LEMMA QueriesDatabases ==
  ASSUME Inv, Inv', DatabasesOK, NEW q \in Queries,
         QueryStep(q) \/ \E r \in Repos : Execute(q, r)
  PROVE  DatabasesOK'
  <1>1. UNCHANGED <<cache, refs, opened>>
    BY DEF QueryStep, NextLabel, Finish, WaiterTimeout, Execute
  <1>2. Kept
    <2>1. ASSUME NEW r \in Repos, Execute(q, r)
          PROVE  Kept
      <3>1. pool[r] \in Entries
        BY <2>1, EntryCount DEF Execute, Inv, TypeOK, Entries
      <3> QED
        BY <2>1, <3>1, CheckoutKept DEF Execute
    <2>2. ASSUME NextLabel(q)
          PROVE  Kept
      <3>1. query[q].entry \in Entries
        BY <2>2 DEF NextLabel, Inv, QueryOK
      <3> QED
        BY <2>2, <3>1, CheckoutKept DEF NextLabel
    <2> QED
      BY <2>1, <2>2, FinishKept, WaiterTimeoutKept DEF QueryStep
  <1> QED
    BY <1>1, <1>2, InPlaceDatabases DEF Kept

LEMMA InitDatabases == Init => DatabasesOK
  <1> SUFFICES ASSUME Init PROVE DatabasesOK
    OBVIOUS
  <1>1. Entries = {} /\ opened = {}
    BY DEF Init, Entries
  <1>2. \A d : Users(d) = {}
    BY <1>1 DEF Users
  <1>3. \A d \in Ids : refs[d] = Cardinality(Users(d))
    BY <1>2, FS_EmptySet DEF Init
  <1> QED
    BY <1>1, <1>3 DEF Init, DatabasesOK

LEMMA NextDatabases ==
  ASSUME LockedPathsUnshared, Inv, Inv', DatabasesOK, [Next]_vars
  PROVE  DatabasesOK'
  <1>1. CASE UNCHANGED vars
    <2>1. Kept
      BY <1>1 DEF vars, Kept, Entries
    <2> QED
      BY <1>1, <2>1, InPlaceDatabases DEF Kept, vars
  <1>2. ASSUME NEW r \in Repos, InitCgdb(r)
        PROVE  DatabasesOK'
    BY <1>2, InitCgdbDatabases
  <1>3. ASSUME NEW r \in Repos, CloseOneRepo(r)
        PROVE  DatabasesOK'
    <2>1. {pool[r]} \in SUBSET Registered
      BY <1>3, EntryCount DEF CloseOneRepo, Inv, InitsOrdered, TypeOK, Registered, Entries
    <2> QED
      BY <1>3, <2>1, CloseCgdbDatabases DEF CloseOneRepo
  <1>4. CASE CloseEveryRepo
    BY <1>4, CloseCgdbDatabases DEF CloseEveryRepo
  <1>5. CASE IdleTimer
    <2>1. PICK last \in Registered :
             CloseCgdb({e \in Registered : /\ e = last \/ <<e, last>> \in older
                                          /\ entry[e].checkedOut = 0})
      BY <1>5 DEF IdleTimer
    <2> QED
      BY <2>1, CloseCgdbDatabases
  <1>6. ASSUME NEW e \in Entries, InitStep(e)
        PROVE  DatabasesOK'
    BY <1>6, StagesDatabases, ShareDatabases, OpenDatabases, FindLockedDatabases,
       OpenFailsDatabases, RetryOpensDatabases DEF InitStep
  <1>7. ASSUME NEW q \in Queries, QueryStep(q) \/ \E r \in Repos : Execute(q, r)
        PROVE  DatabasesOK'
    BY <1>7, QueriesDatabases
  <1> QED
    BY <1>1, <1>2, <1>3, <1>4, <1>5, <1>6, <1>7 DEF Next

LEMMA DatabasesInvariant ==
  ASSUME LockedPathsUnshared
  PROVE  Spec => [](Inv /\ DatabasesOK)
  <1>1. Init => Inv /\ DatabasesOK
    BY InitInv, InitDatabases
  <1>2. Inv /\ DatabasesOK /\ [Next]_vars => Inv' /\ DatabasesOK'
    BY NextInv, NextDatabases
  <1> QED
    BY <1>1, <1>2, PTL DEF Spec

(* The repositories of a path share one database.  As long as one of them is in
   the pool or being opened it is open, cached and counted right, and with the
   last one it is closed (doInitCgdb, closeOne). *)
THEOREM SharedDatabasesCounted ==
  ASSUME LockedPathsUnshared
  PROVE  Spec => []DatabasesCounted
  <1>1. Inv /\ DatabasesOK => DatabasesCounted
    <2> SUFFICES ASSUME Inv, DatabasesOK, NEW d \in Entries
                 PROVE  /\ refs[d] = Cardinality(Users(d))
                        /\ d \in opened <=> Users(d) # {}
                        /\ d \in opened <=> \E p \in Paths : cache[p] = d
      BY DEF DatabasesCounted
    <2>1. d \in Ids /\ d # 0
      BY EntryCount DEF Inv, Entries
    <2>2. Users(d) # {} => d \in opened
      BY UsersShare DEF DatabasesOK
    <2>3. d \in opened => PathOfEntry(d) \in Paths /\ cache[PathOfEntry(d)] = d
      BY PathType DEF DatabasesOK
    <2> QED
      BY <2>1, <2>2, <2>3 DEF DatabasesOK
  <1> QED
    BY <1>1, DatabasesInvariant, PTL

(* No query of an open entry, not even one that waits, loses its database to
   the closing of another repository of the same path. *)
THEOREM DatabasesOutliveQueries ==
  ASSUME LockedPathsUnshared
  PROVE  Spec => []QueriesKeepDatabase
  <1>1. Inv /\ DatabasesOK => QueriesKeepDatabase
    <2> SUFFICES ASSUME Inv, DatabasesOK, NEW q \in Queries,
                        query[q].pc \in {"running", "waiting"},
                        ~entry[query[q].entry].closed
                 PROVE  entry[query[q].entry].db \in opened
      BY DEF QueriesKeepDatabase
    <2>1. query[q].entry \in Entries /\ entry[query[q].entry].stage = "ready"
      BY DEF Inv, QueryOK
    <2>2. Shares(query[q].entry)
      BY <2>1, SharesIs
    <2> QED
      BY <2>1, <2>2 DEF DatabasesOK
  <1> QED
    BY <1>1, DatabasesInvariant, PTL

=============================================================================
