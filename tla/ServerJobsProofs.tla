-------------------------- MODULE ServerJobsProofs --------------------------
(***************************************************************************)
(* Proofs about the server's jobs, for any number of repositories, jobs,   *)
(* retries, pipelines and deletions: whatever happens, the types and the   *)
(* bounds on the workers of a job; and, without the events that take a     *)
(* lock from whoever works under it, that the locks exclude.               *)
(***************************************************************************)
EXTENDS ServerJobs, FiniteSetTheorems, FunctionTheorems, SequenceTheorems, TLAPS

WorkersOf(j) == {w \in DOMAIN workers : workers[w].job = j}
Current(w) == workers[w].proc # "reaped"

(* The types, without the bound on the workers that follows from their count. *)
Types ==
  /\ jobs \in Seq(JobType) /\ Len(jobs) <= MaxJobs
  /\ workers \in Seq(WorkerType)
  /\ embedJobs \in Seq([repo : Repos, status : {"analyzing", "complete", "failed"}])
  /\ embeds \in Seq([job : EmbedIds, repo : Repos, running : BOOLEAN, timer : BOOLEAN])
  /\ Len(embeds) <= MaxEmbeds
  /\ Len(embedJobs) <= Len(embeds)
  /\ \A w \in DOMAIN workers : workers[w].job \in DOMAIN jobs
  /\ \A e \in DOMAIN embeds : embeds[e].job \in DOMAIN embedJobs
  /\ deleting \in [Repos -> Nat]
  /\ locks \subseteq Repos

(* A job has one worker at a time: its exit is dealt with before the next is
   forked, and a job whose clone is under way has had none. *)
OneCurrent ==
  \A v, w \in DOMAIN workers :
    workers[v].job = workers[w].job /\ Current(v) /\ Current(w) => v = w
DueLast(j) ==
  /\ jobs[j].cloning => WorkersOf(j) = {} /\ ~jobs[j].retrying
  /\ jobs[j].retrying => \A w \in WorkersOf(j) : ~Current(w)
NoneDue == \A j \in DOMAIN jobs : DueLast(j)

(* Every retry stands for one worker, the one that is due included. *)
CountedIn(j) ==
  Cardinality(WorkersOf(j)) + (IF jobs[j].retrying THEN 1 ELSE 0) <= jobs[j].retries + 1
Counted == \A j \in DOMAIN jobs : CountedIn(j)

Inv == Types /\ OneCurrent /\ NoneDue /\ Counted

-----------------------------------------------------------------------------
(* With these events alone nobody's lock is released by somebody else. *)
Quiet == Events \subseteq {"crash", "spawnFails", "initFails", "embedCancel"}

(* A worker whose result the server has not read. *)
Owing(w) == Current(w) /\ (workers[w].leaving => workers[w].mail # <<>>)

WorkerOK(w) ==
  LET x == workers[w]
      status == jobs[x.job].status
  IN  /\ ~x.signal
      /\ x.analyzing => x.proc = "up" /\ ~x.leaving
      /\ x.proc \in {"unspawned", "boot"} => ~x.leaving
      /\ x.proc \in {"unspawned", "boot", "reaped"} => x.mail = <<>>
      /\ x.init => Current(w) /\ x.leaving /\ x.mail = <<>>
      /\ \A i \in DOMAIN x.mail : x.mail[i] # "progress" <=> x.leaving /\ i = Len(x.mail)
      /\ Owing(w) => status = "analyzing"
      /\ Current(w) /\ ~Owing(w) => x.init \/ Terminal(status)

(* A job works under the lock while its worker owes a result or is to be forked
   again. *)
Owns(j) == jobs[j].retrying \/ \E w \in WorkersOf(j) : Owing(w)
Owners == {j \in DOMAIN jobs : Owns(j)}
JobsOn(r) == {j \in Owners : jobs[j].repo = r}

(* Jobs, pipelines and deletions share a repository with none of the others, and
   its lock is held while there is one. *)
LockOK(r) ==
  \/ JobsOn(r) = {} /\ EmbedsOn(r) = {} /\ deleting[r] = 0
  \/ /\ r \in locks
     /\ \/ (\E j \in DOMAIN jobs : JobsOn(r) = {j}) /\ EmbedsOn(r) = {} /\ deleting[r] = 0
        \/ JobsOn(r) = {} /\ (\E e \in DOMAIN embeds : EmbedsOn(r) = {e}) /\ deleting[r] = 0
        \/ JobsOn(r) = {} /\ EmbedsOn(r) = {} /\ deleting[r] = 1

WorkersOK == \A w \in DOMAIN workers : WorkerOK(w)
RetriesOK == \A j \in DOMAIN jobs : jobs[j].retrying => jobs[j].status = "analyzing"
LocksOK == \A r \in Repos : LockOK(r)

Exclusive == WorkersOK /\ RetriesOK /\ LocksOK

-----------------------------------------------------------------------------
(* Sequences *)

(* An element of a sequence is replaced by another. *)
LEMMA Replaced ==
  ASSUME NEW S, NEW s \in Seq(S), NEW i \in DOMAIN s, NEW x \in S, NEW t,
         t = [s EXCEPT ![i] = x]
  PROVE  /\ t \in Seq(S)
         /\ Len(t) = Len(s)
         /\ DOMAIN t = DOMAIN s
         /\ t[i] = x
         /\ \A k \in DOMAIN s : k # i => t[k] = s[k]
  OBVIOUS

(* An element is appended to a sequence. *)
LEMMA Appended ==
  ASSUME NEW S, NEW s \in Seq(S), NEW x \in S, NEW t, t = Append(s, x)
  PROVE  /\ t \in Seq(S)
         /\ Len(t) = Len(s) + 1
         /\ DOMAIN t = DOMAIN s \cup {Len(s) + 1}
         /\ Len(s) + 1 \notin DOMAIN s
         /\ t[Len(s) + 1] = x
         /\ \A k \in DOMAIN s : t[k] = s[k]
  OBVIOUS

-----------------------------------------------------------------------------
(* What most steps have in common *)

Statuses == {"cloning", "analyzing", "complete", "failed"}

(* The jobs change in place, and no clone or retry begins. *)
JobsKept ==
  /\ jobs' \in Seq(JobType)
  /\ Len(jobs') = Len(jobs)
  /\ DOMAIN jobs' = DOMAIN jobs
  /\ \A j \in DOMAIN jobs :
       /\ jobs'[j].repo = jobs[j].repo
       /\ jobs'[j].retries = jobs[j].retries
       /\ jobs'[j].cloning => jobs[j].cloning
       /\ jobs'[j].retrying => jobs[j].retrying

(* The workers change in place, and none comes back. *)
WorkersKept ==
  /\ workers' \in Seq(WorkerType)
  /\ DOMAIN workers' = DOMAIN workers
  /\ \A w \in DOMAIN workers :
       /\ workers'[w].job = workers[w].job
       /\ Current(w)' => Current(w)

(* Jobs that do not change are kept. *)
LEMMA JobsSame == ASSUME Types, UNCHANGED jobs PROVE JobsKept
  BY DEF Types, JobsKept

(* Workers that do not change are kept. *)
LEMMA WorkersSame == ASSUME Types, UNCHANGED workers PROVE WorkersKept
  BY DEF Types, WorkersKept, Current

(* The jobs but job j stay as they are. *)
OthersKept(j) ==
  /\ jobs' \in Seq(JobType) /\ Len(jobs') <= MaxJobs
  /\ DOMAIN jobs \subseteq DOMAIN jobs'
  /\ DOMAIN jobs' \subseteq DOMAIN jobs \cup {j}
  /\ \A i \in DOMAIN jobs : i # j => jobs'[i] = jobs[i]

(* One job changes. *)
LEMMA JobSet ==
  ASSUME Types, NEW j \in DOMAIN jobs, NEW x \in JobType,
         x.repo = jobs[j].repo, x.retrying => jobs[j].retrying, x.cloning => jobs[j].cloning,
         jobs' = [jobs EXCEPT ![j] = x]
  PROVE  /\ OthersKept(j)
         /\ jobs'[j] = x
         /\ DOMAIN jobs' = DOMAIN jobs
         /\ x.retries = jobs[j].retries => JobsKept
<1>1. jobs \in Seq(JobType)
  BY DEF Types
<1>2. /\ jobs' \in Seq(JobType) /\ Len(jobs') = Len(jobs) /\ DOMAIN jobs' = DOMAIN jobs
      /\ jobs'[j] = x /\ \A i \in DOMAIN jobs : i # j => jobs'[i] = jobs[i]
  BY <1>1, Replaced
<1>3. OthersKept(j)
  BY <1>2 DEF OthersKept, Types
<1>4. ASSUME x.retries = jobs[j].retries PROVE JobsKept
  BY <1>2, <1>4 DEF JobsKept
<1> QED BY <1>2, <1>3, <1>4

(* A job gets a status. *)
LEMMA StatusSet ==
  ASSUME Types, NEW j \in DOMAIN jobs, NEW status \in Statuses,
         jobs' = [jobs EXCEPT ![j].status = status]
  PROVE  /\ JobsKept
         /\ OthersKept(j)
         /\ jobs'[j] = [jobs[j] EXCEPT !.status = status]
<1> DEFINE x == [jobs[j] EXCEPT !.status = status]
<1>1. jobs \in Seq(JobType) /\ jobs[j] \in JobType
  BY DEF Types
<1>2. x \in JobType /\ x.repo = jobs[j].repo /\ x.retries = jobs[j].retries
      /\ (x.cloning => jobs[j].cloning) /\ (x.retrying => jobs[j].retrying)
  BY <1>1 DEF JobType, Statuses
<1>3. jobs' = [jobs EXCEPT ![j] = x]
  OBVIOUS
<1> HIDE DEF x
<1>4. OthersKept(j) /\ jobs'[j] = x /\ JobsKept
  BY <1>2, <1>3, JobSet
<1> QED BY <1>4 DEF x

(* One worker changes, and does not come back. *)
LEMMA WorkerSet ==
  ASSUME Types, NEW w \in DOMAIN workers, NEW x \in WorkerType,
         x.job = workers[w].job, x.proc # "reaped" => Current(w),
         workers' = [workers EXCEPT ![w] = x]
  PROVE  /\ WorkersKept
         /\ workers'[w] = x
         /\ \A v \in DOMAIN workers : v # w => workers'[v] = workers[v]
<1>1. workers \in Seq(WorkerType)
  BY DEF Types
<1>2. /\ workers' \in Seq(WorkerType) /\ DOMAIN workers' = DOMAIN workers
      /\ workers'[w] = x /\ \A v \in DOMAIN workers : v # w => workers'[v] = workers[v]
  BY <1>1, Replaced
<1>3. \A v \in DOMAIN workers : workers'[v].job = workers[v].job /\ (Current(v)' => Current(v))
  BY <1>2 DEF Current
<1> QED BY <1>2, <1>3 DEF WorkersKept

(* A job has finitely many workers. *)
LEMMA WorkersFinite ==
  ASSUME Types, NEW j
  PROVE  IsFiniteSet(WorkersOf(j)) /\ Cardinality(WorkersOf(j)) \in Nat
<1>1. DOMAIN workers = 1..Len(workers) /\ Len(workers) \in Nat
  BY DEF Types
<1>2. IsFiniteSet(DOMAIN workers)
  BY <1>1, FS_Interval
<1>3. WorkersOf(j) \subseteq DOMAIN workers
  BY DEF WorkersOf
<1> QED BY <1>2, <1>3, FS_Subset, FS_CardinalityType

(* The retries of a job are within their bound. *)
LEMMA RetriesNat == ASSUME Types, NEW j \in DOMAIN jobs PROVE jobs[j].retries \in 0..MaxRetries
<1>1. jobs[j] \in JobType
  BY DEF Types
<1> QED BY <1>1 DEF JobType

(* Such a step keeps the invariant. *)
LEMMA KeptInPlace ==
  ASSUME Inv, JobsKept, WorkersKept,
         /\ embedJobs' \in Seq([repo : Repos, status : {"analyzing", "complete", "failed"}])
         /\ embeds' \in Seq([job : EmbedIds, repo : Repos, running : BOOLEAN, timer : BOOLEAN])
         /\ Len(embeds') <= MaxEmbeds
         /\ Len(embedJobs') <= Len(embeds')
         /\ \A e \in DOMAIN embeds' : embeds'[e].job \in DOMAIN embedJobs'
         /\ deleting' \in [Repos -> Nat]
         /\ locks' \subseteq Repos
  PROVE  Inv'
<1> USE DEF Inv
<1>1. \A w \in DOMAIN workers' : workers'[w].job \in DOMAIN jobs'
  BY DEF Types, JobsKept, WorkersKept
<1>2. Types'
  BY <1>1 DEF Types, JobsKept, WorkersKept
<1>3. \A j : WorkersOf(j)' = WorkersOf(j)
  BY DEF WorkersKept, WorkersOf
<1>4. OneCurrent'
  BY DEF OneCurrent, WorkersKept
<1>5. NoneDue'
  <2> SUFFICES ASSUME NEW j \in DOMAIN jobs' PROVE DueLast(j)'
    BY DEF NoneDue
  <2>1. j \in DOMAIN jobs /\ (jobs'[j].cloning => jobs[j].cloning)
        /\ (jobs'[j].retrying => jobs[j].retrying)
    BY DEF JobsKept
  <2>2. \A w \in WorkersOf(j) : Current(w)' => Current(w)
    BY DEF WorkersOf, WorkersKept
  <2>3. /\ jobs[j].cloning => WorkersOf(j) = {} /\ ~jobs[j].retrying
        /\ jobs[j].retrying => \A w \in WorkersOf(j) : ~Current(w)
    BY <2>1 DEF NoneDue, DueLast
  <2> QED BY <1>3, <2>1, <2>2, <2>3 DEF DueLast
<1>6. Counted'
  <2> SUFFICES ASSUME NEW j \in DOMAIN jobs' PROVE CountedIn(j)'
    BY DEF Counted
  <2>1. j \in DOMAIN jobs /\ jobs'[j].retries = jobs[j].retries
        /\ (jobs'[j].retrying => jobs[j].retrying)
    BY DEF JobsKept
  <2>2. WorkersOf(j)' = WorkersOf(j)
    BY <1>3
  <2>3. Cardinality(WorkersOf(j)) + (IF jobs[j].retrying THEN 1 ELSE 0) <= jobs[j].retries + 1
    BY <2>1 DEF Counted, CountedIn
  <2>4. Cardinality(WorkersOf(j)) \in Nat /\ jobs[j].retries \in Nat
    BY <2>1, WorkersFinite, RetriesNat, ServerJobsConstants
  <2> QED BY <2>1, <2>2, <2>3, <2>4 DEF CountedIn
<1> QED BY <1>2, <1>4, <1>5, <1>6

(* In particular when it leaves embeddings and deletions alone, *)
LEMMA KeptByJobs ==
  ASSUME Inv, JobsKept, WorkersKept, UNCHANGED <<embedVars, deleting>>, locks' \subseteq Repos
  PROVE  Inv'
<1>1. /\ embedJobs' \in Seq([repo : Repos, status : {"analyzing", "complete", "failed"}])
      /\ embeds' \in Seq([job : EmbedIds, repo : Repos, running : BOOLEAN, timer : BOOLEAN])
      /\ Len(embeds') <= MaxEmbeds /\ Len(embedJobs') <= Len(embeds')
      /\ \A e \in DOMAIN embeds' : embeds'[e].job \in DOMAIN embedJobs'
      /\ deleting' \in [Repos -> Nat]
  BY DEF Inv, Types, embedVars
<1> QED BY <1>1, KeptInPlace

(* or when one worker makes a step of its own. *)
LEMMA KeptByWorker ==
  ASSUME Inv, NEW w \in DOMAIN workers, NEW x \in WorkerType, WorkerStep(w, x),
         x.job = workers[w].job, x.proc # "reaped" => Current(w)
  PROVE  Inv'
<1>1. WorkersKept
  BY WorkerSet DEF WorkerStep, Inv
<1>2. JobsKept
  BY JobsSame DEF WorkerStep, Inv
<1>3. UNCHANGED <<embedVars, deleting>> /\ locks' \subseteq Repos
  BY DEF WorkerStep, Inv, Types
<1> QED BY <1>1, <1>2, <1>3, KeptByJobs

-----------------------------------------------------------------------------
(* Steps that fork a worker or create a job *)

(* A new worker is a worker. *)
LEMMA NewWorkerTyped ==
  ASSUME NEW j \in JobIds, NEW proc \in {"boot", "unspawned"}
  PROVE  /\ NewWorker(j, proc) \in WorkerType
         /\ NewWorker(j, proc).job = j /\ NewWorker(j, proc).proc = proc
  BY DEF NewWorker, WorkerType

(* A fork adds one worker, and leaves the others as they are. *)
LEMMA ForkAppends ==
  ASSUME Types, NEW j \in JobIds, Fork(j)
  PROVE  /\ workers' \in Seq(WorkerType)
         /\ DOMAIN workers' = DOMAIN workers \cup {Len(workers) + 1}
         /\ Len(workers) + 1 \notin DOMAIN workers
         /\ \E proc \in {"boot", "unspawned"} : workers'[Len(workers) + 1] = NewWorker(j, proc)
         /\ \A w \in DOMAIN workers : workers'[w] = workers[w]
<1>1. PICK proc \in {"boot", "unspawned"} : workers' = Append(workers, NewWorker(j, proc))
  BY DEF Fork
<1>2. NewWorker(j, proc) \in WorkerType
  BY NewWorkerTyped
<1>3. workers \in Seq(WorkerType)
  BY DEF Types
<1> DEFINE x == NewWorker(j, proc)
<1>4. workers' = Append(workers, x) /\ x \in WorkerType
  BY <1>1, <1>2
<1> HIDE DEF x
<1>5. /\ workers' \in Seq(WorkerType)
      /\ DOMAIN workers' = DOMAIN workers \cup {Len(workers) + 1}
      /\ Len(workers) + 1 \notin DOMAIN workers
      /\ workers'[Len(workers) + 1] = x
      /\ \A w \in DOMAIN workers : workers'[w] = workers[w]
  BY <1>3, <1>4, Appended
<1> QED BY <1>5 DEF x

(* A fork keeps the invariant when the job has no worker that is not done with,
   nor a fork to come, and has counted this one. *)
LEMMA KeptByFork ==
  ASSUME Inv, NEW j \in JobIds, j \in DOMAIN jobs', OthersKept(j),
         ~jobs'[j].cloning, ~jobs'[j].retrying,
         \A w \in WorkersOf(j) : ~Current(w),
         Cardinality(WorkersOf(j)) <= jobs'[j].retries,
         Fork(j), locks' \subseteq Repos,
         UNCHANGED <<embedVars, deleting>>
  PROVE  Inv'
<1> USE DEF Inv
<1> DEFINE new == Len(workers) + 1
<1>1. PICK proc \in {"boot", "unspawned"} : workers'[new] = NewWorker(j, proc)
  BY ForkAppends
<1>2. workers'[new].job = j
  BY <1>1, NewWorkerTyped
<1>3. /\ workers' \in Seq(WorkerType) /\ DOMAIN workers' = DOMAIN workers \cup {new}
      /\ new \notin DOMAIN workers
      /\ \A w \in DOMAIN workers : workers'[w] = workers[w]
  BY ForkAppends
<1> HIDE DEF new
<1>4. WorkersOf(j)' = WorkersOf(j) \cup {new} /\ \A i : i # j => WorkersOf(i)' = WorkersOf(i)
  BY <1>2, <1>3 DEF WorkersOf
<1>5. \A w \in DOMAIN workers : Current(w)' = Current(w)
  BY <1>3 DEF Current
<1>6. \A w \in DOMAIN workers' : workers'[w].job \in DOMAIN jobs'
  BY <1>2, <1>3 DEF Types, OthersKept
<1>7. Types'
  BY <1>3, <1>6 DEF Types, OthersKept, embedVars
<1>8. OneCurrent'
  <2>1. \A w \in DOMAIN workers : workers[w].job = j => ~Current(w)
    BY DEF WorkersOf
  <2>2. SUFFICES ASSUME NEW v \in DOMAIN workers', NEW w \in DOMAIN workers',
                        workers'[v].job = workers'[w].job, Current(v)', Current(w)'
                 PROVE  v = w
    BY DEF OneCurrent
  <2>3. CASE v = new \/ w = new
    BY <1>2, <1>3, <1>5, <2>1, <2>2, <2>3
  <2>4. CASE v # new /\ w # new
    BY <1>3, <1>5, <2>2, <2>4 DEF OneCurrent
  <2> QED BY <2>3, <2>4
<1>9. NoneDue'
  <2> SUFFICES ASSUME NEW i \in DOMAIN jobs' PROVE DueLast(i)'
    BY DEF NoneDue
  <2>1. CASE i = j
    BY <2>1 DEF DueLast
  <2>2. CASE i # j
    <3>1. i \in DOMAIN jobs /\ jobs'[i] = jobs[i] /\ WorkersOf(i)' = WorkersOf(i)
      BY <1>4, <2>2 DEF OthersKept
    <3>2. \A w \in WorkersOf(i) : Current(w)' = Current(w)
      BY <1>5 DEF WorkersOf
    <3>3. DueLast(i)
      BY <3>1 DEF NoneDue
    <3> QED BY <3>1, <3>2, <3>3 DEF DueLast
  <2> QED BY <2>1, <2>2
<1>10. Counted'
  <2> SUFFICES ASSUME NEW i \in DOMAIN jobs' PROVE CountedIn(i)'
    BY DEF Counted
  <2>1. CASE i = j
    <3> DEFINE ws == WorkersOf(j)
    <3>1. IsFiniteSet(ws) /\ Cardinality(ws) \in Nat
      BY WorkersFinite
    <3>4. new \notin ws /\ Cardinality(ws) <= jobs'[j].retries /\ WorkersOf(i)' = ws \cup {new}
      BY <1>2, <1>3, <2>1 DEF WorkersOf
    <3> HIDE DEF ws
    <3>2. Cardinality(ws \cup {new}) = Cardinality(ws) + 1
      BY <3>1, <3>4, FS_AddElement
    <3>3. jobs'[j].retries \in Nat
      <4>1. jobs'[j] \in JobType
        BY DEF OthersKept
      <4> QED BY <4>1, ServerJobsConstants DEF JobType
    <3> QED BY <3>4, <2>1, <3>1, <3>2, <3>3 DEF CountedIn
  <2>2. CASE i # j
    <3>1. i \in DOMAIN jobs /\ jobs'[i] = jobs[i] /\ WorkersOf(i)' = WorkersOf(i)
      BY <1>4, <2>2 DEF OthersKept
    <3> QED BY <3>1 DEF Counted, CountedIn
  <2> QED BY <2>1, <2>2
<1> QED BY <1>7, <1>8, <1>9, <1>10

(* So does the creation of a job that has no worker yet. *)
LEMMA KeptByCreation ==
  ASSUME Inv, NEW x \in JobType, ~x.retrying, Len(jobs) < MaxJobs,
         jobs' = Append(jobs, x), UNCHANGED <<workers, embedVars, deleting, locks>>
  PROVE  Inv'
<1> USE DEF Inv
<1> DEFINE new == Len(jobs) + 1
<1>1. jobs \in Seq(JobType)
  BY DEF Types
<1>2. /\ jobs' \in Seq(JobType) /\ Len(jobs') = Len(jobs) + 1
      /\ DOMAIN jobs' = DOMAIN jobs \cup {new} /\ new \notin DOMAIN jobs
      /\ jobs'[new] = x /\ \A i \in DOMAIN jobs : jobs'[i] = jobs[i]
  BY <1>1, Appended
<1>3. Len(jobs') <= MaxJobs
  BY <1>1, <1>2, ServerJobsConstants
<1> HIDE DEF new
<1>4. WorkersOf(new) = {} /\ (\A i : WorkersOf(i)' = WorkersOf(i))
      /\ \A w : Current(w)' = Current(w)
  BY <1>2 DEF WorkersOf, Types, Current
<1>5. Types'
  BY <1>2, <1>3 DEF Types, embedVars
<1>6. OneCurrent'
  BY <1>4 DEF OneCurrent
<1>7. NoneDue'
  <2> SUFFICES ASSUME NEW i \in DOMAIN jobs' PROVE DueLast(i)'
    BY DEF NoneDue
  <2>1. CASE i = new
    BY <1>2, <1>4, <2>1 DEF DueLast
  <2>2. CASE i \in DOMAIN jobs
    BY <1>2, <1>4, <2>2 DEF NoneDue, DueLast
  <2> QED BY <1>2, <2>1, <2>2
<1>8. Counted'
  <2> SUFFICES ASSUME NEW i \in DOMAIN jobs' PROVE CountedIn(i)'
    BY DEF Counted
  <2>1. CASE i = new
    <3>1. x.retries \in Nat
      BY ServerJobsConstants DEF JobType
    <3>2. Cardinality({}) = 0
      BY FS_EmptySet
    <3>3. WorkersOf(i)' = {}
      BY <1>4, <2>1
    <3> QED BY <1>2, <2>1, <3>1, <3>2, <3>3 DEF CountedIn
  <2>2. CASE i \in DOMAIN jobs
    BY <1>2, <1>4, <2>2 DEF Counted, CountedIn
  <2> QED BY <1>2, <2>1, <2>2
<1> QED BY <1>5, <1>6, <1>7, <1>8

-----------------------------------------------------------------------------
(* The invariant: requests, clones and retries *)

(* The last element of a sequence that grew is replaced. *)
LEMMA AppendedSet ==
  ASSUME NEW S, NEW s \in Seq(S), NEW x \in S, NEW y \in S
  PROVE  [Append(s, x) EXCEPT ![Len(s) + 1] = y] = Append(s, y)
<1> DEFINE t == Append(s, x)
           u == Append(s, y)
           v == [t EXCEPT ![Len(s) + 1] = y]
<1>1. /\ t \in Seq(S) /\ Len(t) = Len(s) + 1 /\ Len(s) + 1 \in DOMAIN t
      /\ \A k \in DOMAIN s : t[k] = s[k]
  BY Appended
<1>2. /\ u \in Seq(S) /\ Len(u) = Len(s) + 1 /\ u[Len(s) + 1] = y
      /\ DOMAIN u = DOMAIN s \cup {Len(s) + 1}
      /\ \A k \in DOMAIN s : u[k] = s[k]
  BY Appended
<1>3. Len(s) + 1 \notin DOMAIN s
  OBVIOUS
<1> HIDE DEF t, u
<1>4. /\ v \in Seq(S) /\ Len(v) = Len(s) + 1 /\ v[Len(s) + 1] = y
      /\ \A k \in DOMAIN t : k # Len(s) + 1 => v[k] = t[k]
  BY <1>1, Replaced
<1> HIDE DEF v
<1>5. \A k \in 1..Len(u) : v[k] = u[k]
  BY <1>1, <1>2, <1>3, <1>4
<1>6. v = u
  BY <1>2, <1>4, <1>5, SeqEqual
<1> QED BY <1>6 DEF v, t, u

(* A new job, and what it becomes at once, are jobs. *)
LEMMA NewJobTyped ==
  ASSUME NEW r \in Repos, NEW v \in Statuses
  PROVE  LET x == [NewJob(r) EXCEPT !.status = v]
             y == [NewJob(r) EXCEPT !.cloning = TRUE]
         IN  /\ NewJob(r) \in JobType /\ NewJob(r).repo = r
             /\ x \in JobType /\ x.retries = 0 /\ x.repo = r /\ x.status = v
             /\ ~x.cloning /\ ~x.retrying
             /\ y \in JobType /\ y.repo = r /\ y.status = "cloning" /\ ~y.retrying
<1>1. /\ NewJob(r) \in JobType /\ NewJob(r).repo = r /\ NewJob(r).retries = 0
      /\ NewJob(r).status = "cloning" /\ NewJob(r).cloning = FALSE /\ NewJob(r).retrying = FALSE
  BY ServerJobsConstants DEF NewJob, JobType
<1> DEFINE x == [NewJob(r) EXCEPT !.status = v]
           y == [NewJob(r) EXCEPT !.cloning = TRUE]
<1>2. x \in JobType /\ x.retries = 0 /\ x.repo = r /\ x.status = v /\ ~x.cloning /\ ~x.retrying
  BY <1>1 DEF JobType, Statuses
<1>3. y \in JobType /\ y.repo = r /\ y.status = "cloning" /\ ~y.retrying
  BY <1>1 DEF JobType
<1> QED BY <1>1, <1>2, <1>3

(* The three ways a request can go. *)
LEMMA CreateJobCases ==
  ASSUME Inv, NEW r \in Repos, CreateJob(r)
  PROVE  LET n == Len(jobs) + 1 IN
         /\ n \in JobIds
         /\ UNCHANGED <<embedVars, deleting>>
         /\ \/ /\ jobs' = Append(jobs, [NewJob(r) EXCEPT !.status = "failed"])
               /\ UNCHANGED <<workers, locks>>
            \/ /\ jobs' = Append(jobs, [NewJob(r) EXCEPT !.cloning = TRUE])
               /\ UNCHANGED <<workers, locks>>
            \/ /\ r \notin locks
               /\ locks' = locks \cup {r}
               /\ jobs' = Append(jobs, [NewJob(r) EXCEPT !.status = "analyzing"])
               /\ Fork(n)
<1> DEFINE n == Len(jobs) + 1
           js == Append(jobs, NewJob(r))
<1>1. jobs \in Seq(JobType) /\ Len(jobs) < MaxJobs
  BY DEF Inv, Types, CreateJob
<1>2. n \in JobIds
  BY <1>1, ServerJobsConstants DEF JobIds
<1>3. NewJob(r) \in JobType /\ NewJob(r).repo = r
  BY NewJobTyped DEF Statuses
<1>4. js[n] = NewJob(r) /\ js[n].repo = r
  BY <1>1, <1>3, Appended
<1>5. ASSUME NEW status \in {"failed", "analyzing"}
      PROVE  [js EXCEPT ![n].status = status] = Append(jobs, [NewJob(r) EXCEPT !.status = status])
  <2>1. [NewJob(r) EXCEPT !.status = status] \in JobType
    BY NewJobTyped DEF Statuses
  <2> DEFINE x == [NewJob(r) EXCEPT !.status = status]
  <2>2. [js EXCEPT ![n].status = status] = [js EXCEPT ![n] = x]
    BY <1>4
  <2>3. x \in JobType
    BY <2>1
  <2> HIDE DEF x
  <2>4. [js EXCEPT ![n] = x] = Append(jobs, x)
    BY <1>1, <1>3, <2>3, AppendedSet
  <2> QED BY <2>2, <2>4 DEF x
<1> HIDE DEF js
<1>6. CreateJob(r) <=>
        /\ \A j \in DOMAIN jobs : Terminal(jobs[j].status)
        /\ Len(jobs) < MaxJobs
        /\ Begin(js, n) \/ (jobs' = Append(jobs, [NewJob(r) EXCEPT !.cloning = TRUE])
                            /\ UNCHANGED <<workers, locks>>)
        /\ UNCHANGED <<embedVars, deleting>>
  BY DEF CreateJob, js
<1>7. CASE Begin(js, n)
  <2>1. \/ jobs' = [js EXCEPT ![n].status = "failed"] /\ UNCHANGED <<workers, locks>>
        \/ r \notin locks /\ locks' = locks \cup {r}
           /\ jobs' = [js EXCEPT ![n].status = "analyzing"] /\ Fork(n)
    BY <1>4, <1>7 DEF Begin
  <2> QED BY <1>2, <1>5, <1>6, <2>1
<1> QED BY <1>2, <1>6, <1>7

(* A request keeps the invariant. *)
LEMMA CreateJobKeeps == ASSUME Inv, NEW r \in Repos, CreateJob(r) PROVE Inv'
<1> DEFINE n == Len(jobs) + 1
           x(status) == [NewJob(r) EXCEPT !.status = status]
           y == [NewJob(r) EXCEPT !.cloning = TRUE]
<1>1. /\ n \in JobIds /\ UNCHANGED <<embedVars, deleting>> /\ Len(jobs) < MaxJobs
      /\ \/ jobs' = Append(jobs, x("failed")) /\ UNCHANGED <<workers, locks>>
         \/ jobs' = Append(jobs, y) /\ UNCHANGED <<workers, locks>>
         \/ locks' = locks \cup {r} /\ jobs' = Append(jobs, x("analyzing")) /\ Fork(n)
  BY CreateJobCases DEF CreateJob
<1>2. /\ x("failed") \in JobType /\ ~x("failed").retrying /\ y \in JobType /\ ~y.retrying
      /\ x("analyzing") \in JobType /\ ~x("analyzing").retrying /\ ~x("analyzing").cloning
      /\ x("analyzing").retries = 0
  BY NewJobTyped DEF Statuses
<1> HIDE DEF x, y
<1>3. CASE jobs' = Append(jobs, x("failed")) /\ UNCHANGED <<workers, locks>>
  BY <1>1, <1>2, <1>3, KeptByCreation
<1>4. CASE jobs' = Append(jobs, y) /\ UNCHANGED <<workers, locks>>
  BY <1>1, <1>2, <1>4, KeptByCreation
<1>5. CASE locks' = locks \cup {r} /\ jobs' = Append(jobs, x("analyzing")) /\ Fork(n)
  <2>1. jobs \in Seq(JobType)
    BY DEF Inv, Types
  <2>2. /\ jobs' \in Seq(JobType) /\ Len(jobs') = Len(jobs) + 1
        /\ DOMAIN jobs' = DOMAIN jobs \cup {n} /\ n \notin DOMAIN jobs
        /\ jobs'[n] = x("analyzing") /\ \A i \in DOMAIN jobs : jobs'[i] = jobs[i]
    BY <1>2, <1>5, <2>1, Appended
  <2>3. Len(jobs') <= MaxJobs
    BY <1>1, <2>1, <2>2, ServerJobsConstants
  <2> HIDE DEF n
  <2>4. OthersKept(n) /\ n \in DOMAIN jobs'
    BY <2>2, <2>3 DEF OthersKept
  <2>5. WorkersOf(n) = {}
    BY <2>2 DEF WorkersOf, Inv, Types
  <2>6. Cardinality(WorkersOf(n)) <= jobs'[n].retries
    BY <1>2, <2>2, <2>5, FS_EmptySet
  <2>7. locks' \subseteq Repos
    BY <1>5 DEF Inv, Types
  <2> QED BY <1>1, <1>2, <1>5, <2>2, <2>4, <2>5, <2>6, <2>7, KeptByFork
<1> QED BY <1>1, <1>3, <1>4, <1>5

(* The two ways the job of a finished clone can go. *)
LEMMA CloneDoneCases ==
  ASSUME Inv, NEW j \in DOMAIN jobs, CloneDone(j)
  PROVE  LET x(status) == [jobs[j] EXCEPT !.cloning = FALSE, !.status = status] IN
         /\ jobs[j].cloning
         /\ UNCHANGED <<embedVars, deleting>>
         /\ x("failed") \in JobType /\ x("analyzing") \in JobType
         /\ \/ /\ jobs' = [jobs EXCEPT ![j] = x("failed")]
               /\ UNCHANGED <<workers, locks>>
            \/ /\ jobs[j].repo \notin locks
               /\ locks' = locks \cup {jobs[j].repo}
               /\ jobs' = [jobs EXCEPT ![j] = x("analyzing")]
               /\ Fork(j)
<1> DEFINE x(status) == [jobs[j] EXCEPT !.cloning = FALSE, !.status = status]
           js == [jobs EXCEPT ![j].cloning = FALSE]
<1>1. jobs \in Seq(JobType) /\ jobs[j] \in JobType
  BY DEF Inv, Types
<1>2. x("failed") \in JobType /\ x("analyzing") \in JobType
  BY <1>1 DEF JobType
<1>3. js[j] = [jobs[j] EXCEPT !.cloning = FALSE] /\ js[j].repo = jobs[j].repo
  BY <1>1 DEF JobType
<1>4. ASSUME NEW status
      PROVE  [js EXCEPT ![j].status = status] = [jobs EXCEPT ![j] = x(status)]
  BY <1>1, <1>3 DEF JobType
<1> HIDE DEF js
<1>5. jobs[j].cloning /\ Begin(js, j) /\ UNCHANGED <<embedVars, deleting>>
  BY DEF CloneDone, js
<1>6. \/ jobs' = [js EXCEPT ![j].status = "failed"] /\ UNCHANGED <<workers, locks>>
      \/ jobs[j].repo \notin locks /\ locks' = locks \cup {jobs[j].repo}
         /\ jobs' = [js EXCEPT ![j].status = "analyzing"] /\ Fork(j)
  BY <1>3, <1>5 DEF Begin
<1> HIDE DEF x
<1>7. \/ jobs' = [jobs EXCEPT ![j] = x("failed")] /\ UNCHANGED <<workers, locks>>
      \/ jobs[j].repo \notin locks /\ locks' = locks \cup {jobs[j].repo}
         /\ jobs' = [jobs EXCEPT ![j] = x("analyzing")] /\ Fork(j)
  BY <1>4, <1>6
<1> QED BY <1>2, <1>5, <1>7 DEF x

(* So does the end of a clone. *)
LEMMA CloneDoneKeeps == ASSUME Inv, NEW j \in DOMAIN jobs, CloneDone(j) PROVE Inv'
<1> DEFINE x(status) == [jobs[j] EXCEPT !.cloning = FALSE, !.status = status]
<1>1. /\ jobs[j].cloning /\ UNCHANGED <<embedVars, deleting>>
      /\ x("failed") \in JobType /\ x("analyzing") \in JobType
      /\ \/ jobs' = [jobs EXCEPT ![j] = x("failed")] /\ UNCHANGED <<workers, locks>>
         \/ locks' = locks \cup {jobs[j].repo}
            /\ jobs' = [jobs EXCEPT ![j] = x("analyzing")] /\ Fork(j)
  BY CloneDoneCases
<1>2. jobs[j] \in JobType
  BY DEF Inv, Types
<1>3. \A status \in {"failed", "analyzing"} :
        /\ x(status).repo = jobs[j].repo /\ x(status).retries = jobs[j].retries
        /\ x(status).retrying = jobs[j].retrying /\ x(status).cloning = FALSE
  BY <1>2 DEF JobType
<1>4. Types
  BY DEF Inv
<1> HIDE DEF x
<1>5. CASE jobs' = [jobs EXCEPT ![j] = x("failed")] /\ UNCHANGED <<workers, locks>>
  <2>1. JobsKept
    BY <1>1, <1>3, <1>4, <1>5, JobSet
  <2>2. WorkersKept /\ locks' \subseteq Repos
    BY <1>4, <1>5, WorkersSame DEF Types
  <2> QED BY <1>1, <2>1, <2>2, KeptByJobs
<1>6. CASE locks' = locks \cup {jobs[j].repo} /\ jobs' = [jobs EXCEPT ![j] = x("analyzing")]
           /\ Fork(j)
  <2>1. OthersKept(j) /\ jobs'[j] = x("analyzing") /\ j \in DOMAIN jobs'
    BY <1>1, <1>3, <1>4, <1>6, JobSet
  <2>2. WorkersOf(j) = {} /\ ~jobs[j].retrying
    BY <1>1 DEF Inv, NoneDue, DueLast
  <2>3. ~jobs'[j].cloning /\ ~jobs'[j].retrying /\ jobs'[j].retries = jobs[j].retries
    BY <1>3, <2>1, <2>2
  <2>4. Cardinality(WorkersOf(j)) <= jobs'[j].retries
    BY <1>4, <2>2, <2>3, FS_EmptySet, RetriesNat, ServerJobsConstants
  <2>5. j \in JobIds /\ locks' \subseteq Repos
    BY <1>2, <1>6, ServerJobsConstants DEF Inv, Types, JobIds, JobType
  <2> QED BY <1>1, <1>6, <2>1, <2>2, <2>3, <2>4, <2>5, KeptByFork
<1> QED BY <1>1, <1>5, <1>6

(* A clone that fails keeps the invariant. *)
LEMMA CloneFailsKeeps == ASSUME Inv, NEW j \in DOMAIN jobs, CloneFails(j) PROVE Inv'
<1> DEFINE x == [jobs[j] EXCEPT !.cloning = FALSE, !.status = "failed"]
<1>1. jobs[j] \in JobType /\ jobs \in Seq(JobType) /\ Types
  BY DEF Inv, Types
<1>2. jobs' = [jobs EXCEPT ![j] = x]
  BY <1>1 DEF CloneFails
<1>3. x \in JobType /\ x.repo = jobs[j].repo /\ x.retries = jobs[j].retries
      /\ ~x.cloning /\ (x.retrying => jobs[j].retrying)
  BY <1>1 DEF JobType
<1> HIDE DEF x
<1>4. JobsKept
  BY <1>1, <1>2, <1>3, JobSet
<1>5. WorkersKept /\ UNCHANGED <<embedVars, deleting>> /\ locks' \subseteq Repos
  BY <1>1, WorkersSame DEF CloneFails, Types
<1> QED BY <1>4, <1>5, KeptByJobs

(* So does the fork of a retry. *)
LEMMA RetryForkKeeps == ASSUME Inv, NEW j \in DOMAIN jobs, RetryFork(j) PROVE Inv'
<1> DEFINE x == [jobs[j] EXCEPT !.retrying = FALSE]
<1>1. jobs[j] \in JobType /\ jobs \in Seq(JobType) /\ Types
  BY DEF Inv, Types
<1>2. jobs' = [jobs EXCEPT ![j] = x] /\ jobs[j].retrying
      /\ UNCHANGED <<embedVars, deleting>> /\ UNCHANGED locks
  BY <1>1 DEF RetryFork
<1>3. x \in JobType /\ x.repo = jobs[j].repo /\ x.retries = jobs[j].retries
      /\ ~x.retrying /\ (x.cloning => jobs[j].cloning)
  BY <1>1 DEF JobType
<1> HIDE DEF x
<1>4. JobsKept /\ OthersKept(j) /\ jobs'[j] = x /\ j \in DOMAIN jobs'
  BY <1>1, <1>2, <1>3, JobSet
<1>5. locks' \subseteq Repos
  BY <1>1, <1>2 DEF Types
<1>6. CASE UNCHANGED workers
  BY <1>1, <1>2, <1>4, <1>5, <1>6, WorkersSame, KeptByJobs
<1>7. CASE Fork(j)
  <2>1. DueLast(j) /\ CountedIn(j)
    BY DEF Inv, NoneDue, Counted
  <2>2. ~jobs[j].cloning /\ (\A w \in WorkersOf(j) : ~Current(w))
    BY <1>2, <2>1 DEF DueLast
  <2>3. Cardinality(WorkersOf(j)) \in Nat /\ jobs[j].retries \in Nat
    BY <1>1, WorkersFinite, RetriesNat, ServerJobsConstants
  <2>4. Cardinality(WorkersOf(j)) <= jobs[j].retries
    BY <1>2, <2>1, <2>3 DEF CountedIn
  <2>5. j \in JobIds
    BY <1>1, ServerJobsConstants DEF Types, JobIds
  <2> QED BY <1>2, <1>3, <1>4, <1>5, <1>7, <2>2, <2>4, <2>5, KeptByFork
<1> QED BY <1>6, <1>7 DEF RetryFork

(* SIGTERM to the last worker of a job. *)
LEMMA AbortKeeps ==
  ASSUME Inv, NEW j \in DOMAIN jobs, NEW ws \in Seq(WorkerType), DOMAIN ws = DOMAIN workers,
         \A w \in DOMAIN ws : ws[w].job = workers[w].job /\ ws[w].proc = workers[w].proc,
         Abort(j, ws)
  PROVE  Inv'
<1>1. Types /\ UNCHANGED <<embedVars, deleting, locks>>
  BY DEF Inv, Abort
<1>2. JobsKept
  BY <1>1, StatusSet DEF Abort, Statuses
<1>3. /\ DOMAIN workers' = DOMAIN workers
      /\ \A w \in DOMAIN workers :
           workers'[w] = ws[w] \/ workers'[w] = [ws[w] EXCEPT !.signal = TRUE]
  BY DEF Abort
<1>4. \A w \in DOMAIN workers :
        /\ workers'[w] \in WorkerType
        /\ workers'[w].job = workers[w].job /\ workers'[w].proc = workers[w].proc
  <2> TAKE w \in DOMAIN workers
  <2>1. ws[w] \in WorkerType
    OBVIOUS
  <2>2. [ws[w] EXCEPT !.signal = TRUE] \in WorkerType
        /\ [ws[w] EXCEPT !.signal = TRUE].job = ws[w].job
        /\ [ws[w] EXCEPT !.signal = TRUE].proc = ws[w].proc
    BY <2>1 DEF WorkerType
  <2> QED BY <1>3, <2>1, <2>2
<1>5. workers' \in Seq(WorkerType)
  <2>1. Len(ws) \in Nat /\ DOMAIN ws = 1..Len(ws)
    OBVIOUS
  <2>2. workers' = [w \in 1..Len(ws) |-> workers'[w]]
    BY <2>1 DEF Abort
  <2>3. \A w \in 1..Len(ws) : workers'[w] \in WorkerType
    BY <1>4, <2>1
  <2> QED BY <2>1, <2>2, <2>3
<1>6. WorkersKept
  BY <1>3, <1>4, <1>5 DEF WorkersKept, Current
<1>7. locks' \subseteq Repos
  BY <1>1 DEF Types
<1> QED BY <1>1, <1>2, <1>6, <1>7, KeptByJobs

(* Cancelling a job keeps the invariant. *)
LEMMA CancelJobKeeps == ASSUME Inv, NEW j \in DOMAIN jobs, CancelJob(j) PROVE Inv'
<1>1. workers \in Seq(WorkerType) /\ Abort(j, workers)
  BY DEF CancelJob, Inv, Types
<1> QED BY <1>1, AbortKeeps

(* So does the limit of a worker. *)
LEMMA TimerFiresKeeps == ASSUME Inv, NEW w \in DOMAIN workers, TimerFires(w) PROVE Inv'
<1> DEFINE x == [workers[w] EXCEPT !.timer = FALSE]
           j == workers[w].job
           fired == [workers EXCEPT ![w] = x]
<1>1. Types /\ workers \in Seq(WorkerType) /\ workers[w] \in WorkerType /\ j \in DOMAIN jobs
  BY DEF Inv, Types
<1>2. x \in WorkerType /\ x.job = workers[w].job /\ x.proc = workers[w].proc
  BY <1>1 DEF WorkerType
<1>3. [workers EXCEPT ![w].timer = FALSE] = fired
  BY <1>1
<1>4. \/ Abort(j, fired)
      \/ workers' = fired /\ UNCHANGED <<jobs, embedVars, deleting, locks>>
  BY <1>3 DEF TimerFires
<1> HIDE DEF x
<1>5. CASE Abort(j, fired)
  <2>1. /\ fired \in Seq(WorkerType) /\ DOMAIN fired = DOMAIN workers
        /\ fired[w] = x /\ \A v \in DOMAIN workers : v # w => fired[v] = workers[v]
    BY <1>1, <1>2, Replaced
  <2> HIDE DEF fired, j
  <2>2. \A v \in DOMAIN fired : fired[v].job = workers[v].job /\ fired[v].proc = workers[v].proc
    BY <1>2, <2>1
  <2> QED BY <1>1, <1>5, <2>1, <2>2, AbortKeeps
<1>6. CASE workers' = fired /\ UNCHANGED <<jobs, embedVars, deleting, locks>>
  <2>1. WorkerStep(w, x)
    BY <1>6 DEF WorkerStep
  <2>2. x.proc # "reaped" => Current(w)
    BY <1>2 DEF Current
  <2> QED BY <1>2, <2>1, <2>2, KeptByWorker
<1> QED BY <1>4, <1>5, <1>6

-----------------------------------------------------------------------------
(* The invariant: the worker processes *)

Messages == {"progress", "complete", "error"}

(* A worker that has sent a message is a worker. *)
LEMMA SentTyped ==
  ASSUME NEW x \in WorkerType, NEW message \in Messages
  PROVE  /\ Sent(x, message) \in WorkerType
         /\ Sent(x, message).job = x.job /\ Sent(x, message).proc = x.proc
<1>1. x.mail \in Seq(Messages)
  BY DEF WorkerType, Messages
<1>2. Append(x.mail, message) \in Seq(Messages)
  BY <1>1
<1> QED BY <1>2 DEF Sent, WorkerType, Messages

(* What a worker may become by a step of its own. *)
LEMMA WorkerActs ==
  ASSUME Inv, NEW w \in DOMAIN workers,
         \/ Boot(w) \/ Progress(w) \/ Finish(w) \/ Uncaught(w) \/ Terminate(w)
         \/ Leave(w) \/ Crash(w)
  PROVE  Inv'
<1> DEFINE x == workers[w]
<1>1. x \in WorkerType
  BY DEF Inv, Types
<1>2. SUFFICES ASSUME x.proc # "reaped" => Current(w)
               PROVE  Inv'
  BY DEF Current
<1>3. CASE Boot(w)
  <2> DEFINE y == [x EXCEPT !.proc = "up", !.analyzing = TRUE]
  <2>1. y \in WorkerType /\ y.job = x.job /\ x.proc # "reaped"
    BY <1>1, <1>3 DEF WorkerType, Boot
  <2>2. WorkerStep(w, y)
    BY <1>3 DEF Boot
  <2> QED BY <1>2, <2>1, <2>2, KeptByWorker
<1>4. CASE Progress(w)
  <2>1. Sent(x, "progress") \in WorkerType /\ Sent(x, "progress").job = x.job /\ x.proc # "reaped"
    BY <1>1, <1>4, SentTyped DEF Messages, Progress
  <2>2. WorkerStep(w, Sent(x, "progress"))
    BY <1>4 DEF Progress
  <2> QED BY <1>2, <2>1, <2>2, KeptByWorker
<1>5. CASE Finish(w)
  <2> DEFINE y == [x EXCEPT !.analyzing = FALSE, !.leaving = TRUE]
  <2>1. y \in WorkerType /\ y.job = x.job /\ x.proc # "reaped"
    BY <1>1, <1>5 DEF WorkerType, Finish
  <2>2. WorkerStep(w, Sent(y, "complete")) \/ WorkerStep(w, Sent(y, "error"))
    BY <1>5 DEF Finish
  <2> HIDE DEF y
  <2>3. PICK message \in Messages : WorkerStep(w, Sent(y, message))
    BY <2>2 DEF Messages
  <2>4. Sent(y, message) \in WorkerType /\ Sent(y, message).job = x.job
    BY <2>1, SentTyped
  <2> QED BY <1>2, <2>1, <2>3, <2>4, KeptByWorker
<1>6. CASE Uncaught(w)
  <2> DEFINE y == [x EXCEPT !.leaving = TRUE]
  <2>1. y \in WorkerType /\ y.job = x.job /\ x.proc # "reaped"
    BY <1>1, <1>6 DEF WorkerType, Uncaught
  <2>2. WorkerStep(w, Sent(y, "error"))
    BY <1>6 DEF Uncaught
  <2> HIDE DEF y
  <2>3. Sent(y, "error") \in WorkerType /\ Sent(y, "error").job = x.job
    BY <2>1, SentTyped DEF Messages
  <2> QED BY <1>2, <2>1, <2>2, <2>3, KeptByWorker
<1>7. CASE Terminate(w)
  <2> DEFINE y == [x EXCEPT !.signal = FALSE]
             z == [y EXCEPT !.proc = "gone"]
             u == [y EXCEPT !.leaving = TRUE]
  <2>1. y \in WorkerType /\ y.job = x.job /\ y.proc = x.proc
    BY <1>1 DEF WorkerType
  <2>2. \/ y.proc = "boot" /\ WorkerStep(w, z)
        \/ y.proc = "up" /\ WorkerStep(w, Sent(u, "error"))
    BY <1>7 DEF Terminate
  <2> HIDE DEF y
  <2>3. z \in WorkerType /\ z.job = x.job /\ u \in WorkerType /\ u.job = x.job
    BY <2>1 DEF WorkerType
  <2> HIDE DEF z, u
  <2>4. Sent(u, "error") \in WorkerType /\ Sent(u, "error").job = x.job
    BY <2>3, SentTyped DEF Messages
  <2>5. x.proc # "reaped"
    BY <2>1, <2>2
  <2>6. CASE WorkerStep(w, z)
    BY <1>2, <2>3, <2>5, <2>6, KeptByWorker
  <2>7. CASE WorkerStep(w, Sent(u, "error"))
    BY <1>2, <2>4, <2>5, <2>7, KeptByWorker
  <2> QED BY <2>2, <2>6, <2>7
<1>8. CASE Leave(w) \/ Crash(w)
  <2> DEFINE y == [x EXCEPT !.proc = "gone", !.analyzing = FALSE, !.signal = FALSE]
  <2>1. y \in WorkerType /\ y.job = x.job /\ x.proc # "reaped"
    BY <1>1, <1>8 DEF WorkerType, Leave, Crash
  <2>2. WorkerStep(w, y)
    BY <1>8 DEF Leave, Crash, Gone
  <2> QED BY <1>2, <2>1, <2>2, KeptByWorker
<1> QED BY <1>3, <1>4, <1>5, <1>6, <1>7, <1>8

-----------------------------------------------------------------------------
(* The invariant: what the server does about its workers *)

(* A callback that reads something of worker w and gives its job a status, or none. *)
LEMMA CallbackKeeps ==
  ASSUME Inv, NEW w \in DOMAIN workers, NEW x \in WorkerType,
         x.job = workers[w].job, x.proc # "reaped" => Current(w),
         workers' = [workers EXCEPT ![w] = x],
         \/ UNCHANGED jobs
         \/ \E status \in Statuses : jobs' = [jobs EXCEPT ![workers[w].job].status = status],
         locks' \subseteq locks, UNCHANGED <<embedVars, deleting>>
  PROVE  Inv'
<1>1. Types /\ workers[w].job \in DOMAIN jobs /\ locks' \subseteq Repos
  BY DEF Inv, Types
<1>2. WorkersKept
  BY <1>1, WorkerSet
<1>3. CASE UNCHANGED jobs
  BY <1>1, <1>2, <1>3, JobsSame, KeptByJobs
<1>4. ASSUME NEW status \in Statuses, jobs' = [jobs EXCEPT ![workers[w].job].status = status]
      PROVE  Inv'
  <2>1. JobsKept
    BY <1>1, <1>4, StatusSet
  <2> QED BY <1>1, <1>2, <2>1, KeptByJobs
<1> QED BY <1>3, <1>4

(* Reading a message keeps the invariant. *)
LEMMA OnMessageKeeps == ASSUME Inv, NEW w \in DOMAIN workers, OnMessage(w) PROVE Inv'
<1> DEFINE j == workers[w].job
           x == [workers[w] EXCEPT !.mail = Tail(@)]
           y == [x EXCEPT !.init = TRUE]
<1>1. workers[w] \in WorkerType /\ workers[w].mail # <<>>
  BY DEF Inv, Types, OnMessage
<1>2. workers[w].mail \in Seq(Messages)
  BY <1>1 DEF WorkerType, Messages
<1>3. Tail(workers[w].mail) \in Seq(Messages)
  BY <1>1, <1>2
<1>4. x \in WorkerType /\ x.job = j /\ x.proc = workers[w].proc
  BY <1>1, <1>3 DEF WorkerType, Messages
<1> HIDE DEF x
<1>5. y \in WorkerType /\ y.job = j /\ y.proc = workers[w].proc
  BY <1>4 DEF WorkerType
<1>6. /\ x.proc # "reaped" => Current(w)
      /\ y.proc # "reaped" => Current(w)
  BY <1>4, <1>5 DEF Current
<1>7. /\ \/ UpdateJob(j, "analyzing") /\ workers' = [workers EXCEPT ![w] = x] /\ UNCHANGED locks
         \/ Release(j) /\ workers' = [workers EXCEPT ![w] = y] /\ UNCHANGED jobs
         \/ Fail(j) /\ workers' = [workers EXCEPT ![w] = x]
      /\ UNCHANGED <<embedVars, deleting>>
  BY DEF OnMessage, x
<1> HIDE DEF y, j
<1>8. /\ \/ workers' = [workers EXCEPT ![w] = x] \/ workers' = [workers EXCEPT ![w] = y]
      /\ \/ UNCHANGED jobs
         \/ \E status \in Statuses : jobs' = [jobs EXCEPT ![j].status = status]
      /\ locks' \subseteq locks /\ UNCHANGED <<embedVars, deleting>>
  BY <1>7 DEF UpdateJob, Release, Fail, Statuses
<1>9. CASE workers' = [workers EXCEPT ![w] = x]
  BY <1>4, <1>6, <1>8, <1>9, CallbackKeeps DEF j
<1>10. CASE workers' = [workers EXCEPT ![w] = y]
  BY <1>5, <1>6, <1>8, <1>10, CallbackKeeps DEF j
<1> QED BY <1>8, <1>9, <1>10

(* So does the end of backend.init. *)
LEMMA InitDoneKeeps == ASSUME Inv, NEW w \in DOMAIN workers, InitDone(w) PROVE Inv'
<1> DEFINE x == [workers[w] EXCEPT !.init = FALSE]
<1>1. workers[w] \in WorkerType /\ workers \in Seq(WorkerType)
  BY DEF Inv, Types
<1>2. x \in WorkerType /\ x.job = workers[w].job /\ (x.proc # "reaped" => Current(w))
  BY <1>1 DEF WorkerType, Current
<1>3. workers' = [workers EXCEPT ![w] = x]
  BY <1>1 DEF InitDone
<1> HIDE DEF x
<1>4. /\ \E status \in Statuses : jobs' = [jobs EXCEPT ![workers[w].job].status = status]
      /\ locks' \subseteq locks /\ UNCHANGED <<embedVars, deleting>>
  BY DEF InitDone, UpdateJob, Statuses
<1> QED BY <1>2, <1>3, <1>4, CallbackKeeps

(* So does the news that a worker could not be started. *)
LEMMA OnErrorKeeps == ASSUME Inv, NEW w \in DOMAIN workers, OnError(w) PROVE Inv'
<1> DEFINE x == [workers[w] EXCEPT !.proc = "reaped"]
<1>1. workers[w] \in WorkerType /\ workers \in Seq(WorkerType)
  BY DEF Inv, Types
<1>2. x \in WorkerType /\ x.job = workers[w].job /\ (x.proc # "reaped" => Current(w))
  BY <1>1 DEF WorkerType, Current
<1>3. workers' = [workers EXCEPT ![w] = x]
  BY <1>1 DEF OnError
<1> HIDE DEF x
<1>4. /\ \E status \in Statuses : jobs' = [jobs EXCEPT ![workers[w].job].status = status]
      /\ locks' \subseteq locks /\ UNCHANGED <<embedVars, deleting>>
  BY DEF OnError, Fail, Release, UpdateJob, Statuses
<1> QED BY <1>2, <1>3, <1>4, CallbackKeeps

(* The worker whose exit is dealt with, and what becomes of its job. *)
LEMMA OnExitCases ==
  ASSUME Inv, NEW w \in DOMAIN workers, OnExit(w)
  PROVE  LET j == workers[w].job
             x == [workers[w] EXCEPT !.proc = "reaped", !.timer = FALSE]
             y == [jobs[j] EXCEPT !.retries = @ + 1, !.status = "analyzing", !.retrying = TRUE]
         IN  /\ x \in WorkerType /\ x.job = j /\ x.proc = "reaped"
             /\ workers' = [workers EXCEPT ![w] = x]
             /\ Current(w) /\ UNCHANGED <<embedVars, deleting>>
             /\ \/ Terminal(jobs[j].status) /\ UNCHANGED <<jobs, locks>>
                \/ /\ ~Terminal(jobs[j].status) /\ UNCHANGED locks
                   /\ jobs[j].retries < MaxRetries
                   /\ y \in JobType /\ jobs' = [jobs EXCEPT ![j] = y]
                \/ ~Terminal(jobs[j].status) /\ GiveUp(j)
<1> DEFINE j == workers[w].job
           x == [workers[w] EXCEPT !.proc = "reaped", !.timer = FALSE]
           y == [jobs[j] EXCEPT !.retries = @ + 1, !.status = "analyzing", !.retrying = TRUE]
<1>1. workers[w] \in WorkerType /\ workers \in Seq(WorkerType) /\ j \in DOMAIN jobs
      /\ jobs \in Seq(JobType) /\ jobs[j] \in JobType
  BY DEF Inv, Types
<1>2. x \in WorkerType /\ x.job = j /\ x.proc = "reaped"
  BY <1>1 DEF WorkerType
<1>3. workers' = [workers EXCEPT ![w] = x] /\ Current(w) /\ UNCHANGED <<embedVars, deleting>>
  BY <1>1 DEF OnExit, Current
<1>4. \/ Terminal(jobs[j].status) /\ UNCHANGED <<jobs, locks>>
      \/ ~Terminal(jobs[j].status) /\ Retry(j)
      \/ ~Terminal(jobs[j].status) /\ GiveUp(j)
  BY DEF OnExit
<1>5. ASSUME jobs[j].retries < MaxRetries PROVE y \in JobType
  <2>1. jobs[j].retries + 1 \in 0..MaxRetries
    BY <1>1, <1>5, ServerJobsConstants DEF JobType
  <2> QED BY <1>1, <2>1 DEF JobType
<1>6. ASSUME Retry(j)
      PROVE  jobs[j].retries < MaxRetries /\ jobs' = [jobs EXCEPT ![j] = y] /\ UNCHANGED locks
  BY <1>1, <1>6 DEF Retry, JobType
<1> QED BY <1>2, <1>3, <1>4, <1>5, <1>6

(* So does the exit of a worker: a retry is due only when no worker is left. *)
LEMMA OnExitKeeps == ASSUME Inv, NEW w \in DOMAIN workers, OnExit(w) PROVE Inv'
<1> DEFINE j == workers[w].job
           x == [workers[w] EXCEPT !.proc = "reaped", !.timer = FALSE]
           y == [jobs[j] EXCEPT !.retries = @ + 1, !.status = "analyzing", !.retrying = TRUE]
<1>1. /\ x \in WorkerType /\ x.job = j /\ x.proc = "reaped"
      /\ workers' = [workers EXCEPT ![w] = x]
      /\ Current(w) /\ UNCHANGED <<embedVars, deleting>>
      /\ \/ UNCHANGED <<jobs, locks>>
         \/ jobs[j].retries < MaxRetries /\ y \in JobType /\ jobs' = [jobs EXCEPT ![j] = y]
            /\ UNCHANGED locks
         \/ GiveUp(j)
  BY OnExitCases
<1>2. Types /\ j \in DOMAIN jobs /\ jobs[j] \in JobType /\ jobs \in Seq(JobType)
  BY DEF Inv, Types
<1>3. y.repo = jobs[j].repo /\ y.cloning = jobs[j].cloning /\ y.retries = jobs[j].retries + 1
      /\ y.retrying
  BY <1>2 DEF JobType
<1> HIDE DEF x, y, j
<1>4. CASE UNCHANGED <<jobs, locks>>
  BY <1>1, <1>4, CallbackKeeps DEF j
<1>5. CASE GiveUp(j)
  <2>1. /\ \E status \in Statuses : jobs' = [jobs EXCEPT ![j].status = status]
        /\ locks' \subseteq locks
    BY <1>5 DEF GiveUp, Fail, Release, UpdateJob, Statuses
  <2> QED BY <1>1, <2>1, CallbackKeeps DEF j
<1>6. CASE /\ jobs[j].retries < MaxRetries /\ y \in JobType /\ jobs' = [jobs EXCEPT ![j] = y]
           /\ UNCHANGED locks
  <2>1. /\ jobs' \in Seq(JobType) /\ Len(jobs') = Len(jobs) /\ DOMAIN jobs' = DOMAIN jobs
        /\ jobs'[j] = y /\ \A i \in DOMAIN jobs : i # j => jobs'[i] = jobs[i]
    BY <1>2, <1>6, Replaced
  <2>2. /\ WorkersKept /\ workers'[w] = x
        /\ \A v \in DOMAIN workers : v # w => workers'[v] = workers[v]
    BY <1>1, <1>2, WorkerSet DEF j
  <2>3. w \in WorkersOf(j) /\ ~Current(w)'
    BY <1>1, <2>2 DEF WorkersOf, Current, j
  <2>4. \A i : WorkersOf(i)' = WorkersOf(i)
    BY <2>2 DEF WorkersOf, WorkersKept
  <2>5. \A v \in WorkersOf(j) : ~Current(v)'
    <3> TAKE v \in WorkersOf(j)
    <3>1. v \in DOMAIN workers /\ workers[v].job = workers[w].job
      BY DEF WorkersOf, j
    <3>2. v # w => ~Current(v)
      BY <1>1, <3>1 DEF Inv, OneCurrent
    <3>3. Current(v)' => Current(v)
      BY <2>2, <3>1 DEF WorkersKept
    <3> QED BY <2>3, <3>2, <3>3
  <2>6. ~jobs[j].cloning
    BY <1>2, <2>3 DEF Inv, NoneDue, DueLast
  <2>7. Types'
    <3>1. \A v \in DOMAIN workers' : workers'[v].job \in DOMAIN jobs'
      BY <1>2, <2>1, <2>2 DEF WorkersKept, Types
    <3> QED BY <1>1, <1>2, <1>6, <2>1, <2>2, <3>1 DEF Types, WorkersKept, embedVars
  <2>8. OneCurrent'
    BY <2>2 DEF OneCurrent, WorkersKept, Inv
  <2>9. NoneDue'
    <3> SUFFICES ASSUME NEW i \in DOMAIN jobs' PROVE DueLast(i)'
      BY DEF NoneDue
    <3>1. CASE i = j
      <4>1. ~jobs'[i].cloning
        BY <1>3, <2>1, <2>6, <3>1
      <4>2. \A v \in WorkersOf(i)' : ~Current(v)'
        BY <2>4, <2>5, <3>1
      <4> QED BY <4>1, <4>2 DEF DueLast
    <3>2. CASE i # j
      <4>1. i \in DOMAIN jobs /\ jobs'[i] = jobs[i] /\ WorkersOf(i)' = WorkersOf(i)
        BY <2>1, <2>4, <3>2
      <4>2. \A v \in WorkersOf(i) : Current(v)' => Current(v)
        BY <2>2 DEF WorkersKept, WorkersOf
      <4>3. DueLast(i)
        BY <4>1 DEF Inv, NoneDue
      <4> QED BY <4>1, <4>2, <4>3 DEF DueLast
    <3> QED BY <3>1, <3>2
  <2>10. Counted'
    <3> SUFFICES ASSUME NEW i \in DOMAIN jobs' PROVE CountedIn(i)'
      BY DEF Counted
    <3>1. WorkersOf(i)' = WorkersOf(i) /\ i \in DOMAIN jobs
      BY <2>1, <2>4
    <3>2. CountedIn(i) /\ Cardinality(WorkersOf(i)) \in Nat /\ jobs[i].retries \in Nat
      BY <1>2, <3>1, WorkersFinite, RetriesNat, ServerJobsConstants DEF Inv, Counted
    <3>3. CASE i = j
      <4>1. jobs'[i].retries = jobs[i].retries + 1
        BY <1>3, <2>1, <3>3
      <4>2. Cardinality(WorkersOf(i)) <= jobs[i].retries + 1
        BY <3>2 DEF CountedIn
      <4> QED BY <3>1, <3>2, <4>1, <4>2 DEF CountedIn
    <3>4. CASE i # j
      BY <2>1, <3>1, <3>2, <3>4 DEF CountedIn
    <3> QED BY <3>3, <3>4
  <2> QED BY <2>7, <2>8, <2>9, <2>10 DEF Inv
<1> QED BY <1>1, <1>4, <1>5, <1>6

-----------------------------------------------------------------------------
(* The invariant: embeddings and deletions *)

EmbedJobType == [repo : Repos, status : {"analyzing", "complete", "failed"}]
EmbedType == [job : EmbedIds, repo : Repos, running : BOOLEAN, timer : BOOLEAN]

(* The types of the embedding jobs and pipelines, by name. *)
LEMMA EmbedTypes == ASSUME Inv PROVE embeds \in Seq(EmbedType) /\ embedJobs \in Seq(EmbedJobType)
  BY DEF Inv, Types, EmbedType, EmbedJobType

(* Analyze jobs and their workers are not touched, and the types hold. *)
LEMMA KeptByEmbeds ==
  ASSUME Inv, UNCHANGED <<jobs, workers>>,
         embedJobs' \in Seq(EmbedJobType), embeds' \in Seq(EmbedType),
         Len(embeds') <= MaxEmbeds, Len(embedJobs') <= Len(embeds'),
         \A e \in DOMAIN embeds' : embeds'[e].job \in DOMAIN embedJobs',
         deleting' \in [Repos -> Nat], locks' \subseteq Repos
  PROVE  Inv'
<1>1. JobsKept /\ WorkersKept
  BY JobsSame, WorkersSame DEF Inv
<1> QED BY <1>1, KeptInPlace DEF EmbedJobType, EmbedType

(* A request for an embedding keeps the invariant. *)
LEMMA EmbedRequestKeeps == ASSUME Inv, NEW r \in Repos, EmbedRequest(r) PROVE Inv'
<1> DEFINE x == [repo |-> r, status |-> "analyzing"]
<1>1. /\ embedJobs \in Seq(EmbedJobType) /\ embeds \in Seq(EmbedType)
      /\ Len(embeds) <= MaxEmbeds /\ Len(embedJobs) <= Len(embeds)
      /\ (\A e \in DOMAIN embeds : embeds[e].job \in DOMAIN embedJobs)
      /\ deleting \in [Repos -> Nat] /\ locks \subseteq Repos
  BY DEF Inv, Types, EmbedJobType, EmbedType
<1>2. /\ UNCHANGED <<jobs, workers, deleting>>
      /\ locks' = locks \cup {r}
      /\ \/ /\ Len(embeds) < MaxEmbeds
            /\ embedJobs' = Append(embedJobs, x)
            /\ embeds' = Append(embeds, Pipeline(Len(embedJobs) + 1, r))
         \/ \E k \in DOMAIN embedJobs :
              /\ Len(embeds) < MaxEmbeds
              /\ embeds' = Append(embeds, Pipeline(k, r))
              /\ UNCHANGED embedJobs
         \/ UNCHANGED embedVars
  BY DEF EmbedRequest, ActiveEmbeds
<1>3. x \in EmbedJobType
  BY DEF EmbedJobType
<1> HIDE DEF x
<1>4. \A k \in EmbedIds : Pipeline(k, r) \in EmbedType /\ Pipeline(k, r).job = k
  BY DEF Pipeline, EmbedType
<1>5. locks' \subseteq Repos
  BY <1>1, <1>2
<1>6. CASE /\ Len(embeds) < MaxEmbeds
           /\ embedJobs' = Append(embedJobs, x)
           /\ embeds' = Append(embeds, Pipeline(Len(embedJobs) + 1, r))
  <2> DEFINE k == Len(embedJobs) + 1
             p == Pipeline(k, r)
  <2>1. k \in EmbedIds
    BY <1>1, <1>6, ServerJobsConstants DEF EmbedIds
  <2>2. p \in EmbedType /\ p.job = k
    BY <1>4, <2>1
  <2> HIDE DEF p
  <2>3. /\ embedJobs' \in Seq(EmbedJobType) /\ Len(embedJobs') = Len(embedJobs) + 1
        /\ DOMAIN embedJobs' = DOMAIN embedJobs \cup {k}
    BY <1>1, <1>3, <1>6, Appended
  <2>4. embeds' = Append(embeds, p)
    BY <1>6 DEF p
  <2>5. /\ embeds' \in Seq(EmbedType) /\ Len(embeds') = Len(embeds) + 1
        /\ DOMAIN embeds' = DOMAIN embeds \cup {Len(embeds) + 1}
        /\ embeds'[Len(embeds) + 1] = p
        /\ \A e \in DOMAIN embeds : embeds'[e] = embeds[e]
    BY <1>1, <2>2, <2>4, Appended
  <2>6. Len(embeds') <= MaxEmbeds /\ Len(embedJobs') <= Len(embeds')
    BY <1>1, <1>6, <2>3, <2>5, ServerJobsConstants
  <2> HIDE DEF k
  <2>7. \A e \in DOMAIN embeds' : embeds'[e].job \in DOMAIN embedJobs'
    BY <1>1, <2>2, <2>3, <2>5
  <2> QED BY <1>1, <1>2, <1>5, <2>3, <2>5, <2>6, <2>7, KeptByEmbeds
<1>7. ASSUME NEW k \in DOMAIN embedJobs, Len(embeds) < MaxEmbeds,
             embeds' = Append(embeds, Pipeline(k, r)), UNCHANGED embedJobs
      PROVE  Inv'
  <2> DEFINE p == Pipeline(k, r)
  <2>1. k \in EmbedIds
    BY <1>1, <1>7, ServerJobsConstants DEF EmbedIds
  <2>2. p \in EmbedType /\ p.job = k
    BY <1>4, <2>1
  <2> HIDE DEF p
  <2>3. embeds' = Append(embeds, p)
    BY <1>7 DEF p
  <2>4. /\ embeds' \in Seq(EmbedType) /\ Len(embeds') = Len(embeds) + 1
        /\ DOMAIN embeds' = DOMAIN embeds \cup {Len(embeds) + 1}
        /\ embeds'[Len(embeds) + 1] = p
        /\ \A e \in DOMAIN embeds : embeds'[e] = embeds[e]
    BY <1>1, <2>2, <2>3, Appended
  <2>5. Len(embeds') <= MaxEmbeds /\ Len(embedJobs') <= Len(embeds')
    BY <1>1, <1>7, <2>4, ServerJobsConstants
  <2>6. \A e \in DOMAIN embeds' : embeds'[e].job \in DOMAIN embedJobs'
    BY <1>1, <1>7, <2>2, <2>4
  <2> QED BY <1>1, <1>2, <1>5, <1>7, <2>4, <2>5, <2>6, KeptByEmbeds
<1>8. CASE UNCHANGED embedVars
  BY <1>1, <1>2, <1>5, <1>8, KeptByEmbeds DEF embedVars
<1> QED BY <1>2, <1>6, <1>7, <1>8

(* One embedding job changes its status. *)
LEMMA EmbedStatusSet ==
  ASSUME Inv, NEW k \in DOMAIN embedJobs, NEW status \in {"analyzing", "complete", "failed"},
         embedJobs' = [embedJobs EXCEPT ![k].status = status]
  PROVE  embedJobs' \in Seq(EmbedJobType) /\ Len(embedJobs') = Len(embedJobs)
         /\ DOMAIN embedJobs' = DOMAIN embedJobs
         /\ embedJobs'[k].status = status
         /\ \A i \in DOMAIN embedJobs : i # k => embedJobs'[i] = embedJobs[i]
<1> DEFINE x == [embedJobs[k] EXCEPT !.status = status]
<1>0. embedJobs \in Seq(EmbedJobType)
  BY DEF Inv, Types, EmbedJobType
<1>1. embedJobs \in Seq(EmbedJobType) /\ embedJobs[k] \in EmbedJobType
  BY <1>0
<1>2. x \in EmbedJobType /\ x.status = status
  BY <1>1 DEF EmbedJobType
<1>3. embedJobs' = [embedJobs EXCEPT ![k] = x]
  OBVIOUS
<1> HIDE DEF x
<1> QED BY <1>1, <1>2, <1>3, Replaced

(* One pipeline changes, and belongs to the same job. *)
LEMMA PipelineSet ==
  ASSUME Inv, NEW e \in DOMAIN embeds, NEW x \in EmbedType, x.job = embeds[e].job,
         embeds' = [embeds EXCEPT ![e] = x]
  PROVE  /\ embeds' \in Seq(EmbedType) /\ Len(embeds') = Len(embeds)
         /\ DOMAIN embeds' = DOMAIN embeds
         /\ embeds'[e] = x /\ \A d \in DOMAIN embeds : d # e => embeds'[d] = embeds[d]
         /\ \A d \in DOMAIN embeds : embeds'[d].job = embeds[d].job
<1>1. embeds \in Seq(EmbedType)
  BY DEF Inv, Types, EmbedType
<1>2. /\ embeds' \in Seq(EmbedType) /\ Len(embeds') = Len(embeds)
      /\ DOMAIN embeds' = DOMAIN embeds
      /\ embeds'[e] = x /\ \A d \in DOMAIN embeds : d # e => embeds'[d] = embeds[d]
  BY <1>1, Replaced
<1> QED BY <1>2

(* Pipelines end or lose their timer, and their jobs get a status. *)
LEMMA EmbedsKeep ==
  ASSUME Inv, UNCHANGED <<jobs, workers, deleting>>, locks' \subseteq locks,
         embedJobs' \in Seq(EmbedJobType), Len(embedJobs') = Len(embedJobs),
         embeds' \in Seq(EmbedType), Len(embeds') = Len(embeds),
         \A d \in DOMAIN embeds : embeds'[d].job = embeds[d].job
  PROVE  Inv'
<1>1. Len(embeds) <= MaxEmbeds /\ Len(embedJobs) <= Len(embeds)
      /\ (\A e \in DOMAIN embeds : embeds[e].job \in DOMAIN embedJobs)
      /\ deleting \in [Repos -> Nat] /\ locks \subseteq Repos
      /\ embedJobs \in Seq(EmbedJobType) /\ embeds \in Seq(EmbedType)
  BY DEF Inv, Types, EmbedJobType, EmbedType
<1>2. DOMAIN embeds' = DOMAIN embeds /\ DOMAIN embedJobs' = DOMAIN embedJobs
  BY <1>1
<1>3. \A e \in DOMAIN embeds' : embeds'[e].job \in DOMAIN embedJobs'
  BY <1>1, <1>2
<1>4. Len(embeds') <= MaxEmbeds /\ Len(embedJobs') <= Len(embeds') /\ locks' \subseteq Repos
      /\ deleting' \in [Repos -> Nat]
  BY <1>1
<1> QED BY <1>3, <1>4, KeptByEmbeds

(* So does the end of a pipeline. *)
LEMMA EmbedEndsKeeps == ASSUME Inv, NEW e \in DOMAIN embeds, EmbedEnds(e) PROVE Inv'
<1> DEFINE x == [embeds[e] EXCEPT !.running = FALSE, !.timer = FALSE]
           k == embeds[e].job
<1>0. k \in DOMAIN embedJobs
  BY DEF Inv, Types
<1>1. embeds \in Seq(EmbedType) /\ embeds[e] \in EmbedType /\ k \in DOMAIN embedJobs
      /\ embedJobs \in Seq(EmbedJobType) /\ embedJobs[k] \in EmbedJobType
  BY <1>0, EmbedTypes
<1>2. x \in EmbedType /\ x.job = embeds[e].job
  BY <1>1 DEF EmbedType
<1>3. embeds' = [embeds EXCEPT ![e] = x]
  BY <1>1 DEF EmbedEnds, EmbedType
<1> HIDE DEF x
<1>4. embeds' \in Seq(EmbedType) /\ Len(embeds') = Len(embeds)
      /\ \A d \in DOMAIN embeds : embeds'[d].job = embeds[d].job
  BY <1>2, <1>3, PipelineSet
<1>5. PICK status \in {"complete", "failed"} : EmbedResult(k, status)
  BY DEF EmbedEnds
<1> DEFINE s == IF embedJobs[k].status = "failed" THEN embedJobs[k].status ELSE status
<1>6. embedJobs' = [embedJobs EXCEPT ![k].status = s]
  BY <1>5 DEF EmbedResult
<1>7. s \in {"analyzing", "complete", "failed"}
  BY <1>1 DEF EmbedJobType
<1> HIDE DEF s, k
<1>8. embedJobs' \in Seq(EmbedJobType) /\ Len(embedJobs') = Len(embedJobs)
  BY <1>1, <1>6, <1>7, EmbedStatusSet
<1>9. UNCHANGED <<jobs, workers, deleting>> /\ locks' \subseteq locks
  BY DEF EmbedEnds
<1> QED BY <1>4, <1>8, <1>9, EmbedsKeep

(* So does the limit of a pipeline. *)
LEMMA EmbedTimeoutKeeps == ASSUME Inv, NEW e \in DOMAIN embeds, EmbedTimeout(e) PROVE Inv'
<1> DEFINE x == [embeds[e] EXCEPT !.timer = FALSE]
           k == embeds[e].job
<1>0. k \in DOMAIN embedJobs
  BY DEF Inv, Types
<1>1. embeds \in Seq(EmbedType) /\ embeds[e] \in EmbedType /\ k \in DOMAIN embedJobs
      /\ embedJobs \in Seq(EmbedJobType)
  BY <1>0, EmbedTypes
<1>2. x \in EmbedType /\ x.job = embeds[e].job
  BY <1>1 DEF EmbedType
<1>3. embeds' = [embeds EXCEPT ![e] = x]
  BY <1>1 DEF EmbedTimeout
<1> HIDE DEF x
<1>4. embeds' \in Seq(EmbedType) /\ Len(embeds') = Len(embeds)
      /\ \A d \in DOMAIN embeds : embeds'[d].job = embeds[d].job
  BY <1>2, <1>3, PipelineSet
<1>5. \/ UNCHANGED embedJobs \/ embedJobs' = [embedJobs EXCEPT ![k].status = "failed"]
  BY DEF EmbedTimeout
<1>6. UNCHANGED <<jobs, workers, deleting>> /\ locks' \subseteq locks
  BY DEF EmbedTimeout
<1> HIDE DEF k
<1>7. CASE UNCHANGED embedJobs
  BY <1>1, <1>4, <1>6, <1>7, EmbedsKeep
<1>8. CASE embedJobs' = [embedJobs EXCEPT ![k].status = "failed"]
  <2>1. embedJobs' \in Seq(EmbedJobType) /\ Len(embedJobs') = Len(embedJobs)
    BY <1>1, <1>8, EmbedStatusSet
  <2> QED BY <1>4, <1>6, <2>1, EmbedsKeep
<1> QED BY <1>5, <1>7, <1>8

(* So does cancelling an embedding job. *)
LEMMA CancelEmbedKeeps == ASSUME Inv, NEW k \in DOMAIN embedJobs, CancelEmbed(k) PROVE Inv'
<1>1. embedJobs' = [embedJobs EXCEPT ![k].status = "failed"]
      /\ UNCHANGED <<jobs, workers, embeds, deleting, locks>>
  BY DEF CancelEmbed
<1>2. embedJobs' \in Seq(EmbedJobType) /\ Len(embedJobs') = Len(embedJobs)
  BY <1>1, EmbedStatusSet
<1>3. embeds \in Seq(EmbedType)
  BY DEF Inv, Types, EmbedType
<1> QED BY <1>1, <1>2, <1>3, EmbedsKeep

(* So do the start and the end of a deletion. *)
LEMMA DeletionsKeep ==
  ASSUME Inv, NEW r \in Repos, DeleteRepo(r) \/ RepoDeleted(r) PROVE Inv'
<1>1. deleting \in [Repos -> Nat] /\ locks \subseteq Repos
      /\ embedJobs \in Seq(EmbedJobType) /\ embeds \in Seq(EmbedType)
      /\ Len(embeds) <= MaxEmbeds /\ Len(embedJobs) <= Len(embeds)
      /\ \A e \in DOMAIN embeds : embeds[e].job \in DOMAIN embedJobs
  BY DEF Inv, Types, EmbedType, EmbedJobType
<1>2. UNCHANGED <<jobs, workers, embedVars>> /\ locks' \subseteq Repos
  BY <1>1 DEF DeleteRepo, RepoDeleted
<1>3. deleting' \in [Repos -> Nat]
  <2>1. CASE DeleteRepo(r)
    BY <1>1, <2>1 DEF DeleteRepo
  <2>2. CASE RepoDeleted(r)
    <3>1. deleting[r] \in Nat /\ deleting[r] > 0
      BY <1>1, <2>2 DEF RepoDeleted
    <3>2. deleting[r] - 1 \in Nat
      BY <3>1
    <3> QED BY <1>1, <2>2, <3>2 DEF RepoDeleted
  <2> QED BY <2>1, <2>2
<1> QED BY <1>1, <1>2, <1>3, KeptByEmbeds DEF embedVars

-----------------------------------------------------------------------------

(* The invariant holds at the start. *)
LEMMA InitInv == Init => Inv
<1> SUFFICES ASSUME Init PROVE Inv
  OBVIOUS
<1>1. Types
  BY ServerJobsConstants DEF Init, Types
<1>2. OneCurrent /\ NoneDue /\ Counted
  BY DEF Init, OneCurrent, NoneDue, Counted
<1> QED BY <1>1, <1>2 DEF Inv

(* Every step keeps it. *)
LEMMA NextInv == Inv /\ [Next]_vars => Inv'
<1> SUFFICES ASSUME Inv, [Next]_vars PROVE Inv'
  OBVIOUS
<1>1. ASSUME NEW r \in Repos,
             CreateJob(r) \/ EmbedRequest(r) \/ DeleteRepo(r) \/ RepoDeleted(r)
      PROVE  Inv'
  BY <1>1, CreateJobKeeps, EmbedRequestKeeps, DeletionsKeep
<1>2. ASSUME NEW j \in DOMAIN jobs, CloneDone(j) \/ CloneFails(j) \/ RetryFork(j) \/ CancelJob(j)
      PROVE  Inv'
  BY <1>2, CloneDoneKeeps, CloneFailsKeeps, RetryForkKeeps, CancelJobKeeps
<1>3. ASSUME NEW w \in DOMAIN workers,
             \/ Boot(w) \/ Progress(w) \/ Finish(w) \/ Uncaught(w) \/ Terminate(w)
             \/ Leave(w) \/ Crash(w)
             \/ TimerFires(w) \/ OnMessage(w) \/ InitDone(w) \/ OnError(w) \/ OnExit(w)
      PROVE  Inv'
  BY <1>3, WorkerActs, TimerFiresKeeps, OnMessageKeeps, InitDoneKeeps, OnErrorKeeps, OnExitKeeps
<1>4. ASSUME NEW e \in DOMAIN embeds, EmbedEnds(e) \/ EmbedTimeout(e) PROVE Inv'
  BY <1>4, EmbedEndsKeeps, EmbedTimeoutKeeps
<1>5. ASSUME NEW k \in DOMAIN embedJobs, CancelEmbed(k) PROVE Inv'
  BY <1>5, CancelEmbedKeeps
<1>6. CASE UNCHANGED vars
  BY <1>6, JobsSame, WorkersSame, KeptByJobs DEF vars, embedVars, Inv, Types
<1> QED BY <1>1, <1>2, <1>3, <1>4, <1>5, <1>6 DEF Next

(* Whatever happens, the types hold, a job has one worker at a time, a job whose
   clone or retry is under way has none, and the workers of a job are the ones its
   retries account for. *)
THEOREM JobsInvariant == Spec => []Inv
  BY InitInv, NextInv, PTL DEF Spec

-----------------------------------------------------------------------------
(* What follows from the invariant *)

(* A job never has two processes, and no more workers than it may be tried. *)
LEMMA InvOneWorker == Inv => OneWorkerPerJob
<1> SUFFICES ASSUME Inv PROVE OneWorkerPerJob
  OBVIOUS
<1>1. ASSUME NEW v \in DOMAIN workers, NEW w \in DOMAIN workers,
             workers[v].job = workers[w].job,
             {workers[v].proc, workers[w].proc} \subseteq {"boot", "up"}
      PROVE  v = w
  BY <1>1 DEF Inv, OneCurrent, Current
<1>2. ASSUME NEW j \in DOMAIN jobs
      PROVE  Cardinality(WorkersOf(j)) <= MaxRetries + 1
  <2>1. CountedIn(j) /\ Cardinality(WorkersOf(j)) \in Nat /\ jobs[j].retries \in 0..MaxRetries
    BY WorkersFinite, RetriesNat DEF Inv, Counted
  <2> QED BY <2>1, ServerJobsConstants DEF CountedIn
<1> QED BY <1>1, <1>2 DEF OneWorkerPerJob, WorkersOf

(* A job never has two processes, whatever comes late, and forks at most
   MaxRetries + 1 workers. *)
THEOREM OneWorker == Spec => []OneWorkerPerJob
  BY JobsInvariant, InvOneWorker, PTL

(* The numbers from 1 to n are n. *)
LEMMA CountFromOne == ASSUME NEW n \in Nat PROVE IsFiniteSet(1..n) /\ Cardinality(1..n) = n
<1>1. IsFiniteSet(1..n) /\ Cardinality(1..n) = IF 1 > n THEN 0 ELSE n - 1 + 1
  BY FS_Interval
<1> QED BY <1>1

(* A set whose elements are told by two of their traits is no larger than their
   product. *)
LEMMA InjectedPairs ==
  ASSUME NEW S, NEW A, NEW B, NEW g, NEW h, IsFiniteSet(A), IsFiniteSet(B),
         \A w \in S : g[w] \in A /\ h[w] \in B,
         \A v, w \in S : g[v] = g[w] /\ h[v] = h[w] => v = w
  PROVE  IsFiniteSet(S) /\ Cardinality(S) <= Cardinality(A) * Cardinality(B)
<1> DEFINE f == [w \in S |-> <<g[w], h[w]>>]
<1>1. f \in [S -> A \X B]
  OBVIOUS
<1>2. \A v, w \in S : f[v] = f[w] => v = w
  OBVIOUS
<1> HIDE DEF f
<1>3. f \in Injection(S, A \X B)
  BY <1>1, <1>2, Fun_IsInj
<1>4. IsFiniteSet(A \X B) /\ Cardinality(A \X B) = Cardinality(A) * Cardinality(B)
  BY FS_Product
<1> QED BY <1>3, <1>4, FS_Injection

(* Multiplication is monotonic. *)
LEMMA TimesLe ==
  ASSUME NEW a \in Nat, NEW b \in Nat, NEW c \in Nat, a <= b
  PROVE  a * c <= b * c /\ a * c \in Nat /\ b * c \in Nat
<1>1. b - a \in Nat /\ (b - a) * c \in Nat
  OBVIOUS
<1>2. b * c = a * c + (b - a) * c
  OBVIOUS
<1>3. a * c \in Nat /\ b * c \in Nat
  OBVIOUS
<1> QED BY <1>1, <1>2, <1>3

(* The sum of the workers of all jobs: a worker is told by its job and by how many
   workers the job had before it. *)
LEMMA WorkersBounded ==
  ASSUME Inv PROVE Len(workers) <= MaxJobs * (MaxRetries + 1)
<1> DEFINE Before(w) == {v \in WorkersOf(workers[w].job) : v < w}
           Ranks == 0..MaxRetries
           rank == [w \in DOMAIN workers |-> Cardinality(Before(w))]
           job == [w \in DOMAIN workers |-> workers[w].job]
<1>1. DOMAIN workers = 1..Len(workers) /\ Len(workers) \in Nat /\ DOMAIN jobs = 1..Len(jobs)
      /\ Len(jobs) \in Nat /\ Len(jobs) <= MaxJobs
      /\ \A w \in DOMAIN workers : workers[w].job \in DOMAIN jobs
  BY DEF Inv, Types
<1>2. ASSUME NEW w \in DOMAIN workers
      PROVE  /\ IsFiniteSet(Before(w)) /\ Cardinality(Before(w)) \in Ranks
             /\ IsFiniteSet(Before(w) \cup {w})
             /\ Cardinality(Before(w) \cup {w}) = Cardinality(Before(w)) + 1
  <2> DEFINE j == workers[w].job
             b == Before(w)
  <2>1. j \in DOMAIN jobs /\ IsFiniteSet(WorkersOf(j))
    BY <1>1, WorkersFinite DEF Inv
  <2>2. Cardinality(WorkersOf(j)) <= MaxRetries + 1 /\ Cardinality(WorkersOf(j)) \in Nat
    BY <2>1, InvOneWorker, WorkersFinite DEF OneWorkerPerJob, WorkersOf, Inv
  <2>3. b \subseteq WorkersOf(j) /\ b \cup {w} \subseteq WorkersOf(j) /\ w \notin b
    BY <1>1 DEF WorkersOf
  <2> HIDE DEF b
  <2>4. IsFiniteSet(b) /\ IsFiniteSet(b \cup {w})
        /\ Cardinality(b \cup {w}) <= Cardinality(WorkersOf(j))
    BY <2>1, <2>3, FS_Subset
  <2>5. Cardinality(b \cup {w}) = Cardinality(b) + 1 /\ Cardinality(b) \in Nat
    BY <2>3, <2>4, FS_AddElement, FS_CardinalityType
  <2>6. Cardinality(b) \in Ranks
    BY <2>2, <2>4, <2>5, ServerJobsConstants
  <2> QED BY <2>4, <2>5, <2>6 DEF b
<1>3. ASSUME NEW v \in DOMAIN workers, NEW w \in DOMAIN workers,
             workers[v].job = workers[w].job, v < w
      PROVE  Cardinality(Before(v)) < Cardinality(Before(w))
  <2> DEFINE b == Before(v)
             c == Before(w)
  <2>1. b \cup {v} \subseteq c
    BY <1>1, <1>3 DEF WorkersOf
  <2>2. /\ IsFiniteSet(b) /\ IsFiniteSet(c) /\ Cardinality(b) \in Ranks
        /\ Cardinality(c) \in Ranks /\ Cardinality(b \cup {v}) = Cardinality(b) + 1
    BY <1>2
  <2> HIDE DEF b, c
  <2>3. Cardinality(b \cup {v}) <= Cardinality(c)
    BY <2>1, <2>2, FS_Subset
  <2>4. Cardinality(b) < Cardinality(c)
    BY <2>2, <2>3, ServerJobsConstants
  <2> QED BY <2>4 DEF b, c
<1>4. ASSUME NEW w \in DOMAIN workers PROVE rank[w] \in Ranks
  BY <1>2
<1>5. ASSUME NEW v \in DOMAIN workers, NEW w \in DOMAIN workers,
             workers[v].job = workers[w].job, v < w
      PROVE  rank[v] < rank[w]
  BY <1>3, <1>5
<1> HIDE DEF rank
<1>6. \A w \in DOMAIN workers : job[w] \in DOMAIN jobs /\ rank[w] \in Ranks
  BY <1>1, <1>4
<1>7. \A v, w \in DOMAIN workers : job[v] = job[w] /\ rank[v] = rank[w] => v = w
  <2> SUFFICES ASSUME NEW v \in DOMAIN workers, NEW w \in DOMAIN workers,
                      job[v] = job[w], rank[v] = rank[w]
               PROVE  v = w
    OBVIOUS
  <2>1. rank[v] \in Int /\ rank[w] \in Int
    BY <1>4, ServerJobsConstants
  <2>2. ~(v < w) /\ ~(w < v)
    BY <1>5, <2>1
  <2> QED BY <1>1, <2>2
<1>8. /\ Cardinality(DOMAIN workers) = Len(workers)
      /\ IsFiniteSet(DOMAIN jobs) /\ Cardinality(DOMAIN jobs) = Len(jobs)
      /\ IsFiniteSet(Ranks) /\ Cardinality(Ranks) = MaxRetries + 1
  <2>1. Cardinality(DOMAIN workers) = Len(workers)
    BY <1>1, CountFromOne
  <2>2. IsFiniteSet(DOMAIN jobs) /\ Cardinality(DOMAIN jobs) = Len(jobs)
    BY <1>1, CountFromOne
  <2>3. IsFiniteSet(Ranks) /\ Cardinality(Ranks) = IF 0 > MaxRetries THEN 0 ELSE MaxRetries - 0 + 1
    BY FS_Interval, ServerJobsConstants
  <2> QED BY <2>1, <2>2, <2>3, ServerJobsConstants
<1>9. Len(workers) <= Len(jobs) * (MaxRetries + 1)
  <2> DEFINE W == DOMAIN workers
             J == DOMAIN jobs
  <2>1. /\ \A w \in W : job[w] \in J /\ rank[w] \in Ranks
        /\ \A v, w \in W : job[v] = job[w] /\ rank[v] = rank[w] => v = w
        /\ Cardinality(W) = Len(workers)
        /\ IsFiniteSet(J) /\ Cardinality(J) = Len(jobs)
        /\ IsFiniteSet(Ranks) /\ Cardinality(Ranks) = MaxRetries + 1
    BY <1>6, <1>7, <1>8
  <2> HIDE DEF W, J, job, Ranks
  <2>2. Cardinality(W) <= Cardinality(J) * Cardinality(Ranks)
    BY <2>1, InjectedPairs
  <2> QED BY <2>1, <2>2
<1>10. Len(jobs) * (MaxRetries + 1) <= MaxJobs * (MaxRetries + 1)
       /\ Len(jobs) * (MaxRetries + 1) \in Nat /\ MaxJobs * (MaxRetries + 1) \in Nat
  BY <1>1, ServerJobsConstants, TimesLe
<1> QED BY <1>1, <1>9, <1>10

(* Jobs, workers and pipelines are what their records say, and no more workers are
   started than the retries of all jobs allow for. *)
THEOREM JobTypes == Spec => []TypeOK
<1>1. Inv => TypeOK
  BY WorkersBounded DEF Inv, Types, TypeOK
<1> QED BY <1>1, JobsInvariant, PTL

-----------------------------------------------------------------------------
(* What a failed embedding stays *)

(* The statuses of the embedding jobs change one at a time, and not from "failed". *)
LEMMA FailedStays ==
  ASSUME Inv, [Next]_vars
  PROVE  \A k \in DOMAIN embedJobs :
           embedJobs[k].status = "failed" => embedJobs'[k].status = "failed"
<1> SUFFICES ASSUME NEW k \in DOMAIN embedJobs, embedJobs[k].status = "failed"
             PROVE  embedJobs'[k].status = "failed"
  OBVIOUS
<1>1. embedJobs \in Seq(EmbedJobType) /\ embeds \in Seq(EmbedType)
      /\ \A e \in DOMAIN embeds : embeds[e].job \in DOMAIN embedJobs
  BY EmbedTypes DEF Inv, Types
<1>2. ASSUME NEW i \in DOMAIN embedJobs, NEW status \in {"analyzing", "complete", "failed"},
             embedJobs' = [embedJobs EXCEPT ![i].status = status],
             i = k => status = "failed"
      PROVE  embedJobs'[k].status = "failed"
  BY <1>2, EmbedStatusSet
<1>3. CASE UNCHANGED embedJobs
  BY <1>3
<1>4. ASSUME NEW r \in Repos, EmbedRequest(r)
      PROVE  embedJobs'[k].status = "failed"
  <2> DEFINE x == [repo |-> r, status |-> "analyzing"]
  <2>1. x \in EmbedJobType
    BY DEF EmbedJobType
  <2>2. UNCHANGED embedJobs \/ embedJobs' = Append(embedJobs, x)
    BY <1>4 DEF EmbedRequest, embedVars
  <2> HIDE DEF x
  <2>3. CASE embedJobs' = Append(embedJobs, x)
    <3>1. embedJobs'[k] = embedJobs[k]
      BY <1>1, <2>1, <2>3, Appended
    <3> QED BY <3>1
  <2> QED BY <1>3, <2>2, <2>3
<1>5. ASSUME NEW e \in DOMAIN embeds, EmbedEnds(e)
      PROVE  embedJobs'[k].status = "failed"
  <2> DEFINE i == embeds[e].job
  <2>1. PICK status \in {"complete", "failed"} : EmbedResult(i, status)
    BY <1>5 DEF EmbedEnds
  <2> DEFINE s == IF embedJobs[i].status = "failed" THEN embedJobs[i].status ELSE status
  <2>2. embedJobs' = [embedJobs EXCEPT ![i].status = s] /\ i \in DOMAIN embedJobs
    BY <1>1, <2>1 DEF EmbedResult
  <2>3. s \in {"analyzing", "complete", "failed"} /\ (i = k => s = "failed")
    OBVIOUS
  <2> HIDE DEF s, i
  <2> QED BY <1>2, <2>2, <2>3
<1>6. ASSUME NEW e \in DOMAIN embeds, EmbedTimeout(e)
      PROVE  embedJobs'[k].status = "failed"
  <2>1. UNCHANGED embedJobs
        \/ embedJobs' = [embedJobs EXCEPT ![embeds[e].job].status = "failed"]
    BY <1>6 DEF EmbedTimeout
  <2> QED BY <1>1, <1>2, <1>3, <2>1
<1>7. ASSUME NEW i \in DOMAIN embedJobs, CancelEmbed(i)
      PROVE  embedJobs'[k].status = "failed"
  BY <1>2, <1>7 DEF CancelEmbed
<1>8. ASSUME NEW r \in Repos, CreateJob(r) \/ DeleteRepo(r) \/ RepoDeleted(r)
      PROVE  UNCHANGED embedJobs
  BY <1>8 DEF CreateJob, DeleteRepo, RepoDeleted, embedVars
<1>9. ASSUME NEW j \in DOMAIN jobs, CloneDone(j) \/ CloneFails(j) \/ RetryFork(j) \/ CancelJob(j)
      PROVE  UNCHANGED embedJobs
  BY <1>9 DEF CloneDone, CloneFails, RetryFork, CancelJob, Abort, embedVars
<1>10. ASSUME NEW w \in DOMAIN workers,
              \/ Boot(w) \/ Progress(w) \/ Finish(w) \/ Uncaught(w) \/ Terminate(w)
              \/ Leave(w) \/ Crash(w)
              \/ TimerFires(w) \/ OnMessage(w) \/ InitDone(w) \/ OnError(w) \/ OnExit(w)
       PROVE  UNCHANGED embedJobs
  BY <1>10 DEF Boot, Progress, Finish, Uncaught, Terminate, Leave, Crash, Gone, WorkerStep,
               TimerFires, Abort, OnMessage, InitDone, OnError, OnExit, embedVars
<1>11. CASE UNCHANGED vars
  BY <1>3, <1>11 DEF vars
<1> QED BY <1>3, <1>4, <1>5, <1>6, <1>7, <1>8, <1>9, <1>10, <1>11 DEF Next

(* An embedding job that was cancelled or timed out never completes, whatever its
   pipeline does. *)
THEOREM FailedEmbedsStay == Spec => EmbedFailedStays
<1>1. Inv /\ [Next]_vars
      => [\A k \in DOMAIN embedJobs :
            embedJobs[k].status = "failed" => embedJobs'[k].status = "failed"]_vars
  BY FailedStays
<1> QED BY <1>1, JobsInvariant, PTL DEF Spec, EmbedFailedStays

-----------------------------------------------------------------------------
(* The locks exclude: what a step does to the owners of a lock *)

(* A worker that is done with is as it is, whatever its job becomes. *)
LEMMA ReapedOK ==
  ASSUME Inv, WorkersOK, NEW v \in DOMAIN workers, ~Current(v), workers'[v] = workers[v]
  PROVE  WorkerOK(v)' /\ ~Current(v)' /\ ~Owing(v)'
  BY DEF WorkersOK, WorkerOK, Current, Owing

(* One worker changes, that is not done with, and perhaps its job. *)
LEMMA WorkerChange ==
  ASSUME Inv, Exclusive, NEW w \in DOMAIN workers, NEW j, j = workers[w].job, Current(w),
         WorkersKept, \A v \in DOMAIN workers : v # w => workers'[v] = workers[v],
         DOMAIN jobs' = DOMAIN jobs, \A i \in DOMAIN jobs : i # j => jobs'[i] = jobs[i],
         WorkerOK(w)', jobs'[j].retrying => jobs'[j].status = "analyzing"
  PROVE  /\ WorkersOK' /\ RetriesOK'
         /\ Owners' \ {j} = Owners \ {j}
         /\ j \in Owners' <=> jobs'[j].retrying \/ Owing(w)'
<1>1. j \in DOMAIN jobs /\ workers'[w].job = j /\ DOMAIN workers' = DOMAIN workers
  BY DEF Inv, Types, WorkersKept
<1>2. ASSUME NEW v \in DOMAIN workers, v # w
      PROVE  /\ WorkerOK(v)'
             /\ workers[v].job = j => ~Owing(v)'
             /\ Owing(v)' = Owing(v)
  <2>1. workers'[v] = workers[v]
    BY <1>2
  <2>2. CASE workers[v].job = j
    <3>1. ~Current(v)
      BY <1>2, <2>2 DEF Inv, OneCurrent
    <3> QED BY <2>1, <3>1, ReapedOK DEF Exclusive, Owing, Current
  <2>3. CASE workers[v].job # j
    <3>1. jobs'[workers[v].job] = jobs[workers[v].job]
      BY <2>3 DEF Inv, Types
    <3> QED BY <2>1, <2>3, <3>1 DEF Exclusive, WorkersOK, WorkerOK, Owing, Current
  <2> QED BY <2>2, <2>3
<1>3. WorkersOK'
  BY <1>1, <1>2 DEF WorkersOK
<1>4. RetriesOK'
  BY DEF Exclusive, RetriesOK
<1>5. WorkersOf(j)' = WorkersOf(j) /\ w \in WorkersOf(j)
  BY <1>1 DEF WorkersOf, WorkersKept
<1>6. j \in Owners' <=> jobs'[j].retrying \/ Owing(w)'
  <2>1. \A v \in WorkersOf(j) : v # w => ~Owing(v)'
    BY <1>2 DEF WorkersOf
  <2>2. Owns(j)' <=> jobs'[j].retrying \/ Owing(w)'
    BY <1>5, <2>1 DEF Owns
  <2> QED BY <1>1, <2>2 DEF Owners
<1>7. ASSUME NEW i \in DOMAIN jobs, i # j PROVE i \in Owners' <=> i \in Owners
  <2>1. WorkersOf(i)' = WorkersOf(i) /\ w \notin WorkersOf(i) /\ WorkersOf(i) \subseteq DOMAIN workers
    BY <1>1, <1>7 DEF WorkersOf, WorkersKept
  <2>2. \A v \in WorkersOf(i) : Owing(v)' = Owing(v)
    BY <1>2, <2>1
  <2>3. Owns(i)' <=> Owns(i)
    BY <1>7, <2>1, <2>2 DEF Owns
  <2> QED BY <2>3 DEF Owners
<1>8. Owners' \ {j} = Owners \ {j}
  BY <1>7 DEF Owners
<1> QED BY <1>3, <1>4, <1>6, <1>8

(* A worker is forked, for a job that has none. *)
LEMMA ForkChange ==
  ASSUME Inv, Exclusive, NEW j \in JobIds, j \in DOMAIN jobs', OthersKept(j), Fork(j),
         jobs'[j].status = "analyzing", ~jobs'[j].retrying,
         \A w \in WorkersOf(j) : ~Current(w)
  PROVE  WorkersOK' /\ RetriesOK' /\ Owners' \ {j} = Owners \ {j}
<1>1. PICK new :
        /\ DOMAIN workers' = DOMAIN workers \cup {new}
        /\ new \notin DOMAIN workers
        /\ \E proc \in {"boot", "unspawned"} : workers'[new] = NewWorker(j, proc)
        /\ \A w \in DOMAIN workers : workers'[w] = workers[w]
  BY ForkAppends DEF Inv
<1>2. PICK proc \in {"boot", "unspawned"} : workers'[new] = NewWorker(j, proc)
  BY <1>1
<1>3. /\ workers'[new].job = j /\ workers'[new].proc = proc /\ workers'[new].signal = FALSE
      /\ workers'[new].analyzing = FALSE /\ workers'[new].leaving = FALSE
      /\ workers'[new].mail = <<>> /\ workers'[new].init = FALSE
  BY <1>2 DEF NewWorker
<1>4. WorkerOK(new)'
  BY <1>3 DEF WorkerOK, Owing, Current
<1>5. ASSUME NEW v \in DOMAIN workers
      PROVE  WorkerOK(v)' /\ Owing(v)' = Owing(v)
  <2>1. workers'[v] = workers[v]
    BY <1>1
  <2>2. CASE workers[v].job = j
    <3>1. ~Current(v)
      BY <2>2 DEF WorkersOf
    <3> QED BY <2>1, <3>1, ReapedOK DEF Exclusive, Owing, Current
  <2>3. CASE workers[v].job # j
    <3>1. jobs'[workers[v].job] = jobs[workers[v].job]
      BY <2>3 DEF Inv, Types, OthersKept
    <3> QED BY <2>1, <2>3, <3>1 DEF Exclusive, WorkersOK, WorkerOK, Owing, Current
  <2> QED BY <2>2, <2>3
<1>6. WorkersOK'
  BY <1>1, <1>4, <1>5 DEF WorkersOK
<1>7. RetriesOK'
  BY DEF Exclusive, RetriesOK, OthersKept
<1>8. ASSUME NEW i, i # j PROVE i \in Owners' <=> i \in Owners
  <2>1. WorkersOf(i)' = WorkersOf(i) /\ WorkersOf(i) \subseteq DOMAIN workers
    BY <1>1, <1>3, <1>8 DEF WorkersOf
  <2>2. \A v \in WorkersOf(i) : Owing(v)' = Owing(v)
    BY <1>5, <2>1
  <2>3. i \in DOMAIN jobs' <=> i \in DOMAIN jobs
    BY <1>8 DEF OthersKept
  <2>4. i \in DOMAIN jobs => (Owns(i)' <=> Owns(i))
    BY <1>8, <2>1, <2>2 DEF Owns, OthersKept
  <2> QED BY <2>3, <2>4 DEF Owners
<1>9. Owners' \ {j} = Owners \ {j}
  BY <1>8
<1> QED BY <1>6, <1>7, <1>9

(* A job without workers changes, or is created. *)
LEMMA IdleChange ==
  ASSUME Inv, Exclusive, NEW j, OthersKept(j), UNCHANGED workers, WorkersOf(j) = {},
         j \in DOMAIN jobs', ~jobs'[j].retrying
  PROVE  WorkersOK' /\ RetriesOK' /\ Owners' = Owners \ {j}
<1>1. \A v \in DOMAIN workers : workers[v].job # j /\ workers[v].job \in DOMAIN jobs
  BY DEF WorkersOf, Inv, Types
<1>2. WorkersOK'
  BY <1>1 DEF Exclusive, WorkersOK, WorkerOK, OthersKept, Owing, Current
<1>3. RetriesOK'
  BY DEF Exclusive, RetriesOK, OthersKept
<1>4. \A i : WorkersOf(i)' = WorkersOf(i) /\ \A v : Owing(v)' = Owing(v)
  BY DEF WorkersOf, Owing, Current
<1>5. ~Owns(j)'
  BY <1>4 DEF Owns
<1>6. ASSUME NEW i, i # j PROVE i \in Owners' <=> i \in Owners
  <2>1. i \in DOMAIN jobs' <=> i \in DOMAIN jobs
    BY <1>6 DEF OthersKept
  <2>2. i \in DOMAIN jobs => (Owns(i)' <=> Owns(i))
    BY <1>4, <1>6 DEF Owns, OthersKept
  <2> QED BY <2>1, <2>2 DEF Owners
<1>7. j \notin Owners'
  BY <1>5 DEF Owners
<1> QED BY <1>2, <1>3, <1>6, <1>7

-----------------------------------------------------------------------------
(* The locks exclude: taking, keeping and releasing *)

(* The owners depend on jobs and workers alone. *)
LEMMA JobsOnSame ==
  ASSUME UNCHANGED <<jobs, workers>>
  PROVE  Owners' = Owners /\ \A r : JobsOn(r)' = JobsOn(r)
  BY DEF Owners, Owns, WorkersOf, Owing, Current, JobsOn

(* No job begins to work, and nothing else changes. *)
LEMMA LocksStay ==
  ASSUME Inv, LocksOK, Owners' \subseteq Owners,
         \A i \in Owners' : jobs'[i].repo = jobs[i].repo,
         UNCHANGED <<embeds, deleting, locks>>
  PROVE  LocksOK'
<1> SUFFICES ASSUME NEW r \in Repos PROVE LockOK(r)'
  BY DEF LocksOK
<1>1. JobsOn(r)' \subseteq JobsOn(r) /\ EmbedsOn(r)' = EmbedsOn(r)
      /\ JobsOn(r)' \subseteq DOMAIN jobs'
  BY DEF JobsOn, EmbedsOn, Owners
<1>2. LockOK(r)
  BY DEF LocksOK
<1>3. (\E j \in DOMAIN jobs : JobsOn(r) = {j})
      => JobsOn(r)' = {} \/ \E j \in DOMAIN jobs' : JobsOn(r)' = {j}
  BY <1>1
<1> QED BY <1>1, <1>2, <1>3 DEF LockOK

(* A job is done with its repository and releases it. *)
LEMMA JobReleases ==
  ASSUME Inv, LocksOK, NEW j \in Owners, j \notin Owners', Owners' \subseteq Owners,
         DOMAIN jobs' = DOMAIN jobs, \A i \in DOMAIN jobs : jobs'[i].repo = jobs[i].repo,
         locks' = locks \ {jobs[j].repo}, UNCHANGED <<embeds, deleting>>
  PROVE  LocksOK'
<1> SUFFICES ASSUME NEW r \in Repos PROVE LockOK(r)'
  BY DEF LocksOK
<1>1. JobsOn(r)' \subseteq JobsOn(r) /\ EmbedsOn(r)' = EmbedsOn(r)
  BY DEF JobsOn, EmbedsOn, Owners
<1>2. LockOK(r)
  BY DEF LocksOK
<1>3. CASE r = jobs[j].repo
  <2>1. j \in JobsOn(r) /\ j \notin JobsOn(r)'
    BY <1>3 DEF JobsOn
  <2>2. JobsOn(r) = {j} /\ EmbedsOn(r) = {} /\ deleting[r] = 0
    BY <1>2, <2>1 DEF LockOK
  <2>3. JobsOn(r)' = {}
    BY <1>1, <2>1, <2>2
  <2> QED BY <1>1, <2>2, <2>3 DEF LockOK
<1>4. CASE r # jobs[j].repo
  BY <1>1, <1>2, <1>4 DEF LockOK
<1> QED BY <1>3, <1>4

(* A job begins to work on a repository whose lock was free. *)
LEMMA JobAcquires ==
  ASSUME Inv, LocksOK, NEW j, OthersKept(j), j \in DOMAIN jobs',
         Owners' \ {j} = Owners \ {j},
         jobs'[j].repo \notin locks, locks' = locks \cup {jobs'[j].repo},
         UNCHANGED <<embeds, deleting>>,
         j \in DOMAIN jobs => jobs'[j].repo = jobs[j].repo
  PROVE  LocksOK'
<1> SUFFICES ASSUME NEW r \in Repos PROVE LockOK(r)'
  BY DEF LocksOK
<1>1. EmbedsOn(r)' = EmbedsOn(r) /\ DOMAIN jobs \subseteq DOMAIN jobs'
  BY DEF EmbedsOn, OthersKept
<1>2. JobsOn(r)' \ {j} = JobsOn(r) \ {j}
  <2>1. Owners \subseteq DOMAIN jobs
    BY DEF Owners
  <2> QED BY <2>1 DEF JobsOn, OthersKept
<1>3. LockOK(r)
  BY DEF LocksOK
<1>4. CASE r = jobs'[j].repo
  <2>1. JobsOn(r) = {} /\ EmbedsOn(r) = {} /\ deleting[r] = 0 /\ r \in locks'
    BY <1>3, <1>4 DEF LockOK
  <2>2. JobsOn(r)' = {} \/ JobsOn(r)' = {j}
    BY <1>2, <2>1
  <2> QED BY <1>1, <2>1, <2>2 DEF LockOK
<1>5. CASE r # jobs'[j].repo
  <2>1. j \notin JobsOn(r)' /\ j \notin JobsOn(r)
    BY <1>5 DEF JobsOn, Owners
  <2>2. JobsOn(r)' = JobsOn(r)
    BY <1>2, <2>1
  <2> QED BY <1>1, <1>3, <1>5, <2>2 DEF LockOK
<1> QED BY <1>4, <1>5

-----------------------------------------------------------------------------
(* The locks exclude: requests, clones and retries *)

(* A request takes the lock or begins no work. *)
LEMMA CreateJobExcludes ==
  ASSUME Inv, Exclusive, NEW r \in Repos, CreateJob(r) PROVE Exclusive'
<1> DEFINE x(status) == [NewJob(r) EXCEPT !.status = status]
           y == [NewJob(r) EXCEPT !.cloning = TRUE]
<1>1. PICK n \in JobIds : n = Len(jobs) + 1
  BY CreateJobCases
<1>2. /\ UNCHANGED <<embedVars, deleting>>
      /\ \/ jobs' = Append(jobs, x("failed")) /\ UNCHANGED <<workers, locks>>
         \/ jobs' = Append(jobs, y) /\ UNCHANGED <<workers, locks>>
         \/ r \notin locks /\ locks' = locks \cup {r}
            /\ jobs' = Append(jobs, x("analyzing")) /\ Fork(n)
  BY <1>1, CreateJobCases
<1>3. /\ x("failed") \in JobType /\ ~x("failed").retrying /\ y \in JobType /\ ~y.retrying
      /\ x("analyzing") \in JobType /\ ~x("analyzing").retrying
      /\ x("analyzing").status = "analyzing" /\ x("analyzing").repo = r
  BY NewJobTyped DEF Statuses
<1> HIDE DEF x, y
<1>4. jobs \in Seq(JobType) /\ Len(jobs) < MaxJobs /\ Len(jobs) + 1 <= MaxJobs
  BY ServerJobsConstants DEF Inv, Types, CreateJob
<1>5. n \notin DOMAIN jobs /\ WorkersOf(n) = {} /\ n \notin Owners
  BY <1>1, <1>4 DEF WorkersOf, Inv, Types, Owners
<1>6. ASSUME NEW z \in JobType, jobs' = Append(jobs, z)
      PROVE  OthersKept(n) /\ n \in DOMAIN jobs' /\ jobs'[n] = z
  <2>1. /\ jobs' \in Seq(JobType) /\ Len(jobs') = n
        /\ DOMAIN jobs' = DOMAIN jobs \cup {n}
        /\ jobs'[n] = z /\ \A i \in DOMAIN jobs : jobs'[i] = jobs[i]
    BY <1>1, <1>4, <1>6, Appended
  <2> QED BY <1>1, <1>4, <2>1 DEF OthersKept
<1>7. ASSUME NEW z \in JobType, ~z.retrying, jobs' = Append(jobs, z), UNCHANGED <<workers, locks>>
      PROVE  Exclusive'
  <2>1. OthersKept(n) /\ n \in DOMAIN jobs' /\ ~jobs'[n].retrying
    BY <1>6, <1>7
  <2>2. WorkersOK' /\ RetriesOK' /\ Owners' = Owners
    BY <1>5, <1>7, <2>1, IdleChange
  <2>3. \A i \in Owners' : jobs'[i].repo = jobs[i].repo
    BY <1>5, <2>1, <2>2 DEF Owners, OthersKept
  <2>4. LocksOK'
    BY <1>2, <1>7, <2>2, <2>3, LocksStay DEF Exclusive, embedVars
  <2> QED BY <2>2, <2>4 DEF Exclusive
<1>8. CASE r \notin locks /\ locks' = locks \cup {r} /\ jobs' = Append(jobs, x("analyzing"))
           /\ Fork(n)
  <2>1. OthersKept(n) /\ n \in DOMAIN jobs' /\ jobs'[n] = x("analyzing")
    BY <1>3, <1>6, <1>8
  <2>2. WorkersOK' /\ RetriesOK' /\ Owners' \ {n} = Owners \ {n}
    BY <1>3, <1>5, <1>8, <2>1, ForkChange
  <2>3. LocksOK'
    BY <1>2, <1>3, <1>5, <1>8, <2>1, <2>2, JobAcquires DEF Exclusive, embedVars
  <2> QED BY <2>2, <2>3 DEF Exclusive
<1> QED BY <1>2, <1>3, <1>7, <1>8

(* So does the end of a clone. *)
LEMMA CloneDoneExcludes ==
  ASSUME Inv, Exclusive, NEW j \in DOMAIN jobs, CloneDone(j) PROVE Exclusive'
<1> DEFINE x(status) == [jobs[j] EXCEPT !.cloning = FALSE, !.status = status]
<1>1. /\ jobs[j].cloning /\ UNCHANGED <<embedVars, deleting>>
      /\ x("failed") \in JobType /\ x("analyzing") \in JobType
      /\ \/ jobs' = [jobs EXCEPT ![j] = x("failed")] /\ UNCHANGED <<workers, locks>>
         \/ jobs[j].repo \notin locks /\ locks' = locks \cup {jobs[j].repo}
            /\ jobs' = [jobs EXCEPT ![j] = x("analyzing")] /\ Fork(j)
  BY CloneDoneCases
<1>2. jobs[j] \in JobType /\ Types /\ j \in JobIds
  BY ServerJobsConstants DEF Inv, Types, JobIds
<1>3. \A status \in {"failed", "analyzing"} :
        /\ x(status).repo = jobs[j].repo /\ x(status).status = status
        /\ x(status).retrying = jobs[j].retrying /\ x(status).cloning = FALSE
  BY <1>2 DEF JobType
<1>4. WorkersOf(j) = {} /\ ~jobs[j].retrying
  BY <1>1 DEF Inv, NoneDue, DueLast
<1> HIDE DEF x
<1>5. CASE jobs' = [jobs EXCEPT ![j] = x("failed")] /\ UNCHANGED <<workers, locks>>
  <2>1. OthersKept(j) /\ jobs'[j] = x("failed") /\ j \in DOMAIN jobs'
    BY <1>1, <1>2, <1>3, <1>5, JobSet
  <2>2. ~jobs'[j].retrying
    BY <1>3, <1>4, <2>1
  <2>3. WorkersOK' /\ RetriesOK' /\ Owners' = Owners \ {j}
    BY <1>4, <1>5, <2>1, <2>2, IdleChange
  <2>4. \A i \in Owners' : jobs'[i].repo = jobs[i].repo
    BY <2>1, <2>3 DEF Owners, OthersKept
  <2>5. LocksOK'
    BY <1>1, <1>5, <2>3, <2>4, LocksStay DEF Exclusive, embedVars
  <2> QED BY <2>3, <2>5 DEF Exclusive
<1>6. CASE jobs[j].repo \notin locks /\ locks' = locks \cup {jobs[j].repo}
           /\ jobs' = [jobs EXCEPT ![j] = x("analyzing")] /\ Fork(j)
  <2>1. OthersKept(j) /\ jobs'[j] = x("analyzing") /\ j \in DOMAIN jobs'
    BY <1>1, <1>2, <1>3, <1>6, JobSet
  <2>2. ~jobs'[j].retrying /\ jobs'[j].status = "analyzing" /\ jobs'[j].repo = jobs[j].repo
    BY <1>3, <1>4, <2>1
  <2>3. WorkersOK' /\ RetriesOK' /\ Owners' \ {j} = Owners \ {j}
    BY <1>2, <1>4, <1>6, <2>1, <2>2, ForkChange
  <2>4. LocksOK'
    BY <1>1, <1>6, <2>1, <2>2, <2>3, JobAcquires DEF Exclusive, embedVars
  <2> QED BY <2>3, <2>4 DEF Exclusive
<1> QED BY <1>1, <1>5, <1>6

(* The worker of a retry owes its result under the lock of the one before it. *)
LEMMA RetryForkExcludes ==
  ASSUME Inv, Exclusive, NEW j \in DOMAIN jobs, RetryFork(j) PROVE Exclusive'
<1> DEFINE x == [jobs[j] EXCEPT !.retrying = FALSE]
<1>1. jobs[j] \in JobType /\ jobs \in Seq(JobType) /\ Types /\ j \in JobIds
  BY ServerJobsConstants DEF Inv, Types, JobIds
<1>2. jobs' = [jobs EXCEPT ![j] = x] /\ jobs[j].retrying
      /\ UNCHANGED <<embedVars, deleting>> /\ UNCHANGED locks
  BY <1>1 DEF RetryFork
<1>3. x \in JobType /\ x.repo = jobs[j].repo /\ ~x.retrying /\ x.cloning = jobs[j].cloning
      /\ x.status = jobs[j].status
  BY <1>1 DEF JobType
<1> HIDE DEF x
<1>4. OthersKept(j) /\ jobs'[j] = x /\ j \in DOMAIN jobs'
  BY <1>1, <1>2, <1>3, JobSet
<1>5. jobs[j].status = "analyzing" /\ Fork(j)
  BY <1>2 DEF Exclusive, RetriesOK, RetryFork, Terminal
<1>6. \A w \in WorkersOf(j) : ~Current(w)
  BY <1>2 DEF Inv, NoneDue, DueLast
<1>7. WorkersOK' /\ RetriesOK' /\ Owners' \ {j} = Owners \ {j}
  BY <1>1, <1>3, <1>4, <1>5, <1>6, ForkChange
<1>8. j \in Owners
  BY <1>2 DEF Owners, Owns
<1>9. \A i \in Owners' : jobs'[i].repo = jobs[i].repo
  BY <1>3, <1>4, <1>7 DEF Owners, OthersKept
<1>10. LocksOK'
  BY <1>2, <1>7, <1>8, <1>9, LocksStay DEF Exclusive, embedVars
<1> QED BY <1>7, <1>10 DEF Exclusive

-----------------------------------------------------------------------------
(* The locks exclude: the worker processes *)

(* A worker that takes a step of its own and owes a result as before. *)
LEMMA ActExcludes ==
  ASSUME Inv, Exclusive, NEW w \in DOMAIN workers, NEW x \in WorkerType, WorkerStep(w, x),
         x.job = workers[w].job, Current(w), workers'[w] = x => WorkerOK(w)',
         workers'[w] = x => (Owing(w)' => Owing(w))
  PROVE  Exclusive'
<1>1. PICK j \in DOMAIN jobs : j = workers[w].job
  BY DEF Inv, Types
<1>2. /\ WorkersKept /\ workers'[w] = x
      /\ \A v \in DOMAIN workers : v # w => workers'[v] = workers[v]
  BY WorkerSet DEF WorkerStep, Inv
<1>3. UNCHANGED <<jobs, embedVars, deleting, locks>>
  BY DEF WorkerStep
<1>4. jobs[j].retrying => jobs[j].status = "analyzing"
  BY DEF Exclusive, RetriesOK
<1>5. /\ WorkersOK' /\ RetriesOK' /\ Owners' \ {j} = Owners \ {j}
      /\ j \in Owners' <=> jobs'[j].retrying \/ Owing(w)'
  BY <1>1, <1>2, <1>3, <1>4, WorkerChange
<1>6. j \in Owners' => j \in Owners
  BY <1>1, <1>2, <1>3, <1>5 DEF Owners, Owns, WorkersOf
<1>7. LocksOK'
  BY <1>3, <1>5, <1>6, LocksStay DEF Exclusive, embedVars, Owners
<1> QED BY <1>5, <1>7 DEF Exclusive

(* The mail of a worker is a sequence of messages. *)
LEMMA MailTyped == ASSUME NEW x \in WorkerType PROVE x.mail \in Seq(Messages)
  BY DEF WorkerType, Messages

(* What a worker does by itself leaves the lock with it. *)
LEMMA WorkerActsExclude ==
  ASSUME Inv, Exclusive, Quiet, NEW w \in DOMAIN workers,
         \/ Boot(w) \/ Progress(w) \/ Finish(w) \/ Uncaught(w) \/ Terminate(w)
         \/ Leave(w) \/ Crash(w)
  PROVE  Exclusive'
<1> DEFINE x == workers[w]
<1>1. x \in WorkerType /\ workers[w].job \in DOMAIN jobs /\ x.mail \in Seq(Messages)
  BY MailTyped DEF Inv, Types
<1>2. WorkerOK(w)
  BY DEF Exclusive, WorkersOK
<1>3. CASE Boot(w)
  <2> DEFINE y == [x EXCEPT !.proc = "up", !.analyzing = TRUE]
  <2>1. /\ y \in WorkerType /\ y.job = x.job /\ y.proc = "up" /\ y.analyzing = TRUE
        /\ y.signal = x.signal /\ y.leaving = x.leaving /\ y.mail = x.mail /\ y.init = x.init
    BY <1>1 DEF WorkerType
  <2>2. WorkerStep(w, y) /\ x.proc = "boot"
    BY <1>3 DEF Boot
  <2> HIDE DEF y
  <2>3. Current(w) /\ UNCHANGED jobs
    BY <2>2 DEF Current, WorkerStep
  <2>4. ASSUME workers'[w] = y PROVE WorkerOK(w)' /\ (Owing(w)' => Owing(w))
    BY <1>2, <2>1, <2>2, <2>3, <2>4 DEF WorkerOK, Owing, Current
  <2> QED BY <2>1, <2>2, <2>3, <2>4, ActExcludes
<1>4. CASE Progress(w)
  <2> DEFINE y == Sent(x, "progress")
  <2>1. y \in WorkerType /\ y.job = x.job /\ y.proc = x.proc
    BY <1>1, SentTyped DEF Messages
  <2>2. /\ y.analyzing = x.analyzing /\ y.signal = x.signal /\ y.leaving = x.leaving
        /\ y.mail = Append(x.mail, "progress") /\ y.init = x.init
    BY <1>1 DEF Sent, WorkerType
  <2>3. WorkerStep(w, y) /\ x.proc = "up" /\ x.analyzing
    BY <1>4 DEF Progress
  <2> HIDE DEF y
  <2>4. Current(w) /\ UNCHANGED jobs /\ ~x.leaving
    BY <1>2, <2>3 DEF Current, WorkerStep, WorkerOK
  <2>5. \A i \in DOMAIN y.mail : y.mail[i] = "progress"
    BY <1>1, <1>2, <2>2, <2>4 DEF WorkerOK
  <2>6. ~x.init /\ ~y.init
    BY <1>2, <2>2, <2>4 DEF WorkerOK
  <2>7. ASSUME workers'[w] = y PROVE WorkerOK(w)' /\ (Owing(w)' => Owing(w))
    BY <1>2, <2>1, <2>2, <2>3, <2>4, <2>5, <2>6, <2>7 DEF WorkerOK, Owing, Current
  <2> QED BY <2>1, <2>3, <2>4, <2>7, ActExcludes
<1>5. CASE Finish(w)
  <2> DEFINE z == [x EXCEPT !.analyzing = FALSE, !.leaving = TRUE]
  <2>1. /\ z \in WorkerType /\ z.job = x.job /\ z.proc = x.proc /\ z.analyzing = FALSE
        /\ z.leaving = TRUE /\ z.signal = x.signal /\ z.mail = x.mail /\ z.init = x.init
    BY <1>1 DEF WorkerType
  <2>2. (WorkerStep(w, Sent(z, "complete")) \/ WorkerStep(w, Sent(z, "error")))
        /\ x.proc = "up" /\ x.analyzing
    BY <1>5 DEF Finish
  <2> HIDE DEF z
  <2>3. PICK message \in {"complete", "error"} : WorkerStep(w, Sent(z, message))
    BY <2>2
  <2> DEFINE y == Sent(z, message)
  <2>4. /\ y \in WorkerType /\ y.job = x.job /\ y.proc = x.proc
        /\ y.analyzing = z.analyzing /\ y.signal = z.signal /\ y.leaving = z.leaving
        /\ y.mail = Append(x.mail, message) /\ y.init = z.init
    <3>1. y \in WorkerType /\ y.job = x.job /\ y.proc = x.proc
      BY <2>1, SentTyped DEF Messages
    <3>2. /\ y.analyzing = z.analyzing /\ y.signal = z.signal /\ y.leaving = z.leaving
          /\ y.mail = Append(x.mail, message) /\ y.init = z.init
      BY <2>1 DEF Sent, WorkerType
    <3> QED BY <3>1, <3>2
  <2> HIDE DEF y
  <2>5. Current(w) /\ UNCHANGED jobs /\ ~x.leaving /\ ~x.init
    BY <1>2, <2>2, <2>3 DEF Current, WorkerStep, WorkerOK
  <2>6. \A i \in DOMAIN x.mail : x.mail[i] = "progress"
    BY <1>2, <2>5 DEF WorkerOK
  <2>7. y.mail # <<>> /\ \A i \in DOMAIN y.mail : y.mail[i] # "progress" <=> i = Len(y.mail)
    BY <1>1, <2>4, <2>6
  <2>8. ASSUME workers'[w] = y PROVE WorkerOK(w)' /\ (Owing(w)' => Owing(w))
    BY <1>2, <2>1, <2>2, <2>4, <2>5, <2>7, <2>8 DEF WorkerOK, Owing, Current
  <2> QED BY <2>3, <2>4, <2>5, <2>8, ActExcludes DEF y
<1>6. ~Uncaught(w) /\ ~Terminate(w)
  BY <1>2 DEF Quiet, Uncaught, Terminate, WorkerOK
<1>7. CASE Leave(w) \/ Crash(w)
  <2> DEFINE y == [x EXCEPT !.proc = "gone", !.analyzing = FALSE, !.signal = FALSE]
  <2>1. /\ y \in WorkerType /\ y.job = x.job /\ y.proc = "gone" /\ y.analyzing = FALSE
        /\ y.signal = FALSE /\ y.leaving = x.leaving /\ y.mail = x.mail /\ y.init = x.init
    BY <1>1 DEF WorkerType
  <2>2. WorkerStep(w, y) /\ x.proc \in {"boot", "up"}
    BY <1>7 DEF Leave, Crash, Gone
  <2> HIDE DEF y
  <2>3. Current(w) /\ UNCHANGED jobs
    BY <2>2 DEF Current, WorkerStep
  <2>4. ASSUME workers'[w] = y PROVE WorkerOK(w)' /\ (Owing(w)' => Owing(w))
    BY <1>2, <2>1, <2>2, <2>3, <2>4 DEF WorkerOK, Owing, Current
  <2> QED BY <2>1, <2>2, <2>3, <2>4, ActExcludes
<1> QED BY <1>3, <1>4, <1>5, <1>6, <1>7

-----------------------------------------------------------------------------
(* The locks exclude: what the server does about its workers *)

(* What the last message of a worker that leaves, and the others, look like. *)
LEMMA FirstMessage ==
  ASSUME Inv, Exclusive, NEW w \in DOMAIN workers, workers[w].mail # <<>>
  PROVE  LET x == workers[w] IN
         /\ Owing(w) /\ Current(w) /\ ~x.init
         /\ Tail(x.mail) \in Seq(Messages)
         /\ Len(Tail(x.mail)) = Len(x.mail) - 1
         /\ \A i \in DOMAIN Tail(x.mail) :
              Tail(x.mail)[i] # "progress" <=> x.leaving /\ i = Len(Tail(x.mail))
         /\ Head(x.mail) # "progress" => x.leaving /\ Tail(x.mail) = <<>>
         /\ Head(x.mail) = "progress" /\ x.leaving => Tail(x.mail) # <<>>
         /\ x.proc \notin {"unspawned", "boot", "reaped"}
<1> DEFINE x == workers[w]
           mail == x.mail
           rest == Tail(mail)
<1>1. x \in WorkerType /\ mail \in Seq(Messages) /\ WorkerOK(w)
  BY MailTyped DEF Inv, Types, Exclusive, WorkersOK
<1>2. /\ Owing(w) /\ Current(w) /\ ~x.init /\ x.proc \notin {"unspawned", "boot", "reaped"}
  BY <1>1 DEF WorkerOK, Owing, Current
<1>3. \A i \in DOMAIN mail : mail[i] # "progress" <=> x.leaving /\ i = Len(mail)
  BY <1>1 DEF WorkerOK
<1>4. mail # <<>>
  OBVIOUS
<1> HIDE DEF x, mail
<1>5. /\ rest \in Seq(Messages) /\ Len(rest) = Len(mail) - 1 /\ Len(mail) \in Nat /\ Len(mail) > 0
      /\ DOMAIN rest = 1..Len(rest) /\ DOMAIN mail = 1..Len(mail)
      /\ \A i \in DOMAIN rest : rest[i] = mail[i + 1]
      /\ Head(mail) = mail[1]
  BY <1>1, <1>4
<1> HIDE DEF rest
<1>6. \A i \in DOMAIN rest : i + 1 \in DOMAIN mail /\ (i + 1 = Len(mail) <=> i = Len(rest))
  BY <1>5
<1>7. \A i \in DOMAIN rest : rest[i] # "progress" <=> x.leaving /\ i = Len(rest)
  BY <1>3, <1>5, <1>6
<1>8. 1 \in DOMAIN mail /\ (mail[1] # "progress" <=> x.leaving /\ 1 = Len(mail))
  BY <1>3, <1>5
<1>9. rest = <<>> <=> 1 = Len(mail)
  BY <1>5
<1> QED BY <1>2, <1>5, <1>7, <1>8, <1>9 DEF x, mail, rest

(* The retry of a job is over when its worker is there. *)
LEMMA NotRetrying ==
  ASSUME Inv, NEW w \in DOMAIN workers, Current(w)
  PROVE  workers[w].job \in DOMAIN jobs /\ ~jobs[workers[w].job].retrying
<1>1. workers[w].job \in DOMAIN jobs /\ w \in WorkersOf(workers[w].job)
  BY DEF Inv, Types, WorkersOf
<1> QED BY <1>1 DEF Inv, NoneDue, DueLast

(* A callback reads something of a worker that leaves its job without an owner;
   when it had one, the lock goes with it. *)
LEMMA CallbackExcludes ==
  ASSUME Inv, Exclusive, NEW w \in DOMAIN workers, NEW j, j = workers[w].job, Current(w),
         NEW x \in WorkerType, x.job = j, x.proc # "reaped" => Current(w),
         workers' = [workers EXCEPT ![w] = x],
         \/ UNCHANGED jobs
         \/ \E status \in Statuses : jobs' = [jobs EXCEPT ![j].status = status],
         workers'[w] = x => WorkerOK(w)',
         \/ UNCHANGED locks /\ (workers'[w] = x => (Owing(w)' => Owing(w)))
         \/ Release(j) /\ Owing(w) /\ (workers'[w] = x => ~Owing(w)'),
         UNCHANGED <<embedVars, deleting>>
  PROVE  Exclusive'
<1>1. j \in DOMAIN jobs /\ ~jobs[j].retrying /\ Types /\ jobs[j] \in JobType
  BY NotRetrying DEF Inv, Types
<1>2. /\ WorkersKept /\ workers'[w] = x
      /\ \A v \in DOMAIN workers : v # w => workers'[v] = workers[v]
  BY <1>1, WorkerSet
<1>3. /\ JobsKept /\ \A i \in DOMAIN jobs : i # j => jobs'[i] = jobs[i]
  <2>1. CASE UNCHANGED jobs
    BY <1>1, <2>1, JobsSame
  <2>2. CASE \E status \in Statuses : jobs' = [jobs EXCEPT ![j].status = status]
    BY <1>1, <2>2, StatusSet DEF OthersKept
  <2> QED BY <2>1, <2>2
<1>4. /\ DOMAIN jobs' = DOMAIN jobs /\ ~jobs'[j].retrying
      /\ \A i \in DOMAIN jobs : jobs'[i].repo = jobs[i].repo
  BY <1>1, <1>3 DEF JobsKept
<1>5. /\ WorkersOK' /\ RetriesOK' /\ Owners' \ {j} = Owners \ {j}
      /\ j \in Owners' <=> jobs'[j].retrying \/ Owing(w)'
  BY <1>2, <1>3, <1>4, WorkerChange
<1>6. Owing(w) => j \in Owners
  BY <1>1 DEF Owners, Owns, WorkersOf
<1>7. CASE UNCHANGED locks /\ (Owing(w)' => Owing(w))
  <2>1. Owners' \subseteq Owners
    BY <1>4, <1>5, <1>6, <1>7
  <2>2. LocksOK'
    BY <1>4, <1>7, <2>1, LocksStay DEF Exclusive, embedVars, Owners
  <2> QED BY <1>5, <2>2 DEF Exclusive
<1>8. CASE Release(j) /\ Owing(w) /\ ~Owing(w)'
  <2>1. Owners' \subseteq Owners /\ j \in Owners /\ j \notin Owners'
    BY <1>4, <1>5, <1>6, <1>8
  <2>2. locks' = locks \ {jobs[j].repo} /\ UNCHANGED <<embeds, deleting>>
    BY <1>8 DEF Release, embedVars
  <2>3. LocksOK'
    BY <1>4, <2>1, <2>2, JobReleases DEF Exclusive
  <2> QED BY <1>5, <2>3 DEF Exclusive
<1> QED BY <1>2, <1>7, <1>8

(* The lock goes with the last message of a worker. *)
LEMMA OnMessageExcludes ==
  ASSUME Inv, Exclusive, NEW w \in DOMAIN workers, OnMessage(w) PROVE Exclusive'
<1>0. PICK j \in DOMAIN jobs : j = workers[w].job
  BY DEF Inv, Types
<1> DEFINE rest == Tail(workers[w].mail)
           x == [workers[w] EXCEPT !.mail = rest]
           y == [x EXCEPT !.init = TRUE]
<1>1. workers[w] \in WorkerType /\ workers[w].mail # <<>> /\ WorkerOK(w) /\ jobs \in Seq(JobType)
      /\ jobs[j] \in JobType /\ Types
  BY DEF Inv, Types, OnMessage, Exclusive, WorkersOK
<1>2. /\ Owing(w) /\ Current(w) /\ ~workers[w].init
      /\ rest \in Seq(Messages)
      /\ \A i \in DOMAIN rest : rest[i] # "progress" <=> workers[w].leaving /\ i = Len(rest)
      /\ Head(workers[w].mail) # "progress" => workers[w].leaving /\ rest = <<>>
      /\ Head(workers[w].mail) = "progress" /\ workers[w].leaving => rest # <<>>
      /\ workers[w].proc \notin {"unspawned", "boot", "reaped"}
  BY <1>1, FirstMessage
<1> HIDE DEF rest
<1>3. /\ x \in WorkerType /\ x.job = j /\ x.proc = workers[w].proc /\ x.mail = rest
      /\ x.signal = workers[w].signal /\ x.leaving = workers[w].leaving
      /\ x.analyzing = workers[w].analyzing /\ x.init = workers[w].init
  BY <1>0, <1>1, <1>2 DEF WorkerType, Messages
<1>4. OnMessage(w) => 
      /\ \/ Head(workers[w].mail) = "progress" /\ UpdateJob(j, "analyzing")
            /\ workers' = [workers EXCEPT ![w] = x] /\ UNCHANGED locks
         \/ Head(workers[w].mail) = "complete" /\ Release(j)
            /\ workers' = [workers EXCEPT ![w] = y] /\ UNCHANGED jobs
         \/ Head(workers[w].mail) = "error" /\ Fail(j) /\ workers' = [workers EXCEPT ![w] = x]
      /\ UNCHANGED <<embedVars, deleting>>
  BY <1>0 DEF OnMessage, rest
<1> HIDE DEF x
<1>5. /\ y \in WorkerType /\ y.job = j /\ y.proc = workers[w].proc /\ y.mail = rest
      /\ y.signal = workers[w].signal /\ y.leaving = workers[w].leaving
      /\ y.analyzing = workers[w].analyzing /\ y.init = TRUE
  BY <1>3 DEF WorkerType
<1> HIDE DEF y
<1>6. CASE /\ Head(workers[w].mail) = "progress" /\ UpdateJob(j, "analyzing")
           /\ workers' = [workers EXCEPT ![w] = x] /\ UNCHANGED locks
  <2>1. jobs' = [jobs EXCEPT ![j].status = "analyzing"] /\ jobs'[j].status = "analyzing"
    BY <1>1, <1>6 DEF UpdateJob, JobType
  <2>2. ASSUME workers'[w] = x PROVE WorkerOK(w)' /\ (Owing(w)' => Owing(w))
    BY <1>1, <1>2, <1>3, <1>6, <2>1, <2>2 DEF WorkerOK, Owing, Current
  <2> QED BY <1>0, <1>2, <1>3, <1>4, <1>6, <2>1, <2>2, CallbackExcludes DEF Statuses
<1>7. CASE /\ Head(workers[w].mail) = "complete" /\ Release(j)
           /\ workers' = [workers EXCEPT ![w] = y] /\ UNCHANGED jobs
  <2>1. ASSUME workers'[w] = y PROVE WorkerOK(w)' /\ ~Owing(w)'
    BY <1>1, <1>2, <1>5, <1>7, <2>1 DEF WorkerOK, Owing, Current
  <2> QED BY <1>0, <1>2, <1>4, <1>5, <1>7, <2>1, CallbackExcludes
<1>8. CASE /\ Head(workers[w].mail) = "error" /\ Fail(j) /\ workers' = [workers EXCEPT ![w] = x]
  <2>1. jobs' = [jobs EXCEPT ![j].status = "failed"] /\ jobs'[j].status = "failed" /\ Release(j)
    BY <1>1, <1>8 DEF UpdateJob, JobType, Fail
  <2>2. ASSUME workers'[w] = x PROVE WorkerOK(w)' /\ ~Owing(w)'
    BY <1>1, <1>2, <1>3, <1>8, <2>1, <2>2 DEF WorkerOK, Owing, Current, Terminal
  <2> QED BY <1>0, <1>2, <1>3, <1>4, <1>8, <2>1, <2>2, CallbackExcludes DEF Statuses
<1> QED BY <1>4, <1>6, <1>7, <1>8

(* The end of backend.init finds the lock given back. *)
LEMMA InitDoneExcludes ==
  ASSUME Inv, Exclusive, NEW w \in DOMAIN workers, InitDone(w) PROVE Exclusive'
<1>0. PICK j \in DOMAIN jobs : j = workers[w].job
  BY DEF Inv, Types
<1> DEFINE x == [workers[w] EXCEPT !.init = FALSE]
<1>1. workers[w] \in WorkerType /\ workers \in Seq(WorkerType) /\ WorkerOK(w) /\ workers[w].init
      /\ jobs \in Seq(JobType) /\ jobs[j] \in JobType
  BY DEF Inv, Types, Exclusive, WorkersOK, InitDone
<1>2. /\ x \in WorkerType /\ x.job = j /\ x.proc = workers[w].proc /\ x.mail = workers[w].mail
      /\ x.signal = workers[w].signal /\ x.leaving = workers[w].leaving
      /\ x.analyzing = workers[w].analyzing /\ x.init = FALSE
  BY <1>0, <1>1 DEF WorkerType
<1>3. workers' = [workers EXCEPT ![w] = x] /\ UNCHANGED <<embedVars, deleting>> /\ UNCHANGED locks
  BY <1>1 DEF InitDone
<1> HIDE DEF x
<1>4. PICK status \in {"complete", "failed"} : jobs' = [jobs EXCEPT ![j].status = status]
  BY <1>0 DEF InitDone, UpdateJob
<1>5. jobs'[j].status \in {"complete", "failed"}
  BY <1>1, <1>4 DEF JobType
<1>6. Current(w) /\ workers[w].leaving /\ workers[w].mail = <<>>
  BY <1>1 DEF WorkerOK
<1>7. ASSUME workers'[w] = x PROVE WorkerOK(w)' /\ ~Owing(w)'
  BY <1>1, <1>2, <1>5, <1>6, <1>7 DEF WorkerOK, Owing, Current, Terminal
<1> QED BY <1>0, <1>2, <1>3, <1>4, <1>6, <1>7, CallbackExcludes DEF Statuses, Current

(* A worker that could not be started gives the lock back. *)
LEMMA OnErrorExcludes ==
  ASSUME Inv, Exclusive, NEW w \in DOMAIN workers, OnError(w) PROVE Exclusive'
<1>0. PICK j \in DOMAIN jobs : j = workers[w].job
  BY DEF Inv, Types
<1> DEFINE x == [workers[w] EXCEPT !.proc = "reaped"]
<1>1. workers[w] \in WorkerType /\ workers \in Seq(WorkerType) /\ WorkerOK(w)
      /\ workers[w].proc = "unspawned" /\ jobs \in Seq(JobType) /\ jobs[j] \in JobType
  BY DEF Inv, Types, Exclusive, WorkersOK, OnError
<1>2. /\ x \in WorkerType /\ x.job = j /\ x.proc = "reaped" /\ x.mail = workers[w].mail
      /\ x.signal = workers[w].signal /\ x.leaving = workers[w].leaving
      /\ x.analyzing = workers[w].analyzing /\ x.init = workers[w].init
  BY <1>0, <1>1 DEF WorkerType
<1>3. workers' = [workers EXCEPT ![w] = x] /\ UNCHANGED <<embedVars, deleting>> /\ Fail(j)
  BY <1>0, <1>1 DEF OnError
<1> HIDE DEF x
<1>4. jobs' = [jobs EXCEPT ![j].status = "failed"] /\ Release(j)
  BY <1>3 DEF Fail, UpdateJob
<1>5. Current(w) /\ Owing(w)
  BY <1>1 DEF WorkerOK, Owing, Current
<1>6. ASSUME workers'[w] = x PROVE WorkerOK(w)' /\ ~Owing(w)'
  BY <1>1, <1>2, <1>6 DEF WorkerOK, Owing, Current
<1> QED BY <1>0, <1>2, <1>3, <1>4, <1>5, <1>6, CallbackExcludes DEF Statuses

(* A worker that died leaves the lock to its retry, or gives it back. *)
LEMMA OnExitExcludes ==
  ASSUME Inv, Exclusive, Quiet, NEW w \in DOMAIN workers, OnExit(w) PROVE Exclusive'
<1>0. PICK j \in DOMAIN jobs : j = workers[w].job
  BY DEF Inv, Types
<1> DEFINE x == [workers[w] EXCEPT !.proc = "reaped", !.timer = FALSE]
           y == [jobs[j] EXCEPT !.retries = @ + 1, !.status = "analyzing", !.retrying = TRUE]
<1>1. /\ x \in WorkerType /\ x.job = j /\ x.proc = "reaped"
      /\ workers' = [workers EXCEPT ![w] = x]
      /\ Current(w) /\ UNCHANGED <<embedVars, deleting>>
      /\ \/ Terminal(jobs[j].status) /\ UNCHANGED <<jobs, locks>>
         \/ /\ ~Terminal(jobs[j].status) /\ UNCHANGED locks
            /\ y \in JobType /\ jobs' = [jobs EXCEPT ![j] = y]
         \/ ~Terminal(jobs[j].status) /\ GiveUp(j)
  BY <1>0, OnExitCases
<1>2. /\ workers[w] \in WorkerType /\ WorkerOK(w) /\ jobs \in Seq(JobType)
      /\ jobs[j] \in JobType /\ Types
      /\ workers[w].proc = "gone" /\ workers[w].mail = <<>> /\ ~workers[w].init
  <2>1. /\ workers[w] \in WorkerType /\ WorkerOK(w) /\ jobs \in Seq(JobType)
        /\ jobs[j] \in JobType /\ Types
    BY DEF Inv, Types, Exclusive, WorkersOK
  <2>2. workers[w].proc = "gone" /\ workers[w].mail = <<>> /\ ~workers[w].init
    BY DEF OnExit, Quiet
  <2> QED BY <2>1, <2>2
<1>3. x.mail = <<>> /\ x.signal = FALSE /\ x.analyzing = FALSE /\ x.init = FALSE
  BY <1>2 DEF WorkerType, WorkerOK
<1>4. y.repo = jobs[j].repo /\ y.status = "analyzing" /\ y.retrying
  BY <1>2 DEF JobType
<1> HIDE DEF x, y
<1>5. ASSUME workers'[w] = x PROVE WorkerOK(w)' /\ ~Owing(w)'
  BY <1>1, <1>3, <1>5 DEF WorkerOK, Owing, Current
<1>6. ~Terminal(jobs[j].status) => Owing(w)
  BY <1>0, <1>1, <1>2 DEF WorkerOK
<1>7. CASE UNCHANGED <<jobs, locks>>
  BY <1>0, <1>1, <1>5, <1>7, CallbackExcludes
<1>8. CASE ~Terminal(jobs[j].status) /\ GiveUp(j)
  <2>1. jobs' = [jobs EXCEPT ![j].status = "failed"] /\ Release(j)
    BY <1>8 DEF GiveUp, Fail, UpdateJob
  <2> QED BY <1>0, <1>1, <1>5, <1>6, <1>8, <2>1, CallbackExcludes DEF Statuses
<1>9. CASE /\ ~Terminal(jobs[j].status) /\ UNCHANGED locks
           /\ y \in JobType /\ jobs' = [jobs EXCEPT ![j] = y]
  <2>1. /\ DOMAIN jobs' = DOMAIN jobs
        /\ jobs'[j] = y /\ \A i \in DOMAIN jobs : i # j => jobs'[i] = jobs[i]
    BY <1>2, <1>9, Replaced
  <2>2. /\ WorkersKept /\ workers'[w] = x
        /\ \A v \in DOMAIN workers : v # w => workers'[v] = workers[v]
    BY <1>0, <1>1, <1>2, WorkerSet
  <2>3. /\ WorkersOK' /\ RetriesOK' /\ Owners' \ {j} = Owners \ {j}
    BY <1>0, <1>1, <1>4, <1>5, <2>1, <2>2, WorkerChange
  <2>4. j \in Owners
    BY <1>0, <1>6, <1>9 DEF Owners, Owns, WorkersOf
  <2>5. Owners' \subseteq Owners
    BY <2>3, <2>4
  <2>6. \A i \in Owners' : jobs'[i].repo = jobs[i].repo
    BY <1>4, <2>1 DEF Owners
  <2>7. LocksOK'
    BY <1>1, <1>9, <2>5, <2>6, LocksStay DEF Exclusive, embedVars
  <2> QED BY <2>3, <2>7 DEF Exclusive
<1> QED BY <1>1, <1>7, <1>8, <1>9

-----------------------------------------------------------------------------
(* The locks exclude: embeddings and deletions *)

(* The jobs and their workers stay as they are. *)
LEMMA JobsStay ==
  ASSUME Exclusive, UNCHANGED <<jobs, workers>>
  PROVE  WorkersOK' /\ RetriesOK' /\ \A r \in Repos : JobsOn(r)' = JobsOn(r)
<1>1. WorkersOK'
  BY DEF Exclusive, WorkersOK, WorkerOK, Owing, Current
<1> QED BY <1>1, JobsOnSame DEF Exclusive, RetriesOK

(* A pipeline starts under a lock that was free. *)
LEMMA EmbedRequestExcludes ==
  ASSUME Inv, Exclusive, Quiet, NEW r \in Repos, EmbedRequest(r) PROVE Exclusive'
<1>1. /\ r \notin locks /\ locks' = locks \cup {r} /\ UNCHANGED <<jobs, workers, deleting>>
      /\ \E k \in EmbedIds : embeds' = Append(embeds, Pipeline(k, r))
  <2>1. r \notin locks /\ locks' = locks \cup {r} /\ UNCHANGED <<jobs, workers, deleting>>
    BY DEF EmbedRequest
  <2>2. \/ /\ Len(embeds) < MaxEmbeds
           /\ embeds' = Append(embeds, Pipeline(Len(embedJobs) + 1, r))
        \/ \E k \in DOMAIN embedJobs : embeds' = Append(embeds, Pipeline(k, r))
    BY DEF EmbedRequest, Quiet, ActiveEmbeds
  <2>3. embeds \in Seq(EmbedType) /\ embedJobs \in Seq(EmbedJobType) /\ Len(embeds) <= MaxEmbeds
        /\ Len(embedJobs) <= Len(embeds)
    BY EmbedTypes DEF Inv, Types
  <2>4. Len(embeds) < MaxEmbeds => Len(embedJobs) + 1 \in EmbedIds
    BY <2>3, ServerJobsConstants DEF EmbedIds
  <2>5. DOMAIN embedJobs \subseteq EmbedIds
    BY <2>3, ServerJobsConstants DEF EmbedIds
  <2> QED BY <2>1, <2>2, <2>4, <2>5
<1>2. PICK k \in EmbedIds : embeds' = Append(embeds, Pipeline(k, r))
  BY <1>1
<1> DEFINE p == Pipeline(k, r)
<1>3. p \in EmbedType /\ p.repo = r /\ p.running = TRUE
  BY DEF Pipeline, EmbedType
<1> HIDE DEF p
<1>4. PICK new : /\ DOMAIN embeds' = DOMAIN embeds \cup {new} /\ new \notin DOMAIN embeds
                 /\ embeds'[new] = p /\ \A e \in DOMAIN embeds : embeds'[e] = embeds[e]
  <2>1. embeds \in Seq(EmbedType) /\ embeds' = Append(embeds, p)
    BY <1>2, EmbedTypes DEF p
  <2> QED BY <1>3, <2>1, Appended
<1>5. WorkersOK' /\ RetriesOK' /\ \A s \in Repos : JobsOn(s)' = JobsOn(s)
  BY <1>1, JobsStay
<1>6. LocksOK'
  <2> SUFFICES ASSUME NEW s \in Repos PROVE LockOK(s)'
    BY DEF LocksOK
  <2>1. JobsOn(s)' = JobsOn(s) /\ deleting'[s] = deleting[s]
    BY <1>1, <1>5
  <2>2. LockOK(s)
    BY DEF Exclusive, LocksOK
  <2>3. CASE s = r
    <3>1. JobsOn(s) = {} /\ EmbedsOn(s) = {} /\ deleting[s] = 0
      BY <1>1, <2>2, <2>3 DEF LockOK
    <3>2. EmbedsOn(s)' = {new}
      BY <1>3, <1>4, <2>3, <3>1 DEF EmbedsOn
    <3> QED BY <1>1, <1>4, <2>1, <2>3, <3>1, <3>2 DEF LockOK
  <2>4. CASE s # r
    <3>1. EmbedsOn(s)' = EmbedsOn(s)
      BY <1>3, <1>4, <2>4 DEF EmbedsOn
    <3>2. DOMAIN jobs' = DOMAIN jobs /\ DOMAIN embeds \subseteq DOMAIN embeds'
          /\ (s \in locks => s \in locks')
      BY <1>1, <1>4
    <3> QED BY <2>1, <2>2, <3>1, <3>2 DEF LockOK
  <2> QED BY <2>3, <2>4
<1> QED BY <1>5, <1>6 DEF Exclusive

(* It gives the lock back when it ends. *)
LEMMA EmbedEndsExcludes ==
  ASSUME Inv, Exclusive, NEW e \in DOMAIN embeds, EmbedEnds(e) PROVE Exclusive'
<1> DEFINE x == [embeds[e] EXCEPT !.running = FALSE, !.timer = FALSE]
<1>1. embeds \in Seq(EmbedType) /\ embeds[e] \in EmbedType
  BY EmbedTypes
<1>2. x \in EmbedType /\ x.job = embeds[e].job /\ ~x.running
  BY <1>1 DEF EmbedType
<1>3. embeds' = [embeds EXCEPT ![e] = x] /\ embeds[e].running
      /\ locks' = locks \ {embeds[e].repo} /\ UNCHANGED <<jobs, workers, deleting>>
  BY <1>1 DEF EmbedEnds, EmbedType
<1> HIDE DEF x
<1>4. /\ DOMAIN embeds' = DOMAIN embeds /\ embeds'[e] = x
      /\ \A d \in DOMAIN embeds : d # e => embeds'[d] = embeds[d]
  BY <1>2, <1>3, PipelineSet
<1>5. WorkersOK' /\ RetriesOK' /\ \A s \in Repos : JobsOn(s)' = JobsOn(s)
  BY <1>3, JobsStay
<1>6. LocksOK'
  <2> SUFFICES ASSUME NEW s \in Repos PROVE LockOK(s)'
    BY DEF LocksOK
  <2>1. JobsOn(s)' = JobsOn(s) /\ deleting'[s] = deleting[s] /\ DOMAIN jobs' = DOMAIN jobs
    BY <1>3, <1>5
  <2>2. LockOK(s)
    BY DEF Exclusive, LocksOK
  <2>3. CASE s = embeds[e].repo
    <3>1. e \in EmbedsOn(s)
      BY <1>3, <2>3 DEF EmbedsOn
    <3>2. JobsOn(s) = {} /\ EmbedsOn(s) = {e} /\ deleting[s] = 0
      BY <2>2, <3>1 DEF LockOK
    <3>3. EmbedsOn(s)' = {}
      BY <1>2, <1>4, <3>2 DEF EmbedsOn
    <3> QED BY <2>1, <3>2, <3>3 DEF LockOK
  <2>4. CASE s # embeds[e].repo
    <3>1. EmbedsOn(s)' = EmbedsOn(s)
      <4>1. e \notin EmbedsOn(s) /\ e \notin EmbedsOn(s)'
        BY <1>2, <1>4, <2>4 DEF EmbedsOn
      <4> QED BY <1>4, <4>1 DEF EmbedsOn
    <3>2. s \in locks => s \in locks'
      BY <1>3, <2>4
    <3> QED BY <1>4, <2>1, <2>2, <3>1, <3>2 DEF LockOK
  <2> QED BY <2>3, <2>4
<1> QED BY <1>5, <1>6 DEF Exclusive

(* A deletion starts under a lock that was free. *)
LEMMA DeleteRepoExcludes ==
  ASSUME Inv, Exclusive, NEW r \in Repos, DeleteRepo(r) PROVE Exclusive'
<1>1. /\ r \notin locks /\ locks' = locks \cup {r} /\ UNCHANGED <<jobs, workers, embeds>>
      /\ deleting' = [deleting EXCEPT ![r] = deleting[r] + 1] /\ deleting \in [Repos -> Nat]
  BY DEF DeleteRepo, embedVars, Inv, Types
<1>2. WorkersOK' /\ RetriesOK' /\ \A s \in Repos : JobsOn(s)' = JobsOn(s)
  BY <1>1, JobsStay
<1>3. LocksOK'
  <2> SUFFICES ASSUME NEW s \in Repos PROVE LockOK(s)'
    BY DEF LocksOK
  <2>1. JobsOn(s)' = JobsOn(s) /\ EmbedsOn(s)' = EmbedsOn(s) /\ LockOK(s)
    BY <1>1, <1>2 DEF EmbedsOn, Exclusive, LocksOK
  <2>2. CASE s = r
    <3>1. JobsOn(s) = {} /\ EmbedsOn(s) = {} /\ deleting[s] = 0
      BY <1>1, <2>1, <2>2 DEF LockOK
    <3>2. deleting'[s] = 1
      BY <1>1, <2>2, <3>1
    <3> QED BY <1>1, <2>1, <2>2, <3>1, <3>2 DEF LockOK
  <2>3. CASE s # r
    BY <1>1, <2>1, <2>3 DEF LockOK
  <2> QED BY <2>2, <2>3
<1> QED BY <1>2, <1>3 DEF Exclusive

(* It gives the lock back when it ends. *)
LEMMA RepoDeletedExcludes ==
  ASSUME Inv, Exclusive, NEW r \in Repos, RepoDeleted(r) PROVE Exclusive'
<1>1. /\ deleting[r] > 0 /\ locks' = locks \ {r} /\ UNCHANGED <<jobs, workers, embeds>>
      /\ deleting' = [deleting EXCEPT ![r] = deleting[r] - 1] /\ deleting \in [Repos -> Nat]
  BY DEF RepoDeleted, embedVars, Inv, Types
<1>2. WorkersOK' /\ RetriesOK' /\ \A s \in Repos : JobsOn(s)' = JobsOn(s)
  BY <1>1, JobsStay
<1>3. LocksOK'
  <2> SUFFICES ASSUME NEW s \in Repos PROVE LockOK(s)'
    BY DEF LocksOK
  <2>1. JobsOn(s)' = JobsOn(s) /\ EmbedsOn(s)' = EmbedsOn(s) /\ LockOK(s)
    BY <1>1, <1>2 DEF EmbedsOn, Exclusive, LocksOK
  <2>2. CASE s = r
    <3>1. JobsOn(s) = {} /\ EmbedsOn(s) = {} /\ deleting[s] = 1
      BY <1>1, <2>1, <2>2 DEF LockOK
    <3>2. deleting'[s] = 0
      BY <1>1, <2>2, <3>1
    <3> QED BY <2>1, <3>1, <3>2 DEF LockOK
  <2>3. CASE s # r
    BY <1>1, <2>1, <2>3 DEF LockOK
  <2> QED BY <2>2, <2>3
<1> QED BY <1>2, <1>3 DEF Exclusive

-----------------------------------------------------------------------------

(* Nobody works at the start. *)
LEMMA InitExclusive == Init => Exclusive
<1> SUFFICES ASSUME Init PROVE Exclusive
  OBVIOUS
<1>1. WorkersOK /\ RetriesOK
  BY DEF Init, WorkersOK, RetriesOK
<1>2. \A r \in Repos : JobsOn(r) = {} /\ EmbedsOn(r) = {} /\ deleting[r] = 0
  BY DEF Init, JobsOn, Owners, EmbedsOn
<1> QED BY <1>1, <1>2 DEF Exclusive, LocksOK, LockOK

(* Every step leaves the locks with their owners, when only quiet events happen. *)
LEMMA NextExclusive == Quiet => (Inv /\ Exclusive /\ [Next]_vars => Exclusive')
<1> SUFFICES ASSUME Quiet, Inv, Exclusive, [Next]_vars PROVE Exclusive'
  OBVIOUS
<1>1. ASSUME NEW r \in Repos,
             CreateJob(r) \/ EmbedRequest(r) \/ DeleteRepo(r) \/ RepoDeleted(r)
      PROVE  Exclusive'
  BY <1>1, CreateJobExcludes, EmbedRequestExcludes, DeleteRepoExcludes, RepoDeletedExcludes
<1>2. ASSUME NEW j \in DOMAIN jobs, CloneDone(j) \/ CloneFails(j) \/ RetryFork(j) \/ CancelJob(j)
      PROVE  Exclusive'
  BY <1>2, CloneDoneExcludes, RetryForkExcludes DEF CloneFails, CancelJob, Quiet
<1>3. ASSUME NEW w \in DOMAIN workers,
             \/ Boot(w) \/ Progress(w) \/ Finish(w) \/ Uncaught(w) \/ Terminate(w)
             \/ Leave(w) \/ Crash(w)
             \/ TimerFires(w) \/ OnMessage(w) \/ InitDone(w) \/ OnError(w) \/ OnExit(w)
      PROVE  Exclusive'
  <2>1. ~TimerFires(w)
    BY DEF TimerFires, Quiet
  <2> QED BY <1>3, <2>1, WorkerActsExclude, OnMessageExcludes, InitDoneExcludes,
             OnErrorExcludes, OnExitExcludes
<1>4. CASE UNCHANGED <<jobs, workers, embeds, deleting, locks>>
  <2>1. WorkersOK' /\ RetriesOK' /\ Owners' = Owners
    BY <1>4, JobsStay, JobsOnSame
  <2>2. LocksOK'
    BY <1>4, <2>1, LocksStay DEF Exclusive
  <2> QED BY <2>1, <2>2 DEF Exclusive
<1>5. ASSUME NEW e \in DOMAIN embeds, EmbedEnds(e) \/ EmbedTimeout(e) PROVE Exclusive'
  BY <1>5, EmbedEndsExcludes DEF EmbedTimeout, Quiet
<1>6. ASSUME NEW k \in DOMAIN embedJobs, CancelEmbed(k) PROVE Exclusive'
  BY <1>4, <1>6 DEF CancelEmbed
<1>7. CASE UNCHANGED vars
  BY <1>4, <1>7 DEF vars
<1> QED BY <1>1, <1>2, <1>3, <1>5, <1>6, <1>7 DEF Next

(* The invariant of the locks, when no event takes one from its owner. *)
THEOREM LocksInvariant == ASSUME Quiet PROVE Spec => [](Inv /\ Exclusive)
<1>1. Init => Inv /\ Exclusive
  BY InitInv, InitExclusive
<1>2. Inv /\ Exclusive /\ [Next]_vars => (Inv /\ Exclusive)'
  BY NextInv, NextExclusive
<1> QED BY <1>1, <1>2, PTL DEF Spec

(* Whoever works on the database of a repository is an owner of its lock. *)
LEMMA WorkersOwn ==
  ASSUME Inv, Exclusive, NEW r \in Repos
  PROVE  /\ \A w \in WorkersOn(r) : workers[w].job \in JobsOn(r)
         /\ \A v, w \in WorkersOn(r) : workers[v].job = workers[w].job => v = w
<1>1. ASSUME NEW w \in WorkersOn(r)
      PROVE  workers[w].job \in JobsOn(r) /\ Current(w) /\ w \in DOMAIN workers
  <2>1. w \in DOMAIN workers /\ workers[w].analyzing /\ jobs[workers[w].job].repo = r
        /\ workers[w].job \in DOMAIN jobs
    BY DEF WorkersOn, Inv, Types
  <2>2. Current(w) /\ Owing(w)
    BY <2>1 DEF Exclusive, WorkersOK, WorkerOK, Owing, Current
  <2> QED BY <2>1, <2>2 DEF JobsOn, Owners, Owns, WorkersOf
<1> QED BY <1>1 DEF Inv, OneCurrent

(* A set of at most one element. *)
LEMMA AtMostOne ==
  ASSUME NEW S, NEW x, S \subseteq {x}
  PROVE  Cardinality(S) \in {0, 1} /\ (S = {} => Cardinality(S) = 0)
<1>1. S = {} \/ S = {x}
  OBVIOUS
<1> QED BY <1>1, FS_EmptySet, FS_Singleton

(* Who works on a repository is alone, and holds its lock. *)
LEMMA ExclusiveUsers ==
  Inv /\ Exclusive => \A r \in Repos : Users(r) <= 1 /\ (Users(r) > 0 => r \in locks)
<1> SUFFICES ASSUME Inv, Exclusive, NEW r \in Repos
             PROVE  Users(r) <= 1 /\ (Users(r) > 0 => r \in locks)
  OBVIOUS
<1>1. LockOK(r) /\ deleting[r] \in Nat
  BY DEF Exclusive, LocksOK, Inv, Types
<1>2. JobsOn(r) = {} => WorkersOn(r) = {}
  BY WorkersOwn
<1>3. ASSUME NEW j, JobsOn(r) = {j} PROVE \E w : WorkersOn(r) \subseteq {w}
  <2>1. \A v, w \in WorkersOn(r) : v = w
    BY <1>3, WorkersOwn
  <2> QED BY <2>1
<1>4. Cardinality({}) = 0
  BY FS_EmptySet
<1>5. CASE JobsOn(r) = {} /\ EmbedsOn(r) = {}
  BY <1>1, <1>2, <1>4, <1>5 DEF LockOK, Users
<1>6. CASE r \in locks /\ (\E j : JobsOn(r) = {j}) /\ EmbedsOn(r) = {} /\ deleting[r] = 0
  <2>1. PICK w : WorkersOn(r) \subseteq {w}
    BY <1>3, <1>6
  <2>2. Cardinality(WorkersOn(r)) \in {0, 1}
    BY <2>1, AtMostOne
  <2> QED BY <1>4, <1>6, <2>2 DEF Users
<1>7. CASE r \in locks /\ JobsOn(r) = {} /\ (\E e : EmbedsOn(r) = {e}) /\ deleting[r] = 0
  <2>1. PICK e : EmbedsOn(r) = {e}
    BY <1>7
  <2>2. Cardinality(EmbedsOn(r)) \in {0, 1}
    BY <2>1, AtMostOne
  <2> QED BY <1>2, <1>4, <1>7, <2>2 DEF Users
<1> QED BY <1>1, <1>5, <1>6, <1>7 DEF LockOK

(* Analyses, embeddings and deletions of one repository never overlap, also when a
   worker dies and is forked again. *)
THEOREM LocksExclude == ASSUME Quiet PROVE Spec => []MutualExclusion
<1>1. Inv /\ Exclusive => MutualExclusion
  BY ExclusiveUsers DEF MutualExclusion
<1> QED BY <1>1, LocksInvariant, PTL

(* The lock is held by whoever works on the database, until the work ends. *)
THEOREM LocksAreHeld == ASSUME Quiet PROVE Spec => []UsersHoldLock
<1>1. Inv /\ Exclusive => UsersHoldLock
  BY ExclusiveUsers DEF UsersHoldLock
<1> QED BY <1>1, LocksInvariant, PTL
=============================================================================
