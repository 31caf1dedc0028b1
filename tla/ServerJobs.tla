----------------------------- MODULE ServerJobs -----------------------------
(***************************************************************************)
(* The jobs of the HTTP server (packages/core/src/server): the analyze     *)
(* jobs of JobManager and the worker processes that run them, embedding    *)
(* jobs, which run in the server itself, deletions of repositories, and    *)
(* the set of repository locks that is to keep them apart.                 *)
(*                                                                         *)
(* The server is one event loop: an action is what it does between two     *)
(* awaits or in one callback.  Worker processes run beside it; what they   *)
(* send arrives in order, and before the news of their exit.               *)
(***************************************************************************)
EXTENDS Integers, Sequences, FiniteSets

CONSTANTS
  Repos,      \* repositories, by the path of their storage
  MaxRetries, \* MAX_WORKER_RETRIES
  Events,     \* what may happen besides requests and their success
  MaxJobs,    \* bound on the analyze jobs ever created
  MaxEmbeds,  \* bound on the embedding pipelines ever started
  MaxDeletes, \* bound on the deletions of a repository at a time
  MaxUnread   \* bound on the unread messages of a worker that reports progress

AllEvents == {"crash",        \* a worker dies
              "uncaught",     \* a worker reports an error and goes on for a while
              "spawnFails",   \* a worker cannot be started
              "cloneFails",   \* git clone or git pull fails
              "initFails",    \* backend.init rejects
              "slowInit",     \* backend.init takes longer than the worker's exit
              "cancel",       \* a user cancels an analyze job
              "timeout",      \* the 30-minute limit of a worker
              "embedCancel",  \* a user cancels an embedding job
              "embedTimeout", \* the 30-minute limit of an embedding job
              "embedClash"}   \* two embedding requests for two repositories

ASSUME ServerJobsConstants ==
  /\ MaxRetries \in Nat /\ MaxJobs \in Nat /\ MaxEmbeds \in Nat
  /\ MaxDeletes \in Nat /\ MaxUnread \in Nat
  /\ Events \subseteq AllEvents

VARIABLES
  jobs,       \* the analyze jobs, in the order of their creation
  workers,    \* the worker processes ever forked
  embedJobs,  \* the embedding jobs
  embeds,     \* the embedding pipelines ever started
  deleting,   \* how many requests are deleting each repository
  locks       \* activeRepoPaths

vars == <<jobs, workers, embedJobs, embeds, deleting, locks>>
embedVars == <<embedJobs, embeds>>

Init ==
  /\ jobs = <<>>
  /\ workers = <<>>
  /\ embedJobs = <<>>
  /\ embeds = <<>>
  /\ deleting = [r \in Repos |-> 0]
  /\ locks = {}

Terminal(status) == status \in {"complete", "failed"}

-----------------------------------------------------------------------------
(* Analyze jobs: the request, the clone, the fork *)

NewJob(r) == [repo |-> r, status |-> "cloning", retries |-> 0,
              cloning |-> FALSE,    \* cloneOrPull is awaited
              retrying |-> FALSE]   \* setTimeout(forkWorker) is pending

NewWorker(j, proc) ==
  [job |-> j,
   proc |-> proc,         \* "unspawned", "boot", "up", "gone" or "reaped"
   analyzing |-> FALSE,   \* it works on the database
   signal |-> FALSE,      \* SIGTERM is on its way
   leaving |-> FALSE,     \* process.exit is due
   timer |-> TRUE,        \* the limit of registerChild has not fired
   mail |-> <<>>,         \* what it sent and the server has not read
   init |-> FALSE]        \* backend.init for its result is pending

\* forkWorker, for a job that is not over.
Fork(j) ==
  \E proc \in {"boot"} \cup (IF "spawnFails" \in Events THEN {"unspawned"} ELSE {}) :
    workers' = Append(workers, NewWorker(j, proc))

\* Acquire the lock for job j of js, mark the job analyzing whatever it was
\* before, and fork; or fail.
Begin(js, j) ==
  \/ /\ js[j].repo \in locks
     /\ jobs' = [js EXCEPT ![j].status = "failed"]
     /\ UNCHANGED <<workers, locks>>
  \/ /\ js[j].repo \notin locks
     /\ locks' = locks \cup {js[j].repo}
     /\ jobs' = [js EXCEPT ![j].status = "analyzing"]
     /\ Fork(j)

\* POST /api/analyze, when no job is active; otherwise it answers with the job of
\* the same repository or refuses, and changes nothing.  For a path everything up
\* to the fork happens at once, for a URL the clone comes first.
CreateJob(r) ==
  /\ \A j \in DOMAIN jobs : Terminal(jobs[j].status)
  /\ Len(jobs) < MaxJobs
  /\ \/ Begin(Append(jobs, NewJob(r)), Len(jobs) + 1)
     \/ /\ jobs' = Append(jobs, [NewJob(r) EXCEPT !.cloning = TRUE])
        /\ UNCHANGED <<workers, locks>>
  /\ UNCHANGED <<embedVars, deleting>>

CloneDone(j) ==
  /\ jobs[j].cloning
  /\ Begin([jobs EXCEPT ![j].cloning = FALSE], j)
  /\ UNCHANGED <<embedVars, deleting>>

\* The catch block releases the lock of the repository, whoever holds it.
CloneFails(j) ==
  /\ "cloneFails" \in Events
  /\ jobs[j].cloning
  /\ jobs' = [jobs EXCEPT ![j].cloning = FALSE, ![j].status = "failed"]
  /\ locks' = locks \ {jobs[j].repo}
  /\ UNCHANGED <<workers, embedVars, deleting>>

\* Mutant of RetryFork: the timer is not one-shot.
RetryForkRepeatedly(j) ==
  /\ jobs[j].retrying
  /\ ~Terminal(jobs[j].status)
  /\ Fork(j)
  /\ UNCHANGED <<jobs, embedVars, deleting, locks>>

\* The delay of a retry is over: forkWorker gives up on a job that ended.
RetryFork(j) ==
  /\ jobs[j].retrying
  /\ jobs' = [jobs EXCEPT ![j].retrying = FALSE]
  /\ IF Terminal(jobs[j].status) THEN UNCHANGED workers ELSE Fork(j)
  /\ UNCHANGED <<embedVars, deleting, locks>>

\* children.get(jobId): the last worker of job j.
IsChild(ws, w, j) == ws[w].job = j /\ \A v \in DOMAIN ws : v > w => ws[v].job # j

\* cancelJob, where ws are the workers: SIGTERM to the child, if it still runs,
\* and the job has failed.  The lock is left to what the worker answers.
Abort(j, ws) ==
  /\ ~Terminal(jobs[j].status)
  /\ jobs' = [jobs EXCEPT ![j].status = "failed"]
  /\ workers' = [w \in DOMAIN ws |->
                   IF IsChild(ws, w, j) /\ ws[w].proc \in {"boot", "up"}
                     THEN [ws[w] EXCEPT !.signal = TRUE] ELSE ws[w]]
  /\ UNCHANGED <<embedVars, deleting, locks>>

CancelJob(j) == "cancel" \in Events /\ Abort(j, workers)

\* The timer of registerChild; it does nothing when the job is over.
TimerFires(w) ==
  LET fired == [workers EXCEPT ![w].timer = FALSE] IN
  /\ "timeout" \in Events
  /\ workers[w].timer
  /\ \/ Abort(workers[w].job, fired)
     \/ /\ Terminal(jobs[workers[w].job].status)
        /\ workers' = fired
        /\ UNCHANGED <<jobs, embedVars, deleting, locks>>

-----------------------------------------------------------------------------
(* The worker process *)

\* Only worker w changes.
WorkerStep(w, x) ==
  /\ workers' = [workers EXCEPT ![w] = x]
  /\ UNCHANGED <<jobs, embedVars, deleting, locks>>

Sent(x, message) == [x EXCEPT !.mail = Append(@, message)]

\* The module is loaded: handlers are in place, the start message is read.
Boot(w) ==
  /\ workers[w].proc = "boot" /\ ~workers[w].signal
  /\ WorkerStep(w, [workers[w] EXCEPT !.proc = "up", !.analyzing = TRUE])

\* A progress message; of several unread ones in a row the first stands for all.
Progress(w) ==
  LET x == workers[w] IN
  /\ x.proc = "up" /\ x.analyzing
  /\ Len(x.mail) < MaxUnread
  /\ x.mail # <<>> => x.mail[Len(x.mail)] # "progress"
  /\ WorkerStep(w, Sent(x, "progress"))

\* runFullAnalysis returns or throws; the process leaves half a second later.
Finish(w) ==
  LET x == [workers[w] EXCEPT !.analyzing = FALSE, !.leaving = TRUE] IN
  /\ workers[w].proc = "up" /\ workers[w].analyzing
  /\ WorkerStep(w, Sent(x, "complete")) \/ WorkerStep(w, Sent(x, "error"))

\* An uncaught exception: the analysis may go on until the process leaves.
Uncaught(w) ==
  /\ "uncaught" \in Events
  /\ workers[w].proc = "up" /\ ~workers[w].leaving
  /\ WorkerStep(w, Sent([workers[w] EXCEPT !.leaving = TRUE], "error"))

\* SIGTERM: fatal before the handler is there, and answered by it afterwards,
\* while the analysis goes on until the database is closed.
Terminate(w) ==
  LET x == [workers[w] EXCEPT !.signal = FALSE] IN
  /\ workers[w].signal
  /\ \/ /\ x.proc = "boot"
        /\ WorkerStep(w, [x EXCEPT !.proc = "gone"])
     \/ /\ x.proc = "up"
        /\ WorkerStep(w, Sent([x EXCEPT !.leaving = TRUE], "error"))

\* The process is no more.
Gone(w) == WorkerStep(w, [workers[w] EXCEPT !.proc = "gone", !.analyzing = FALSE,
                                            !.signal = FALSE])

\* process.exit.
Leave(w) == workers[w].proc = "up" /\ workers[w].leaving /\ Gone(w)

\* Out of memory, or a fault of a native module.
Crash(w) == "crash" \in Events /\ workers[w].proc \in {"boot", "up"} /\ Gone(w)

-----------------------------------------------------------------------------
(* What the server does about its workers *)

\* updateJob: job j gets a status, whatever it had.
UpdateJob(j, status) == jobs' = [jobs EXCEPT ![j].status = status]

Release(j) == locks' = locks \ {jobs[j].repo}

\* Mutant of Fail: the lock is kept.
FailLocked(j) == UpdateJob(j, "failed") /\ UNCHANGED locks

Fail(j) == UpdateJob(j, "failed") /\ Release(j)

\* child.on('message').
OnMessage(w) ==
  LET j == workers[w].job
      read == [workers[w] EXCEPT !.mail = Tail(@)]
  IN
  /\ workers[w].mail # <<>>
  /\ \/ /\ Head(workers[w].mail) = "progress"
        /\ UpdateJob(j, "analyzing")
        /\ workers' = [workers EXCEPT ![w] = read]
        /\ UNCHANGED locks
     \/ /\ Head(workers[w].mail) = "complete"
        /\ Release(j)
        /\ workers' = [workers EXCEPT ![w] = [read EXCEPT !.init = TRUE]]
        /\ UNCHANGED jobs
     \/ /\ Head(workers[w].mail) = "error"
        /\ Fail(j)
        /\ workers' = [workers EXCEPT ![w] = read]
  /\ UNCHANGED <<embedVars, deleting>>

\* backend.init of a complete message resolves or rejects.
InitDone(w) ==
  /\ workers[w].init
  /\ \/ UpdateJob(workers[w].job, "complete")
     \/ "initFails" \in Events /\ UpdateJob(workers[w].job, "failed")
  /\ workers' = [workers EXCEPT ![w].init = FALSE]
  /\ UNCHANGED <<embedVars, deleting, locks>>

\* child.on('error') of a process that could not be started; its timer stays.
OnError(w) ==
  /\ workers[w].proc = "unspawned"
  /\ workers' = [workers EXCEPT ![w].proc = "reaped"]
  /\ Fail(workers[w].job)
  /\ UNCHANGED <<embedVars, deleting>>

\* Mutant of Retry: one retry too many.
RetryOnceMore(j) ==
  /\ jobs[j].retries <= MaxRetries
  /\ jobs' = [jobs EXCEPT ![j].retries = @ + 1, ![j].status = "analyzing",
                          ![j].retrying = TRUE]
  /\ UNCHANGED locks

\* Mutant of Retry: the lock is released while the retry is due.
RetryUnlocked(j) ==
  /\ jobs[j].retries < MaxRetries
  /\ jobs' = [jobs EXCEPT ![j].retries = @ + 1, ![j].status = "analyzing",
                          ![j].retrying = TRUE]
  /\ Release(j)

\* A crashed worker is forked again after a delay; the lock stays.
Retry(j) ==
  /\ jobs[j].retries < MaxRetries
  /\ jobs' = [jobs EXCEPT ![j].retries = @ + 1, ![j].status = "analyzing",
                          ![j].retrying = TRUE]
  /\ UNCHANGED locks

\* Mutant of GiveUp: nobody says that the retries are used up.
GiveUpSilently(j) ==
  /\ jobs[j].retries >= MaxRetries
  /\ Release(j)
  /\ UNCHANGED jobs

GiveUp(j) ==
  /\ jobs[j].retries >= MaxRetries
  /\ Fail(j)

\* The exit event of w and its two handlers: registerChild's clears the timer,
\* the other takes the exit for a crash when the job is not over.
OnExit(w) ==
  LET j == workers[w].job IN
  /\ workers[w].proc = "gone" /\ workers[w].mail = <<>>
  /\ workers[w].init => "slowInit" \in Events
  /\ workers' = [workers EXCEPT ![w].proc = "reaped", ![w].timer = FALSE]
  /\ IF Terminal(jobs[j].status) THEN UNCHANGED <<jobs, locks>>
     ELSE Retry(j) \/ GiveUp(j)
  /\ UNCHANGED <<embedVars, deleting>>

-----------------------------------------------------------------------------
(* Embedding jobs and deletions, which run in the server *)

ActiveEmbeds == {k \in DOMAIN embedJobs : ~Terminal(embedJobs[k].status)}

\* A pipeline starts for embedding job k of repository r.
Pipeline(k, r) == [job |-> k, repo |-> r, running |-> TRUE, timer |-> TRUE]

\* POST /api/embed: lock first, then createJob, which may answer with the active
\* job of the repository or, for another one, throw: the lock is kept then.
EmbedRequest(r) ==
  /\ r \notin locks
  /\ locks' = locks \cup {r}
  /\ \/ /\ ActiveEmbeds = {} /\ Len(embeds) < MaxEmbeds
        /\ embedJobs' = Append(embedJobs, [repo |-> r, status |-> "analyzing"])
        /\ embeds' = Append(embeds, Pipeline(Len(embedJobs) + 1, r))
     \/ \E k \in ActiveEmbeds :
          /\ embedJobs[k].repo = r /\ Len(embeds) < MaxEmbeds
          /\ embeds' = Append(embeds, Pipeline(k, r))
          /\ UNCHANGED embedJobs
     \/ /\ "embedClash" \in Events
        /\ ActiveEmbeds # {} /\ \A k \in ActiveEmbeds : embedJobs[k].repo # r
        /\ UNCHANGED embedVars
  /\ UNCHANGED <<jobs, workers, deleting>>

\* Mutant of EmbedResult: a cancelled job completes after all.
EmbedResultAlways(k, status) == embedJobs' = [embedJobs EXCEPT ![k].status = status]

\* The outcome of a pipeline does not overwrite a failure.
EmbedResult(k, status) ==
  embedJobs' = [embedJobs EXCEPT ![k].status = IF @ = "failed" THEN @ ELSE status]

\* The pipeline ends, well or not: the lock is released in both cases.
EmbedEnds(e) ==
  /\ embeds[e].running
  /\ embeds' = [embeds EXCEPT ![e].running = FALSE, ![e].timer = FALSE]
  /\ locks' = locks \ {embeds[e].repo}
  /\ \E status \in {"complete", "failed"} : EmbedResult(embeds[e].job, status)
  /\ UNCHANGED <<jobs, workers, deleting>>

\* The timeout releases the lock of a pipeline that goes on.
EmbedTimeout(e) ==
  /\ "embedTimeout" \in Events
  /\ embeds[e].timer
  /\ embeds' = [embeds EXCEPT ![e].timer = FALSE]
  /\ IF Terminal(embedJobs[embeds[e].job].status) THEN UNCHANGED <<embedJobs, locks>>
     ELSE /\ locks' = locks \ {embeds[e].repo}
          /\ embedJobs' = [embedJobs EXCEPT ![embeds[e].job].status = "failed"]
  /\ UNCHANGED <<jobs, workers, deleting>>

\* Mutant of CancelEmbed: the lock is released at once.
CancelEmbedUnlock(k) ==
  /\ "embedCancel" \in Events
  /\ k \in ActiveEmbeds
  /\ embedJobs' = [embedJobs EXCEPT ![k].status = "failed"]
  /\ locks' = locks \ {embedJobs[k].repo}
  /\ UNCHANGED <<jobs, workers, embeds, deleting>>

\* DELETE /api/embed: there is no child to stop, the pipeline goes on.
CancelEmbed(k) ==
  /\ "embedCancel" \in Events
  /\ k \in ActiveEmbeds
  /\ embedJobs' = [embedJobs EXCEPT ![k].status = "failed"]
  /\ UNCHANGED <<jobs, workers, embeds, deleting, locks>>

\* DELETE /api/repo holds the lock while it removes the files.
DeleteRepo(r) ==
  /\ r \notin locks
  /\ deleting[r] < MaxDeletes
  /\ locks' = locks \cup {r}
  /\ deleting' = [deleting EXCEPT ![r] = @ + 1]
  /\ UNCHANGED <<jobs, workers, embedVars>>

RepoDeleted(r) ==
  /\ deleting[r] > 0
  /\ deleting' = [deleting EXCEPT ![r] = @ - 1]
  /\ locks' = locks \ {r}
  /\ UNCHANGED <<jobs, workers, embedVars>>

-----------------------------------------------------------------------------

Next ==
  \/ \E r \in Repos :
       CreateJob(r) \/ EmbedRequest(r) \/ DeleteRepo(r) \/ RepoDeleted(r)
  \/ \E j \in DOMAIN jobs :
       CloneDone(j) \/ CloneFails(j) \/ RetryFork(j) \/ CancelJob(j)
  \/ \E w \in DOMAIN workers :
       \/ Boot(w) \/ Progress(w) \/ Finish(w) \/ Uncaught(w) \/ Terminate(w)
       \/ Leave(w) \/ Crash(w)
       \/ TimerFires(w) \/ OnMessage(w) \/ InitDone(w) \/ OnError(w) \/ OnExit(w)
  \/ \E e \in DOMAIN embeds : EmbedEnds(e) \/ EmbedTimeout(e)
  \/ \E k \in DOMAIN embedJobs : CancelEmbed(k)

Spec == Init /\ [][Next]_vars

JobIds == 1..MaxJobs
WorkerIds == 1..(MaxJobs * (MaxRetries + 1))
EmbedIds == 1..MaxEmbeds

\* The event loop of the server runs every callback that is due, timers included; git
\* ends, and so does backend.init.  Nothing is said of the workers: one that is busy in
\* native code or in a loop answers no SIGTERM, and nothing stronger is ever sent.
ServerFairness ==
  /\ \A j \in JobIds : /\ WF_vars(j \in DOMAIN jobs /\ (CloneDone(j) \/ CloneFails(j)))
                       /\ WF_vars(j \in DOMAIN jobs /\ RetryFork(j))
  /\ \A w \in WorkerIds : /\ WF_vars(w \in DOMAIN workers /\ OnMessage(w))
                          /\ WF_vars(w \in DOMAIN workers /\ InitDone(w))
                          /\ WF_vars(w \in DOMAIN workers /\ OnError(w))
                          /\ WF_vars(w \in DOMAIN workers /\ OnExit(w))
                          /\ WF_vars(w \in DOMAIN workers /\ TimerFires(w))

\* Work is finite: a worker starts, ends and leaves, and pipelines and deletions end.
WorkFairness ==
  /\ \A w \in WorkerIds : /\ WF_vars(w \in DOMAIN workers /\ Boot(w))
                          /\ WF_vars(w \in DOMAIN workers /\ Finish(w))
                          /\ WF_vars(w \in DOMAIN workers /\ Leave(w))
  /\ \A e \in EmbedIds : WF_vars(e \in DOMAIN embeds /\ EmbedEnds(e))
  /\ \A r \in Repos : WF_vars(RepoDeleted(r))

TimedSpec == Spec /\ ServerFairness
FairSpec == Spec /\ ServerFairness /\ WorkFairness

-----------------------------------------------------------------------------
(* Properties *)

JobType ==
  [repo : Repos, status : {"cloning", "analyzing", "complete", "failed"},
   retries : 0..MaxRetries, cloning : BOOLEAN, retrying : BOOLEAN]

WorkerType ==
  [job : JobIds, proc : {"unspawned", "boot", "up", "gone", "reaped"},
   analyzing : BOOLEAN, signal : BOOLEAN, leaving : BOOLEAN, timer : BOOLEAN,
   mail : Seq({"progress", "complete", "error"}), init : BOOLEAN]

\* Jobs, workers and pipelines are what their records say, a worker and a pipeline
\* belong to a job that exists, and no more are started than the code allows for.
TypeOK ==
  /\ jobs \in Seq(JobType) /\ Len(jobs) <= MaxJobs
  /\ workers \in Seq(WorkerType) /\ Len(workers) <= MaxJobs * (MaxRetries + 1)
  /\ embedJobs \in Seq([repo : Repos, status : {"analyzing", "complete", "failed"}])
  /\ embeds \in Seq([job : EmbedIds, repo : Repos, running : BOOLEAN, timer : BOOLEAN])
  /\ Len(embeds) <= MaxEmbeds
  /\ \A w \in DOMAIN workers : workers[w].job \in DOMAIN jobs
  /\ \A e \in DOMAIN embeds : embeds[e].job \in DOMAIN embedJobs
  /\ deleting \in [Repos -> Nat]
  /\ locks \subseteq Repos

WorkersOn(r) == {w \in DOMAIN workers : workers[w].analyzing /\ jobs[workers[w].job].repo = r}
EmbedsOn(r) == {e \in DOMAIN embeds : embeds[e].running /\ embeds[e].repo = r}

\* How many analyses, embedding pipelines and deletions work on the database of r.
Users(r) == Cardinality(WorkersOn(r)) + Cardinality(EmbedsOn(r)) + deleting[r]

\* What the lock is for: analyses, embeddings and deletions of one repository never
\* overlap, also when a worker dies and is forked again after a delay.
MutualExclusion == \A r \in Repos : Users(r) <= 1

\* The lock stays with whoever works on the database: cancelling an embedding, or
\* the death of a worker, does not give it away while the work goes on.
UsersHoldLock == \A r \in Repos : Users(r) > 0 => r \in locks

\* A job never has two processes, whatever comes late: the fork of a retry finds
\* the worker before it gone.  And it forks at most MaxRetries + 1 workers, although
\* late messages set it to analyzing again after it has ended.
OneWorkerPerJob ==
  /\ \A v, w \in DOMAIN workers :
       /\ workers[v].job = workers[w].job
       /\ {workers[v].proc, workers[w].proc} \subseteq {"boot", "up"}
       => v = w
  /\ \A j \in DOMAIN jobs :
       Cardinality({w \in DOMAIN workers : workers[w].job = j}) <= MaxRetries + 1

\* An embedding job that was cancelled or timed out never completes, although its
\* pipeline goes on to the end.
EmbedFailedStays ==
  [][\A k \in DOMAIN embedJobs :
       embedJobs[k].status = "failed" => embedJobs'[k].status = "failed"]_vars

\* Job j has a process that runs.
HasProcess(j) ==
  \E w \in DOMAIN workers : workers[w].job = j /\ workers[w].proc \in {"boot", "up"}

\* Whatever its workers do, every analyze job is over at some time, and in the end it
\* is over or has a process that runs still: a worker that hangs when its time is up,
\* with a progress message of it unread, leaves the job analyzing; a job whose
\* processes are gone never is.
JobsEnd ==
  \A j \in JobIds :
    /\ <>(j \in DOMAIN jobs) => <>(j \in DOMAIN jobs /\ Terminal(jobs[j].status))
    /\ j \in DOMAIN jobs ~>
         [](j \in DOMAIN jobs /\ (Terminal(jobs[j].status) \/ HasProcess(j)))

\* No lock is held for ever.
LocksReleased == \A r \in Repos : r \in locks ~> r \notin locks

=============================================================================
