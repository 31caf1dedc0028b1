----------------------------- MODULE WorkerPool -----------------------------
(***************************************************************************)
(* The parse phase of packages/core: parse-impl hands batches of files to  *)
(* a pool of worker threads (core/ingestion/workers/worker-pool), each of  *)
(* which runs parse-worker.  A dispatch cuts its batch into one chunk per  *)
(* worker, feeds each worker sub-batch by sub-batch and flushes it; a      *)
(* worker may throw, die, exit or say nothing for too long, and then the   *)
(* whole batch is parsed again on the main thread, without the pool.       *)
(*                                                                         *)
(* Progress and warning messages, which change nothing but a timer, are    *)
(* left out: a timer here may fire whenever it is armed.                   *)
(***************************************************************************)
EXTENDS Naturals, Sequences, SequencesExt

CONSTANTS
  Files,
  Batches,     \* the batches of files, in the order they are parsed
  Size,        \* the number of workers
  SubBatch,    \* files per message to a worker
  StartFails   \* whether a thread may die before it has work

ASSUME PoolAssumption ==
  /\ Batches \in Seq(Seq(Files))
  /\ Size \in Nat \ {0}
  /\ SubBatch \in Nat \ {0}
  /\ StartFails \in BOOLEAN

VARIABLES
  main,     \* the main thread: where it is, the batch, whether it has a pool
  graph,    \* the files whose rows are in the graph, in order
  chunk,    \* the promise of each chunk of the dispatch that runs
  worker    \* the threads, with the messages to and from each

vars == <<main, graph, chunk, worker>>
Workers == 1..Size

-----------------------------------------------------------------------------
(***************************************************************************)
(* Chunks and messages.                                                    *)
(***************************************************************************)

Ceiling(n, d) == (n + d - 1) \div d
Slice(s, size, i) == SubSeq(s, (i - 1) * size + 1, IF i * size < Len(s) THEN i * size ELSE Len(s))

Batch == Batches[main.batch]
ChunkSize == Ceiling(Len(Batch), Size)
Chunk(w) == Slice(Batch, ChunkSize, w)
HasChunk(w) == Chunk(w) # <<>>

(* The message sendNextSubBatch posts when it has posted n sub-batches. *)
Flush == [type |-> "flush"]
Message(w, n) ==
  IF n * SubBatch >= Len(Chunk(w)) THEN Flush
  ELSE [type |-> "sub-batch", files |-> Slice(Chunk(w), SubBatch, n + 1)]

Says(type) == [type |-> type]
Result(files) == [type |-> "result", files |-> files]

(* A promise that waits has its listeners and its timer. *)
NoChunk == [state |-> "none", sent |-> 0, files |-> <<>>]
Waiting == [NoChunk EXCEPT !.state = "waiting"]
Thread == [up |-> TRUE, inbox |-> <<>>, acc |-> <<>>, out |-> <<>>]

TypeOK ==
  /\ main.pc \in {"next", "wait", "terminate", "sequential", "done", "crashed"}
  /\ main.batch \in 1..(Len(Batches) + 1)
  /\ main.pool \in BOOLEAN
  /\ graph \in Seq(Files)
  /\ \A w \in Workers :
       /\ chunk[w].state \in {"none", "waiting", "resolved", "rejected", "timed out"}
       /\ chunk[w].sent \in 0..(Ceiling(Len(FlattenSeq(Batches)), SubBatch) + 1)
       /\ chunk[w].files \in Seq(Files)
       /\ worker[w].up \in BOOLEAN
       /\ worker[w].acc \in Seq(Files)
       /\ Len(worker[w].inbox) <= 1

Init ==
  /\ main = [pc |-> "next", batch |-> 1, pool |-> TRUE]
  /\ graph = <<>>
  /\ chunk = [w \in Workers |-> NoChunk]
  /\ worker = [w \in Workers |-> Thread]

-----------------------------------------------------------------------------
(***************************************************************************)
(* The main thread: one batch after another, then the end of the pool.     *)
(***************************************************************************)

(* Nothing reaches a thread that is gone. *)
Post(thread, m) == IF thread.up THEN [thread EXCEPT !.inbox = Append(@, m)] ELSE thread
\* Changed: two sub-batches are posted at once.
DispatchAhead ==
  /\ main.pc = "next"
  /\ main.batch <= Len(Batches)
  /\ main.pool
  /\ main' = [main EXCEPT !.pc = "wait"]
  /\ chunk' = [w \in Workers |-> IF HasChunk(w) THEN [Waiting EXCEPT !.sent = 2] ELSE NoChunk]
  /\ worker' = [w \in Workers |->
                  IF HasChunk(w) THEN Post(Post(worker[w], Message(w, 0)), Message(w, 1))
                  ELSE worker[w]]
  /\ UNCHANGED graph

Dispatch ==
  /\ main.pc = "next"
  /\ main.batch <= Len(Batches)
  /\ main.pool
  /\ main' = [main EXCEPT !.pc = "wait"]
  /\ chunk' = [w \in Workers |-> IF HasChunk(w) THEN [Waiting EXCEPT !.sent = 1] ELSE NoChunk]
  /\ worker' = [w \in Workers |->
                  IF HasChunk(w) THEN Post(worker[w], Message(w, 0)) ELSE worker[w]]
  /\ UNCHANGED graph

NextBatch(rows, pool) ==
  /\ graph' = graph \o rows
  /\ main' = [pc |-> "next", batch |-> main.batch + 1, pool |-> pool]

(* Promise.all: the results are merged when all are there, in order. *)
Resolved == \A w \in Workers : chunk[w].state \in {"none", "resolved"}
Merge ==
  /\ main.pc = "wait"
  /\ Resolved
  /\ NextBatch(FlattenSeq([w \in Workers |-> chunk[w].files]), TRUE)
  /\ chunk' = [w \in Workers |-> NoChunk]
  /\ UNCHANGED worker

\* Changed: a rejection removes the listeners of all chunks.
RejectAll(w, state) ==
  /\ chunk' = [v \in Workers |->
                 IF v # w /\ chunk[v].state = "waiting" THEN [chunk[v] EXCEPT !.state = "rejected"]
                 ELSE IF v = w THEN [chunk[v] EXCEPT !.state = state] ELSE chunk[v]]
  /\ main' = IF main.pc = "wait" THEN [main EXCEPT !.pc = "terminate"] ELSE main

(* The first rejection ends the dispatch and asks every thread to stop; the
   promises of the other chunks keep their listeners. *)
Reject(w, state) ==
  /\ chunk' = [chunk EXCEPT ![w].state = state]
  /\ main' = IF main.pc = "wait" THEN [main EXCEPT !.pc = "terminate"] ELSE main

Terminated(w) ==
  /\ main.pc = "terminate"
  /\ worker[w].up
  /\ worker' = [worker EXCEPT ![w] = [worker[w] EXCEPT !.up = FALSE, !.inbox = <<>>,
                                                          !.out = Append(@, Says("exit"))]]
  /\ UNCHANGED <<main, graph, chunk>>

FallBack ==
  /\ main.pc = "terminate"
  /\ \A w \in Workers : ~worker[w].up
  /\ main' = [main EXCEPT !.pc = "sequential"]
  /\ UNCHANGED <<graph, chunk, worker>>

(* processParsingSequential; the batches that follow have no pool. *)
ParseSequentially ==
  /\ main.pc = "sequential"
  /\ NextBatch(Batch, FALSE)
  /\ UNCHANGED <<chunk, worker>>

WithoutPool ==
  /\ main.pc = "next"
  /\ main.batch <= Len(Batches)
  /\ ~main.pool
  /\ NextBatch(Batch, FALSE)
  /\ UNCHANGED <<chunk, worker>>

(* The finally of parse-impl terminates the pool. *)
End ==
  /\ main.pc = "next"
  /\ main.batch > Len(Batches)
  /\ main' = [main EXCEPT !.pc = "done"]
  /\ worker' = [w \in Workers |-> [worker[w] EXCEPT !.up = FALSE, !.inbox = <<>>, !.out = <<>>]]
  /\ UNCHANGED <<graph, chunk>>

-----------------------------------------------------------------------------
(***************************************************************************)
(* Events of the threads reach the main thread.                            *)
(***************************************************************************)

Running == main.pc \notin {"done", "crashed"}
Event(w, types) ==
  /\ Running
  /\ worker[w].out # <<>>
  /\ Head(worker[w].out).type \in types
Heard(w) == chunk[w].state = "waiting"
Drop(w) == [worker[w] EXCEPT !.out = Tail(@)]

SubBatchDone(w) ==
  /\ Event(w, {"sub-batch-done"})
  /\ Heard(w)
  /\ worker' = [worker EXCEPT ![w] = Post(Drop(w), Message(w, chunk[w].sent))]
  /\ chunk' = [chunk EXCEPT ![w].sent = @ + 1]
  /\ UNCHANGED <<main, graph>>

GotResult(w) ==
  /\ Event(w, {"result"})
  /\ Heard(w)
  /\ chunk' = [chunk EXCEPT ![w].state = "resolved", ![w].files = Head(worker[w].out).files]
  /\ worker' = [worker EXCEPT ![w] = Drop(w)]
  /\ UNCHANGED <<main, graph>>

(* The worker's message error, the thread's event error, or its exit. *)
GotFailure(w) ==
  /\ Event(w, {"error", "died", "exit"})
  /\ Heard(w)
  /\ Reject(w, "rejected")
  /\ worker' = [worker EXCEPT ![w] = Drop(w)]
  /\ UNCHANGED graph

\* Changed: no timer runs while the result of a flush is awaited.
IdleTimeoutOfSubBatch(w) ==
  /\ main.pc = "wait"
  /\ Heard(w)
  /\ (chunk[w].sent - 1) * SubBatch < Len(Chunk(w))
  /\ Reject(w, "timed out")
  /\ UNCHANGED <<graph, worker>>

IdleTimeout(w) ==
  /\ Running
  /\ Heard(w)
  /\ Reject(w, "timed out")
  /\ UNCHANGED <<graph, worker>>

(* Nobody listens: a message is lost, but an event error is an uncaught
   exception. *)
Unheard(w) ==
  /\ Event(w, {"sub-batch-done", "result", "error", "exit"})
  /\ ~Heard(w)
  /\ worker' = [worker EXCEPT ![w] = Drop(w)]
  /\ UNCHANGED <<main, graph, chunk>>

Uncaught(w) ==
  /\ Event(w, {"died"})
  /\ ~Heard(w)
  /\ main' = [main EXCEPT !.pc = "crashed"]
  /\ UNCHANGED <<graph, chunk, worker>>

-----------------------------------------------------------------------------
(***************************************************************************)
(* parse-worker: accumulate the sub-batches, answer the flush.             *)
(***************************************************************************)

Works(w, type) ==
  /\ Running
  /\ worker[w].up
  /\ worker[w].inbox # <<>>
  /\ Head(worker[w].inbox).type = type
Answer(w, acc, m) ==
  worker' = [worker EXCEPT ![w] = [worker[w] EXCEPT !.inbox = Tail(@), !.acc = acc, !.out = Append(@, m)]]

WorkSubBatch(w) ==
  /\ Works(w, "sub-batch")
  /\ Answer(w, worker[w].acc \o Head(worker[w].inbox).files, Says("sub-batch-done"))
  /\ UNCHANGED <<main, graph, chunk>>

WorkThrows(w) ==
  /\ Works(w, "sub-batch") \/ Works(w, "flush")
  /\ Answer(w, worker[w].acc, Says("error"))
  /\ UNCHANGED <<main, graph, chunk>>

\* Changed: what was accumulated stays.
WorkFlushKept(w) ==
  /\ Works(w, "flush")
  /\ Answer(w, worker[w].acc, Result(worker[w].acc))
  /\ UNCHANGED <<main, graph, chunk>>

WorkFlush(w) ==
  /\ Works(w, "flush")
  /\ Answer(w, <<>>, Result(worker[w].acc))
  /\ UNCHANGED <<main, graph, chunk>>

(* The thread runs out of memory or exits, in the middle of its work; what it
   posted last may be lost with it. *)
WorkerDies(w) ==
  /\ Running
  /\ worker[w].up
  /\ worker[w].inbox # <<>> \/ StartFails
  /\ \E type \in {"died", "exit"}, kept \in 0..Len(worker[w].out) :
       worker' = [worker EXCEPT ![w] =
         [worker[w] EXCEPT !.up = FALSE, !.inbox = <<>>, !.out = Append(SubSeq(@, 1, kept), Says(type))]]
  /\ UNCHANGED <<main, graph, chunk>>

-----------------------------------------------------------------------------
MainThread ==
  \/ Dispatch \/ Merge \/ FallBack \/ ParseSequentially \/ WithoutPool \/ End
Events(w) ==
  \/ SubBatchDone(w) \/ GotResult(w) \/ GotFailure(w) \/ IdleTimeout(w)
  \/ Unheard(w) \/ Uncaught(w)
Thinks(w) == WorkSubBatch(w) \/ WorkThrows(w) \/ WorkFlush(w) \/ WorkerDies(w)

Next ==
  \/ MainThread
  \/ \E w \in Workers : Events(w) \/ Thinks(w) \/ Terminated(w)

(* The event loop serves the main thread, its timers fire, and an idle thread
   that is told to terminate does.  Parsing may take for ever: on a thread,
   which is in native code that terminate() does not interrupt, and on the main
   thread. *)
Idle(w) == worker[w].inbox = <<>>
Spec ==
  /\ Init
  /\ [][Next]_vars
  /\ WF_vars(Dispatch \/ Merge \/ FallBack \/ End)
  /\ \A w \in Workers : WF_vars(IdleTimeout(w)) /\ WF_vars(Idle(w) /\ Terminated(w))
-----------------------------------------------------------------------------
(***************************************************************************)
(* Properties.                                                             *)
(***************************************************************************)

(* "Results are concatenated back in order", and a batch that is parsed again
   after a failure leaves nothing twice: the graph holds the files of the
   batches so far, each once, whatever the threads did or say late. *)
GraphExact == graph = FlattenSeq(SubSeq(Batches, 1, main.batch - 1))

(* Threads that fail together do not take the process down: an error event
   finds no listener only after some chunk has timed out. *)
CrashNeedsTimeout ==
  main.pc = "crashed" => \E w \in Workers : chunk[w].state = "timed out"

(* The parser has a file: a thread that is told to terminate does not before
   it has done with its message, and the main thread parses without the pool. *)
Parsing ==
  \/ main.pc = "terminate" /\ \E w \in Workers : worker[w].up /\ ~Idle(w)
  \/ main.pc = "sequential"
  \/ main.pc = "next" /\ main.batch <= Len(Batches) /\ ~main.pool

(* Silent or dead threads, and messages that are lost, do not keep the parse
   from ending: only a file on which the parser itself never ends does, and no
   such file keeps the main thread waiting for an answer. *)
ParseEnds == <>(main.pc \in {"done", "crashed"}) \/ <>[]Parsing

(* "A wedged parser should still fall back" (worker-pool.ts): a dispatch that
   has failed goes on to the parser of the main thread.  Does not hold: it
   waits for the end of every thread, the wedged one too. *)
WedgedFallsBack == (main.pc = "terminate") ~> (main.pc # "terminate")
=============================================================================
