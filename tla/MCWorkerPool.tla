---------------------------- MODULE MCWorkerPool ----------------------------
EXTENDS WorkerPool

CONSTANTS f1, f2, f3, f4, f5, f6, f7, f8

(* Three workers get two, two and one sub-batches, then one worker has no
   chunk, then each has one. *)
MCBatches == <<<<f1, f2, f3, f4, f5>>, <<f6, f7>>, <<f8>>>>
=============================================================================
