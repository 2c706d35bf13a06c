--------------------------- MODULE MCBlockingQueue ---------------------------
(***************************************************************************)
(* Model-checking instances of BlockingQueue, in which every thread may    *)
(* call every operation.  Threads and values are interchangeable where     *)
(* only invariants are checked.                                            *)
(***************************************************************************)
EXTENDS BlockingQueue, TLC

Symmetry == Permutations(Threads) \cup Permutations(Values)

\* A pop that throws gives back a slot whose element stays: with ElementsThrow
\* the queue can grow past MaxSize, and this bound keeps it finite.
QueueBound == Len(queue_) <= MaxSize + 2
=============================================================================
