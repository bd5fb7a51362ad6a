------------------------------ MODULE MCExecutor ------------------------------
(* A small instance of Executor: two workers, three arrivals and a queue of one,
   so that full, empty, direct hand-over and draining all occur. *)
EXTENDS Executor, TLC

CONSTANTS w1, w2
WorkerSet == {w1, w2}
=============================================================================
