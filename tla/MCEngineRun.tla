----------------------------- MODULE MCEngineRun -----------------------------
(* A small instance of EngineRun: two runners, one of them with two workers so
   that they meet in its recorder's sync.Once. *)
EXTENDS EngineRun, TLC

CONSTANTS r1, r2, w1, w2, w3
RunnerSet == {r1, r2}
WorkerSet == {w1, w2, w3}
Belongs   == [w \in WorkerSet |-> IF w = w3 THEN r2 ELSE r1]
Accepts   == [r \in RunnerSet |-> IF r = r2 THEN 1 ELSE 2]

\* One runner with one worker, for the two short counterexamples.
OneRunner  == {r1}
OneWorker  == {w1}
BelongsOne == [w \in OneWorker |-> r1]
AcceptsOne == [r \in OneRunner |-> 2]
=============================================================================
