----------------------------- MODULE MCCollector -----------------------------
(* Small instances of Collector: two workers and the smallest ring there is,
   four slots. *)
EXTENDS Collector, TLC

CONSTANTS w1, w2, la, lb
WorkerSet      == {w1, w2}
WorkerSymmetry == Permutations(WorkerSet)
LabelSet       == {la, lb}

\* Buckets one instant wide: two arrivals in bucket 0 and one a full turn of the
\* ring later, in bucket 4.
WrapSchedule == <<0, 0, 4>>
WrapLabels   == <<la, lb, la>>

\* Buckets two instants wide and a warm-up of one: an arrival in the warm-up
\* bucket, one in the first measured bucket.
WarmupSchedule == <<0, 2>>
WarmupLabels   == <<la, lb>>
=============================================================================
