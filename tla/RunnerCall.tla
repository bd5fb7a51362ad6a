----------------------------- MODULE RunnerCall -----------------------------
(***************************************************************************)
(* What the three runners share: a worker calls Do, Do picks a unit of     *)
(* work by weight, puts the unit's timeout on the work context it was      *)
(* given, asks the target, and files one outcome (internal/runner and the  *)
(* head and tail of the three Do methods).  SQLRunner, RedisRunner and     *)
(* HTTPRunner extend this module with what they do in between.             *)
(*                                                                         *)
(* A call's context ends at most once: by its own deadline or by the run's *)
(* cancellation, whichever comes first, at any moment and seen by nobody   *)
(* who does not look.  Times are left to HTTPRunner, the only runner whose *)
(* stamps come from several goroutines.                                    *)
(***************************************************************************)
EXTENDS Integers, FiniteSets, Sequences, SequencesExt

CONSTANTS
  Workers,      \* the workers of the run
  MaxCalls      \* bound: how many calls are made of each runner

RunnerNames == {"db", "redis", "http"}

ASSUME CallAssumption ==
  Workers # {} /\ IsFiniteSet(Workers) /\ MaxCalls \in [RunnerNames -> Nat]

\* The classes of metrics.Outcome the runners produce.
Classes == {"ok", "timeout", "connection", "dns", "tls", "pool_timeout", "http_4xx",
            "http_5xx", "expect_failed", "extract_failed", "query_error", "canceled",
            "other"}

VARIABLES
  runnerOf,     \* which runner each worker serves
  phase,        \* where each worker is in its call
  unit,         \* the index of the unit of work it picked
  ctx,          \* its call's context: "live", "deadline" or "canceled"
  cancelled,    \* the work context has been cancelled
  err,          \* the error in hand ("none")
  class,        \* the class of the outcome ("none" until it is decided)
  calls         \* how many calls have been made

callVars == <<runnerOf, phase, unit, ctx, cancelled, err, class, calls>>

(***************************************************************************)
(* Weighted: prefix sums and a binary search for the first sum that        *)
(* reaches the draw.  Draws are counted in halves of a weight, so that     *)
(* they fall on the sums and between them.                                 *)
(***************************************************************************)
Positive(x) == IF x <= 0 THEN 0 ELSE x
Cumulative(weights) ==
  [i \in DOMAIN weights |-> FoldLeft(LAMBDA sum, x : sum + Positive(x), 0, SubSeq(weights, 1, i))]
Total(weights) == FoldLeft(LAMBDA sum, x : sum + Positive(x), 0, weights)

Pick(weights, draw) ==
  LET reached == {i \in DOMAIN weights : 2 * Cumulative(weights)[i] >= draw}
  IN  IF Len(weights) <= 1 \/ Total(weights) <= 0 THEN 1
      ELSE IF reached = {} THEN Len(weights)
      ELSE CHOOSE i \in reached : \A j \in reached : i <= j

Picks(weights) == {Pick(weights, draw) : draw \in 0 .. 2 * Total(weights) - 1}

(***************************************************************************)
(* The life of a call.                                                     *)
(***************************************************************************)
CallInit(kinds) ==
  /\ runnerOf \in kinds
  /\ phase = [w \in Workers |-> "idle"]
  /\ unit = [w \in Workers |-> 1]
  /\ ctx = [w \in Workers |-> "live"]
  /\ cancelled = FALSE
  /\ err = [w \in Workers |-> "none"]
  /\ class = [w \in Workers |-> "none"]
  /\ calls = 0

Busy(w) == phase[w] # "idle"

\* The head of Do: a unit is picked and its timeout put on the work context, which
\* may already have been cancelled.
Begin(w, runner, weights, next) ==
  /\ runnerOf[w] = runner /\ phase[w] = "idle" /\ calls < MaxCalls[runner]
  /\ \E i \in Picks(weights) : unit' = [unit EXCEPT ![w] = i]
  /\ ctx' = [ctx EXCEPT ![w] = IF cancelled THEN "canceled" ELSE "live"]
  /\ phase' = [phase EXCEPT ![w] = next]
  /\ calls' = calls + 1
  /\ UNCHANGED <<runnerOf, cancelled, err, class>>

GoTo(w, next) ==
  /\ phase' = [phase EXCEPT ![w] = next]
  /\ UNCHANGED <<runnerOf, unit, ctx, cancelled, err, class, calls>>

\* The call goes on at next with the error e in hand.
FailTo(w, e, next) ==
  /\ phase' = [phase EXCEPT ![w] = next]
  /\ err' = [err EXCEPT ![w] = e]
  /\ UNCHANGED <<runnerOf, unit, ctx, cancelled, class, calls>>

Decide(w, c, next) ==
  /\ class' = [class EXCEPT ![w] = c]
  /\ phase' = [phase EXCEPT ![w] = next]
  /\ UNCHANGED <<runnerOf, unit, ctx, cancelled, err, calls>>

\* rec.Record and the return of Do, with which its variables are gone.
Record(w) ==
  /\ phase[w] = "record"
  /\ phase' = [phase EXCEPT ![w] = "idle"]
  /\ unit' = [unit EXCEPT ![w] = 1] /\ ctx' = [ctx EXCEPT ![w] = "live"]
  /\ err' = [err EXCEPT ![w] = "none"] /\ class' = [class EXCEPT ![w] = "none"]
  /\ UNCHANGED <<runnerOf, cancelled, calls>>

\* The unit's timeout passes; once the outcome has its class nobody looks any more.
Expire(w) ==
  /\ Busy(w) /\ ctx[w] = "live" /\ class[w] = "none"
  /\ ctx' = [ctx EXCEPT ![w] = "deadline"]
  /\ UNCHANGED <<runnerOf, phase, unit, cancelled, err, class, calls>>

\* The engine cancels the work context: an abort, or the safety net.
CancelWork ==
  /\ ~cancelled
  /\ cancelled' = TRUE
  /\ ctx' = [w \in Workers |-> IF Busy(w) /\ ctx[w] = "live" /\ class[w] = "none"
                              THEN "canceled" ELSE ctx[w]]
  /\ UNCHANGED <<runnerOf, phase, unit, err, class, calls>>
=============================================================================
