------------------------------ MODULE AbortGuard ------------------------------
(***************************************************************************)
(* The abort guard (internal/engine/guard.go): a ring of counters over a   *)
(* rolling window that stops a run whose target is clearly failing.        *)
(*                                                                         *)
(* Observe runs under the guard's mutex, so it is one step.  Workers call  *)
(* it after they have recorded an outcome, in any order; "at" is when the  *)
(* operation ended, so the calls are not sorted by "at".  The model lets   *)
(* them be out of order by as much as MaxSkew.  Whether that is within the *)
(* window matters to what the ring loses (SkewWithinWindow): a worker      *)
(* would have to be held up for ten seconds between the end of its         *)
(* operation and this call to exceed it.                                   *)
(***************************************************************************)
EXTENDS Integers, Functions

CONSTANTS
  Window,       \* the rolling window
  Resolution,   \* guardResolution
  MinSamples,   \* minSamples (20 in the code)
  RatioPercent, \* the threshold, in percent
  MaxSkew,      \* how far the calls are out of order
  MaxTime, MaxPerTime  \* bounds for model checking

ASSUME GuardAssumption ==
  /\ Window \in Nat \ {0} /\ Resolution \in Nat \ {0}
  /\ MinSamples \in Nat \ {0} /\ RatioPercent \in 1 .. 100
  /\ MaxSkew \in Nat /\ MaxTime \in Nat /\ MaxPerTime \in Nat

\* No call comes so late that its period has left the window.
SkewWithinWindow == MaxSkew <= Window - (Window % Resolution)

Times    == 0 .. MaxTime
NumSlots == Window \div Resolution + 1
SlotIdx  == 0 .. NumSlots - 1
TruncateOneBack(at) == (at \div Resolution - 1) * Resolution   \* mutant
Truncate(at) == at - (at % Resolution)
SlotOf(at)   == (at \div Resolution) % NumSlots

VARIABLES
  slots,    \* the ring
  tripped,  \* latched by the first evaluation that finds the target failing
  reason,   \* what tripped it: the instant and the two counts
  newest,   \* the latest "at" observed so far
  observed  \* every observation made: a count of OK and of failed per instant

guardVars == <<slots, tripped, reason, newest, observed>>

EmptySlot == [at |-> 0, total |-> 0, failed |-> 0]
NoReason  == [now |-> 0, total |-> 0, failed |-> 0]

GuardInit ==
  /\ slots = [i \in SlotIdx |-> EmptySlot]
  /\ tripped = FALSE /\ reason = NoReason
  /\ newest = 0
  /\ observed = [t \in Times |-> [ok |-> 0, failed |-> 0]]

\* Mutant of Filed: a reused slot keeps its counts.
FiledNoReset(failed, at) ==
  LET i == SlotOf(at)
  IN  [slots EXCEPT ![i] = [at |-> Truncate(at), total |-> slots[i].total + 1,
                            failed |-> slots[i].failed + (IF failed THEN 1 ELSE 0)]]

\* The ring after one more outcome, in the slot of its period.  A slot that
\* holds another period is reused.
Filed(failed, at) ==
  LET i    == SlotOf(at)
      held == IF slots[i].at = Truncate(at) THEN slots[i]
              ELSE [EmptySlot EXCEPT !.at = Truncate(at)]
  IN  [slots EXCEPT ![i] = [held EXCEPT !.total = @ + 1,
                             !.failed = @ + (IF failed THEN 1 ELSE 0)]]

\* The slots evaluateLocked counts: those that began inside the window.
Counted(ring, now)     == {i \in SlotIdx : ring[i].at >= now - Window}
TotalIn(ring, now)     == SumFunctionOnSet([i \in SlotIdx |-> ring[i].total], Counted(ring, now))
FailedIn(ring, now)    == SumFunctionOnSet([i \in SlotIdx |-> ring[i].failed], Counted(ring, now))

\* Mutants of Failing: the window need not be full; the ratio may equal the
\* threshold.
FailingEarly(ring, now) ==
  /\ TotalIn(ring, now) >= MinSamples
  /\ FailedIn(ring, now) * 100 > RatioPercent * TotalIn(ring, now)
FailingAtRatio(ring, now) ==
  /\ now >= Window
  /\ TotalIn(ring, now) >= MinSamples
  /\ FailedIn(ring, now) * 100 >= RatioPercent * TotalIn(ring, now)

\* evaluateLocked: a full window, enough samples, a ratio above the threshold.
Failing(ring, now) ==
  /\ now >= Window
  /\ TotalIn(ring, now) >= MinSamples
  /\ FailedIn(ring, now) * 100 > RatioPercent * TotalIn(ring, now)

\* One outcome is observed; after the guard has tripped nothing changes.
Observe(failed, at) ==
  LET ring == Filed(failed, at) IN
  /\ ~tripped
  /\ slots' = ring
  /\ tripped' = Failing(ring, at)
  /\ reason' = IF Failing(ring, at)
               THEN [now |-> at, total |-> TotalIn(ring, at), failed |-> FailedIn(ring, at)]
               ELSE NoReason
  /\ newest' = IF at > newest THEN at ELSE newest
  /\ observed' = IF failed THEN [observed EXCEPT ![at].failed = @ + 1]
                 ELSE [observed EXCEPT ![at].ok = @ + 1]

\* Any worker may come with any outcome that ended not too long ago.
ObserveSome ==
  \E at \in Times, failed \in BOOLEAN :
    /\ at >= newest - MaxSkew
    /\ observed[at].ok + observed[at].failed < MaxPerTime
    /\ Observe(failed, at)

\* A tripped guard returns from Observe at once.
ObserveTripped == tripped /\ UNCHANGED guardVars

\* All instants have their share of outcomes: a bound of the model.
Saturated ==
  /\ \A t \in Times : t >= newest - MaxSkew => observed[t].ok + observed[t].failed = MaxPerTime
  /\ UNCHANGED guardVars

GuardNext == ObserveSome \/ ObserveTripped \/ Saturated
GuardSpec == GuardInit /\ [][GuardNext]_guardVars

-----------------------------------------------------------------------------
(* Correctness. *)

GuardTypeOK ==
  /\ slots \in [SlotIdx -> [at : Nat, total : Nat, failed : Nat]]
  /\ tripped \in BOOLEAN
  /\ reason \in [now : Nat, total : Nat, failed : Nat]
  /\ newest \in Times
  /\ observed \in [Times -> [ok : Nat, failed : Nat]]

\* What was really observed in the periods that began at or after `from`.
Since(from)       == {t \in Times : Truncate(t) >= from}
TrulyFailed(from) == SumFunctionOnSet([t \in Times |-> observed[t].failed], Since(from))
TrulyTotal(from)  ==
  SumFunctionOnSet([t \in Times |-> observed[t].ok + observed[t].failed], Since(from))

\* The ring neither loses nor invents anything: for the latest instant it counts
\* exactly what was observed in the periods of the window, although outcomes
\* come out of order and slots are reused on sight of another period.
RingIsExact ==
  /\ TotalIn(slots, newest) = TrulyTotal(newest - Window)
  /\ FailedIn(slots, newest) = TrulyFailed(newest - Window)

\* The guard fires only for real: the run is at least a window old, and the
\* counts it reports were observed within the window, even if the outcome that
\* tripped it was a late one.
TripIsEarned ==
  tripped =>
    /\ reason.now >= Window
    /\ reason.total >= MinSamples
    /\ reason.failed * 100 > RatioPercent * reason.total
    /\ reason.total <= TrulyTotal(reason.now - Window)
    /\ reason.failed <= TrulyFailed(reason.now - Window)

\* It misses nothing: whenever the run moves on to a new instant, it trips if
\* and only if what was really observed over the window is failing.
TrulyFailing ==
  LET from == newest - Window IN
  /\ newest >= Window
  /\ TrulyTotal(from) >= MinSamples
  /\ TrulyFailed(from) * 100 > RatioPercent * TrulyTotal(from)
TripsExactly == [][newest' > newest => (tripped' <=> TrulyFailing')]_guardVars
=============================================================================
