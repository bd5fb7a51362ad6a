--------------------------- MODULE BoundedDispatch ---------------------------
(***************************************************************************)
(* What an open-model executor promises (the package comment of            *)
(* internal/executor and ADR-003, "Backpressure is bounded and counted"):  *)
(* arrivals come in schedule order, each is accepted or refused on the     *)
(* spot, an accepted one is performed once, never more than MaxInFlight    *)
(* are being performed and never more than MaxInFlight + QueueDepth are    *)
(* held, and the run is over only when nothing accepted is left.           *)
(***************************************************************************)
EXTENDS Integers, FiniteSets

CONSTANTS NumArrivals, MaxInFlight, QueueDepth

Arrivals == 1 .. NumArrivals

VARIABLES
  fate,   \* what has become of each arrival
  over    \* the run is over

dispatchVars == <<fate, over>>

With(f)  == {a \in Arrivals : fate[a] = f}
Held     == With("waiting") \cup With("running")
Become(a, f) == fate' = [fate EXCEPT ![a] = f] /\ UNCHANGED over

\* The next arrival in schedule order.
IsNext(a) == fate[a] = "future" /\ \A b \in 1 .. a - 1 : fate[b] # "future"

DispatchInit == fate = [a \in Arrivals |-> "future"] /\ over = FALSE

Accept(a) == IsNext(a) /\ Cardinality(Held) < MaxInFlight + QueueDepth /\ Become(a, "waiting")
Refuse(a) == IsNext(a) /\ Become(a, "refused")
Start(a)  == fate[a] = "waiting" /\ Cardinality(With("running")) < MaxInFlight /\ Become(a, "running")
Finish(a) == fate[a] = "running" /\ Become(a, "finished")
End       == ~over /\ Held = {} /\ over' = TRUE /\ UNCHANGED fate

DispatchNext ==
  \/ ~over /\ \E a \in Arrivals : Accept(a) \/ Refuse(a) \/ Start(a) \/ Finish(a)
  \/ End

DispatchSpec == DispatchInit /\ [][DispatchNext]_dispatchVars
=============================================================================
