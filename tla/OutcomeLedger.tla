---------------------------- MODULE OutcomeLedger ----------------------------
(***************************************************************************)
(* What a collector promises, without buckets, rings or goroutines: every  *)
(* outcome reported to it enters the run's totals exactly once if it       *)
(* belongs to the measured part of the run and never if it belongs to the  *)
(* warm-up, at whatever moment suits the implementation, and the books are *)
(* closed only when nothing reported is still outstanding.                 *)
(***************************************************************************)
EXTENDS Naturals

CONSTANTS
  Outcomes,   \* every outcome that may be reported
  InWindow    \* those in the measured window, a subset

VARIABLES
  reported,   \* the outcomes handed in
  totals,     \* how often each outcome is in the run's totals
  closed      \* the books are closed

ledgerVars == <<reported, totals, closed>>

LedgerInit ==
  /\ reported = {}
  /\ totals = [o \in Outcomes |-> 0]
  /\ closed = FALSE

\* Outcomes in the measured window that are not in the totals yet.
Outstanding(R) == {o \in R \cap InWindow : totals[o] = 0}

\* New outcomes R come in, and some outstanding ones S are settled.
Book(R, S) ==
  /\ ~closed
  /\ reported' = reported \cup R
  /\ totals' = [o \in Outcomes |-> IF o \in S THEN totals[o] + 1 ELSE totals[o]]
  /\ UNCHANGED closed

Close ==
  /\ ~closed
  /\ Outstanding(reported) = {}
  /\ closed' = TRUE
  /\ UNCHANGED <<reported, totals>>

LedgerNext ==
  \/ \E R \in SUBSET (Outcomes \ reported) :
       \E S \in SUBSET Outstanding(reported \cup R) : Book(R, S)
  \/ Close

LedgerSpec == LedgerInit /\ [][LedgerNext]_ledgerVars
=============================================================================
