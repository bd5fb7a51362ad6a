------------------------------ MODULE SQLPool ------------------------------
(***************************************************************************)
(* The connection pool of database/sql, as the SQL runner uses it: DB.Conn *)
(* and a prepared statement take a connection or queue for one, and a      *)
(* connection given back goes to a caller that waits, any of them, before  *)
(* it becomes idle.  A connection that broke is closed, and the opener     *)
(* replaces it only when somebody waits.                                   *)
(***************************************************************************)
EXTENDS Integers, FiniteSets

CONSTANTS MaxOpen, MaxIdle      \* SetMaxOpenConns and SetMaxIdleConns, both positive

EmptyPool == [idle    |-> 0,    \* connections nobody uses
              open    |-> 0,    \* connections that count towards MaxOpen
              opening |-> 0,    \* of those, the opener's, not connected yet
              waiting |-> {},   \* callers with a request in the queue
              granted |-> {},   \* callers a connection was handed to
              refused |-> {}]   \* callers an error was handed to

Least(a, b) == IF a < b THEN a ELSE b

\* maybeOpenNewConnections
Refill(pool) ==
  LET n == Least(Cardinality(pool.waiting), MaxOpen - pool.open)
  IN  [pool EXCEPT !.open = @ + n, !.opening = @ + n]

\* putConnDBLocked with a connection: to a caller that waits, else to the idle ones.
HandBack(pool) ==
  IF pool.waiting # {}
  THEN {[pool EXCEPT !.waiting = @ \ {w}, !.granted = @ \cup {w}] : w \in pool.waiting}
  ELSE IF pool.idle < Least(MaxIdle, MaxOpen)
  THEN {[pool EXCEPT !.idle = @ + 1]}
  ELSE {[pool EXCEPT !.open = @ - 1]}

\* putConn: what the pool may be after a connection was given back.
Returned(pool, broken) ==
  IF broken THEN {Refill([pool EXCEPT !.open = @ - 1])} ELSE HandBack(pool)

\* openNewConnection, on the opener's goroutine.
Opened(pool) == HandBack([pool EXCEPT !.opening = @ - 1])
NotOpened(pool) ==
  LET fewer == [pool EXCEPT !.opening = @ - 1, !.open = @ - 1]
  IN  IF pool.waiting = {} THEN {fewer}
      ELSE {Refill([fewer EXCEPT !.waiting = @ \ {w}, !.refused = @ \cup {w}]) :
              w \in pool.waiting}
=============================================================================
