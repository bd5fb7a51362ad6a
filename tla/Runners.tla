------------------------------ MODULE Runners ------------------------------
(***************************************************************************)
(* The three runners under the engine.  It prepares each configured runner *)
(* before any worker starts, lets the workers call Do while the load runs, *)
(* may cancel the work context at any moment, and closes the runners once  *)
(* every worker is back.  A worker serves one runner and the runners share *)
(* nothing but the contexts, so the small instance has one runner at a     *)
(* time.                                                                   *)
(***************************************************************************)
EXTENDS SQLRunner, RedisRunner, HTTPRunner

vars == <<callVars, sqlVars, redisVars, httpVars>>

Serves(runner) == \E w \in Workers : runnerOf[w] = runner

SQLStep ==
  /\ \/ \E w \in Workers : BeginQuery(w) \/ QueryStep(w) \/ AwaitDone(w)
     \/ Opener
     \/ Serves("db") /\ PrepareStep /\ UNCHANGED callVars
  /\ UNCHANGED <<redisVars, httpVars>>

RedisStep ==
  /\ \/ \E w \in Workers : BeginCommand(w) \/ CommandStep(w)
     \/ Serves("redis") /\ (RedisPing \/ RedisClose) /\ UNCHANGED callVars
  /\ UNCHANGED <<sqlVars, httpVars>>

HTTPStep ==
  /\ \/ \E w \in Workers : BeginRequest(w) \/ RequestStep(w) \/ DialEnds(w)
     \/ Serves("http") /\ (Preflight \/ Preflighted \/ HTTPClose) /\ UNCHANGED callVars
  /\ UNCHANGED <<sqlVars, redisVars>>

ContextStep ==
  /\ CancelWork \/ \E w \in Workers : Expire(w)
  /\ UNCHANGED <<sqlVars, redisVars, httpVars>>

\* Nothing is left to do once the runner is closed.
Closed ==
  /\ Serves("db") => life = "closed"
  /\ Serves("redis") => client = "closed"
  /\ Serves("http") => http = "closed"
  /\ UNCHANGED vars

Init(kinds) == CallInit(kinds) /\ SQLInit /\ RedisInit /\ HTTPInit
Next == SQLStep \/ RedisStep \/ HTTPStep \/ ContextStep \/ Closed

\* Every worker serves any of the runners.
Spec == Init([Workers -> RunnerNames]) /\ [][Next]_vars

\* Goroutines are scheduled, deadlines come, and what the network is asked is answered
\* or broken off.  That a call starts, a runner is closed or the work is cancelled is
\* not promised.
Fairness ==
  /\ WF_vars(Opener /\ UNCHANGED <<redisVars, httpVars>>)
  /\ \A w \in Workers :
       /\ WF_vars(Expire(w) /\ UNCHANGED <<sqlVars, redisVars, httpVars>>)
       /\ WF_vars(AwaitDone(w) /\ UNCHANGED <<redisVars, httpVars>>)
       /\ WF_vars(QueryStep(w) /\ UNCHANGED <<redisVars, httpVars>>)
       /\ WF_vars(CommandStep(w) /\ UNCHANGED <<sqlVars, httpVars>>)
       /\ WF_vars(RequestStep(w) /\ UNCHANGED <<sqlVars, redisVars>>)

-----------------------------------------------------------------------------
(* Correctness. *)

BeingDialled == {w \in Workers : phase[w] = "dial"}
\* The connections the calls hold, each named by its worker and a number.
HeldByCalls == UNION {{w} \X (1 .. held[w]) : w \in Workers}

\* No connection is lost and none is used twice, whatever errors, deadlines and late
\* grants meet: every connection that counts towards the pool's limit is idle, held by a
\* call, handed to one, being dialled by one or by the opener; a worker between two calls
\* holds nothing and has no open transaction; and a Redis connection is out only during
\* an exchange (the paths of sqlrun's Do, execute and runStatement, and redisrun's Do).
ConnectionsConserved ==
  /\ pool.open = pool.idle + Cardinality(HeldByCalls) + Cardinality(pool.granted)
                 + Cardinality(BeingDialled) + pool.opening
  /\ \A w \in Workers : phase[w] = "idle" => held[w] = 0 /\ tx[w] # "open"
  /\ pool.waiting \cup pool.granted \cup pool.refused \subseteq {w \in Workers : phase[w] = "wait"}
  /\ inUse = {w \in Workers : phase[w] = "io"}

\* A success is a success of everything the unit asked for, and nothing that took effect
\* is reported as a failure: a query is ok exactly when its statements all ran and its
\* transaction was committed; a Redis unit never when one of its commands was refused,
\* even behind an absent key; a request exactly when its status was expected and its
\* body was not too long.
OkIsEarned ==
  \A w \in Workers : phase[w] = "record" =>
    CASE runnerOf[w] = "db" ->
           class[w] = "ok" <=> /\ stmt[w] = Len(Query(w).stmts)
                               /\ IF Query(w).isTx THEN tx[w] = "committed" ELSE err[w] = "none"
      [] runnerOf[w] = "redis" ->
           class[w] = "ok" <=> /\ replies[w] # <<>>
                               /\ \A i \in DOMAIN replies[w] : replies[w][i] # "refusal"
      [] runnerOf[w] = "http" ->
           class[w] = "ok" <=> /\ err[w] = "none" /\ ~overLimit[w]
                               /\ status[w] \in IF Request(w).expect = {} THEN 200 .. 399
                                                ELSE Request(w).expect

\* The phases of a request account for its time, through redirects, retried idle
\* connections and the callbacks of dials that lost: the wait for the last connection,
\* the time to the first byte and the transfer add up to the time since that connection
\* was asked for, and the part after it is the service time of the outcome
\* (trace.go, phases; the stamps of httprun's Do).
PhasesAddUp ==
  \A w \in Workers :
    runnerOf[w] = "http" /\ phases[w].connected /\ phase[w] = "record" /\ firstByte[w] > 0 =>
      LET p == phases[w]
      IN  /\ p.connWait + p.ttfb + p.transfer = ended[w] - trace[w].getConn
          /\ p.ttfb + p.transfer = ended[w] - connAcquired[w]
          /\ started[w] <= connAcquired[w] /\ connAcquired[w] <= firstByte[w] /\ firstByte[w] <= ended[w]

\* Every call returns, with its outcome recorded: no wait for a connection, a turn, an
\* answer or a rollback outlasts the call's deadline for ever.
EveryCallReturns == \A w \in Workers : Busy(w) ~> phase[w] = "idle"

\* A call that waited for a connection of its runner until its deadline is recorded as
\* pool_timeout, a limit of the generator, and not as a timeout of the database
\* (metrics/outcome.go, "no connection came free in time: a generator-side limit").
PoolWaitIsPoolTimeout ==
  \A w \in Workers :
    runnerOf[w] = "db" /\ starved[w] /\ err[w] = "deadline" /\ phase[w] = "record"
      => class[w] = "pool_timeout"
=============================================================================
