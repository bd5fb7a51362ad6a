----------------------------- MODULE SQLRunner -----------------------------
(***************************************************************************)
(* The SQL runner (internal/runner/sqlrun): Prepare, and Do with its       *)
(* connection, its statement or transaction, and its two counters.         *)
(*                                                                         *)
(* Do takes a connection of its own and holds it to the end.  A statement  *)
(* that was prepared on the pool and runs outside a transaction does not   *)
(* use that connection: it takes a second one.  A transaction whose        *)
(* context ends is rolled back by a goroutine of database/sql, at any      *)
(* moment after that, and its connection cannot be closed before.          *)
(***************************************************************************)
EXTENDS RunnerCall

CONSTANTS
  Queries,      \* the configured queries, see QueryType
  Pool,         \* the configured pool: [maxOpen, maxIdle], 0 where it is not set
  Faults        \* the errors a server or a network may answer with

\* A text or an argument is free of templates, made of generators, or names a variable
\* or a feeder, for which the storage runners have no values.
TemplateKinds == {"static", "generated", "unbound"}

\* A query: its declared type ("" when there is none), its weight, whether it is a
\* transaction, whether it is to be kept prepared, and its statements: what the
\* classifier says of each, its text and its arguments.
QueryType == [type : {"", "read", "write"}, weight : Int, isTx : BOOLEAN, prepare : BOOLEAN,
              stmts : Seq([op : {"read", "write"}, text : TemplateKinds, args : TemplateKinds])]

\* What the text of an error says to classifyError.
FaultTexts == {"refused", "stalled", "tls", "rejected"}

ASSUME QueryAssumption ==
  /\ Queries \in Seq(QueryType) /\ Queries # <<>>
  /\ \A i \in DOMAIN Queries :
       Queries[i].stmts # <<>> /\ (Queries[i].isTx \/ Len(Queries[i].stmts) = 1)
  /\ Pool \in [maxOpen : Int, maxIdle : Int]
  /\ Faults \subseteq FaultTexts

\* configurePool: as many connections as workers, unless the pool says otherwise.
PoolSize == IF Pool.maxOpen > 0 THEN Pool.maxOpen ELSE Cardinality(Workers)
PoolIdle == IF Pool.maxIdle > 0 THEN Pool.maxIdle ELSE PoolSize

INSTANCE SQLPool WITH MaxOpen <- PoolSize, MaxIdle <- PoolIdle

VARIABLES
  life,         \* "new", "preparing", "ready", "failed" or "closed"
  prepared,     \* how many statements Prepare has been through
  pool,         \* the connection pool
  held,         \* how many connections each worker's call holds
  tx,           \* its transaction: "none", "open", "rolledBack" or "committed"
  stmt,         \* the statement it is at
  counts,       \* the reads and writes of Counts
  loaded,       \* the value each worker has read of the counter it raises
  starved       \* history: the call's context ended while it waited for a connection

sqlVars == <<life, prepared, pool, held, tx, stmt, counts, loaded, starved>>
sqlCall == <<life, prepared, tx, stmt, counts, loaded, starved>>

SQLWeights == [i \in DOMAIN Queries |-> Queries[i].weight]
Query(w)   == Queries[unit[w]]

\* compile: the declared type wins, else one write makes the query a write.
CompiledOp(query) ==
  IF query.type # "" THEN query.type
  ELSE IF \E i \in DOMAIN query.stmts : query.stmts[i].op = "write" THEN "write" ELSE "read"

\* The statements in the order Prepare goes through them.
AllStatements == FlattenSeq([i \in DOMAIN Queries |-> Queries[i].stmts])

Current(w) == Query(w).stmts[stmt[w]]

\* Prepare keeps a statement prepared when its text is static and its query asks for it.
IsPrepped(w) == Query(w).prepare /\ Current(w).text = "static"

Renders(statement) == statement.text # "unbound" /\ statement.args # "unbound"

\* The errors of a driver call made under the call's context.
DriverErrors(w) == Faults \cup (IF ctx[w] = "live" THEN {} ELSE {ctx[w]})

SQLInit ==
  /\ life = "new" /\ prepared = 0
  /\ pool = EmptyPool
  /\ held = [w \in Workers |-> 0]
  /\ tx = [w \in Workers |-> "none"]
  /\ stmt = [w \in Workers |-> 1]
  /\ counts = [op \in {"read", "write"} |-> 0]
  /\ loaded = [w \in Workers |-> 0]
  /\ starved = [w \in Workers |-> FALSE]

(***************************************************************************)
(* Prepare and Close.  The engine calls both outside the load, alone.      *)
(***************************************************************************)
\* PingContext: it opens the first connection and leaves it idle.
Ping ==
  /\ life = "new"
  /\ \/ life' = "preparing" /\ pool' \in HandBack([pool EXCEPT !.open = @ + 1])
     \/ life' = "failed" /\ UNCHANGED pool
  /\ UNCHANGED <<prepared, held, tx, stmt, counts, loaded, starved>>

\* A statement is prepared on an idle connection; a templated one is passed over, and
\* one rejection ends Prepare.
PrepareStatement ==
  /\ life = "preparing" /\ prepared < Len(AllStatements)
  /\ \/ prepared' = prepared + 1 /\ life' = life
     \/ /\ AllStatements[prepared + 1].text = "static"
        /\ life' = "failed" /\ UNCHANGED prepared
  /\ UNCHANGED <<pool, held, tx, stmt, counts, loaded, starved>>

Prepared ==
  /\ life = "preparing" /\ prepared = Len(AllStatements)
  /\ life' = "ready"
  /\ UNCHANGED <<prepared, pool, held, tx, stmt, counts, loaded, starved>>

Close ==
  /\ life \in {"ready", "failed"} /\ \A w \in Workers : ~Busy(w)
  /\ life' = "closed"
  /\ pool' = EmptyPool
  /\ UNCHANGED <<prepared, held, tx, stmt, counts, loaded, starved>>

(***************************************************************************)
(* Taking a connection.                                                    *)
(***************************************************************************)
BeginQuery(w) ==
  /\ life = "ready"
  /\ Begin(w, "db", SQLWeights, "acquire")
  /\ UNCHANGED sqlVars

\* The first connection is the call's own, a second one the prepared statement's.
Acquired(w) ==
  /\ held' = [held EXCEPT ![w] = @ + 1]
  /\ GoTo(w, IF held[w] = 1 THEN "running" ELSE IF Query(w).isTx THEN "begin" ELSE "statement")

NotAcquired(w, e) ==
  /\ FailTo(w, e, IF held[w] = 1 THEN "release" ELSE "unserved")
  /\ UNCHANGED held

Acquire(w) ==
  /\ phase[w] = "acquire"
  /\ \/ ctx[w] # "live" /\ NotAcquired(w, ctx[w]) /\ UNCHANGED pool
     \/ /\ ctx[w] = "live" /\ pool.idle > 0
        /\ pool' = [pool EXCEPT !.idle = @ - 1] /\ Acquired(w)
     \/ /\ ctx[w] = "live" /\ pool.idle = 0 /\ pool.open < PoolSize
        /\ pool' = [pool EXCEPT !.open = @ + 1] /\ GoTo(w, "dial") /\ UNCHANGED held
     \/ /\ ctx[w] = "live" /\ pool.idle = 0 /\ pool.open >= PoolSize
        /\ pool' = [pool EXCEPT !.waiting = @ \cup {w}] /\ GoTo(w, "wait") /\ UNCHANGED held
  /\ UNCHANGED sqlCall

Dial(w) ==
  /\ phase[w] = "dial"
  /\ \/ Acquired(w) /\ UNCHANGED pool
     \/ /\ \E e \in DriverErrors(w) : NotAcquired(w, e)
        /\ pool' = Refill([pool EXCEPT !.open = @ - 1])
  /\ UNCHANGED sqlCall

\* Mutant of EndWait: a connection that came together with the deadline is forgotten.
EndWaitForgetting(w) ==
  /\ phase[w] = "wait"
  /\ \/ /\ w \in pool.granted
        /\ pool' = [pool EXCEPT !.granted = @ \ {w}]
        /\ Acquired(w) /\ UNCHANGED starved
     \/ /\ ctx[w] # "live"
        /\ pool' = [pool EXCEPT !.waiting = @ \ {w}, !.granted = @ \ {w}]
        /\ NotAcquired(w, ctx[w])
        /\ starved' = [starved EXCEPT ![w] = TRUE]
  /\ UNCHANGED <<life, prepared, tx, stmt, counts, loaded>>

\* The wait ends with what was handed over or with the context; when both are there
\* either may be taken, and a connection that was not taken is given back.
EndWait(w) ==
  /\ phase[w] = "wait"
  /\ \/ /\ w \in pool.granted
        /\ pool' = [pool EXCEPT !.granted = @ \ {w}]
        /\ Acquired(w) /\ UNCHANGED starved
     \/ /\ w \in pool.refused
        /\ pool' = [pool EXCEPT !.refused = @ \ {w}]
        /\ \E e \in Faults : NotAcquired(w, e)
        /\ UNCHANGED starved
     \/ /\ ctx[w] # "live"
        /\ pool' \in IF w \in pool.granted
                    THEN Returned([pool EXCEPT !.granted = @ \ {w}], FALSE)
                    ELSE {[pool EXCEPT !.waiting = @ \ {w}, !.refused = @ \ {w}]}
        /\ NotAcquired(w, ctx[w])
        /\ starved' = [starved EXCEPT ![w] = TRUE]
  /\ UNCHANGED <<life, prepared, tx, stmt, counts, loaded>>

Opener ==
  /\ pool.opening > 0
  /\ pool' \in Opened(pool) \cup NotOpened(pool)
  /\ UNCHANGED <<callVars, life, prepared, held, tx, stmt, counts, loaded, starved>>

(***************************************************************************)
(* execute and runStatement.                                               *)
(***************************************************************************)
\* A failed statement rolls its transaction back, unless that has happened already.
FailQuery(w, e) ==
  /\ FailTo(w, e, "release")
  /\ tx' = [tx EXCEPT ![w] = IF @ = "open" THEN "rolledBack" ELSE @]

BeginTx(w) ==
  /\ phase[w] = "begin"
  /\ \/ tx' = [tx EXCEPT ![w] = "open"] /\ GoTo(w, "statement")
     \/ \E e \in DriverErrors(w) : FailQuery(w, e)
  /\ UNCHANGED <<life, prepared, pool, held, stmt, counts, loaded, starved>>

\* What an ended context does to the next use of a transaction: the context's own
\* error, or ErrTxDone once the rollback has come first.
TxErrors(w) == {ctx[w]} \cup (IF tx[w] = "rolledBack" THEN {"txdone"} ELSE {})

Statement(w) ==
  /\ phase[w] = "statement"
  /\ \/ /\ ~Renders(Current(w))
        /\ FailQuery(w, "unrendered")
     \/ /\ Renders(Current(w)) /\ Query(w).isTx /\ ctx[w] # "live"
        /\ \E e \in TxErrors(w) : FailQuery(w, e)
     \/ /\ Renders(Current(w)) /\ ~Query(w).isTx /\ IsPrepped(w)
        /\ GoTo(w, "acquire") /\ UNCHANGED tx
     \/ /\ Renders(Current(w))
        /\ IF Query(w).isTx THEN ctx[w] = "live" ELSE ~IsPrepped(w)
        /\ GoTo(w, "running") /\ UNCHANGED tx
  /\ UNCHANGED <<life, prepared, pool, held, stmt, counts, loaded, starved>>

\* exec, or query with its rows drained, ends; a second connection goes back.
EndStatement(w) ==
  /\ phase[w] = "running"
  /\ \/ /\ stmt[w] < Len(Query(w).stmts)
        /\ stmt' = [stmt EXCEPT ![w] = @ + 1]
        /\ GoTo(w, "statement") /\ UNCHANGED tx
     \/ /\ stmt[w] = Len(Query(w).stmts)
        /\ GoTo(w, IF Query(w).isTx THEN "commit" ELSE "release")
        /\ UNCHANGED <<stmt, tx>>
     \/ /\ \E e \in DriverErrors(w) : FailQuery(w, e)
        /\ UNCHANGED stmt
  /\ IF held[w] = 2
     THEN /\ held' = [held EXCEPT ![w] = 1]
          /\ \E broken \in BOOLEAN : pool' \in Returned(pool, broken)
     ELSE UNCHANGED <<held, pool>>
  /\ UNCHANGED <<life, prepared, counts, loaded, starved>>

\* tx.Commit looks at the context first and leaves the rollback to the goroutine.
Commit(w) ==
  /\ phase[w] = "commit"
  /\ \/ /\ ctx[w] # "live"
        /\ FailTo(w, IF tx[w] = "rolledBack" THEN "txdone" ELSE ctx[w], "release")
        /\ UNCHANGED tx
     \/ /\ ctx[w] = "live"
        /\ tx' = [tx EXCEPT ![w] = "committed"] /\ GoTo(w, "release")
     \/ /\ ctx[w] = "live"
        /\ \E e \in Faults : FailQuery(w, e)
  /\ UNCHANGED <<life, prepared, pool, held, stmt, counts, loaded, starved>>

\* Mutant of AwaitDone: the transaction was begun under the work context.
AwaitDoneOfRun(w) ==
  /\ tx[w] = "open" /\ ctx[w] = "canceled"
  /\ tx' = [tx EXCEPT ![w] = "rolledBack"]
  /\ UNCHANGED <<callVars, life, prepared, pool, held, stmt, counts, loaded, starved>>

\* Tx.awaitDone, on its own goroutine.
AwaitDone(w) ==
  /\ tx[w] = "open" /\ ctx[w] # "live"
  /\ tx' = [tx EXCEPT ![w] = "rolledBack"]
  /\ UNCHANGED <<callVars, life, prepared, pool, held, stmt, counts, loaded, starved>>

\* conn.Close waits for an open transaction, then gives the connection back.
Release(w) ==
  /\ phase[w] = "release" /\ tx[w] # "open"
  /\ held' = [held EXCEPT ![w] = 0]
  /\ \E broken \in BOOLEAN : pool' \in Returned(pool, broken)
  /\ GoTo(w, "classify")
  /\ UNCHANGED sqlCall

(***************************************************************************)
(* The outcome.  The context is read again here, after the connection went *)
(* back: it may have ended since the error.                                *)
(***************************************************************************)
PoolClass(context, e) ==
  CASE e = "canceled" -> "canceled"
    [] e = "deadline" -> "pool_timeout"
    [] OTHER -> IF context # "live" THEN "canceled" ELSE "connection"

ClassifySQLError(context, e) ==
  CASE e = "deadline" -> "timeout"
    [] e = "canceled" -> "canceled"
    [] OTHER -> IF context # "live" THEN "canceled"
                ELSE CASE e = "refused" -> "connection"
                       [] e = "stalled" -> "timeout"
                       [] e = "tls" -> "tls"
                       [] OTHER -> "query_error"

\* No connection: the outcome is filed and nothing is counted.
Unserved(w) ==
  /\ phase[w] = "unserved"
  /\ Decide(w, PoolClass(ctx[w], err[w]), "record")
  /\ UNCHANGED sqlVars

ClassifyQuery(w) ==
  /\ phase[w] = "classify"
  /\ Decide(w, IF err[w] = "none" THEN "ok" ELSE ClassifySQLError(ctx[w], err[w]), "load")
  /\ UNCHANGED sqlVars

\* r.writes++ or r.reads++, without a lock: a load and a store.
LoadCount(w) ==
  /\ phase[w] = "load"
  /\ loaded' = [loaded EXCEPT ![w] = counts[CompiledOp(Query(w))]]
  /\ GoTo(w, "store")
  /\ UNCHANGED <<life, prepared, pool, held, tx, stmt, counts, starved>>

StoreCount(w) ==
  /\ phase[w] = "store"
  /\ counts' = [counts EXCEPT ![CompiledOp(Query(w))] = loaded[w] + 1]
  /\ GoTo(w, "record")
  /\ UNCHANGED <<life, prepared, pool, held, tx, stmt, loaded, starved>>

RecordQuery(w) ==
  /\ runnerOf[w] = "db" /\ Record(w)
  /\ tx' = [tx EXCEPT ![w] = "none"] /\ stmt' = [stmt EXCEPT ![w] = 1]
  /\ loaded' = [loaded EXCEPT ![w] = 0] /\ starved' = [starved EXCEPT ![w] = FALSE]
  /\ UNCHANGED <<life, prepared, pool, held, counts>>

\* The steps of a call but its start.
QueryStep(w) ==
  \/ Acquire(w) \/ Dial(w) \/ EndWait(w)
  \/ BeginTx(w) \/ Statement(w) \/ EndStatement(w) \/ Commit(w) \/ Release(w)
  \/ Unserved(w) \/ ClassifyQuery(w) \/ LoadCount(w) \/ StoreCount(w) \/ RecordQuery(w)

PrepareStep == Ping \/ PrepareStatement \/ Prepared \/ Close

=============================================================================
