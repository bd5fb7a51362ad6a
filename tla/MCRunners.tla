----------------------------- MODULE MCRunners -----------------------------
(* Small instances of Runners: two workers on the database, two on Redis, or one busy
   at a time on HTTP, with units chosen so that every path is there. *)
EXTENDS Runners, TLC

CONSTANTS w1, w2
WorkerSet == {w1, w2}
AllOf(runner) == [w \in WorkerSet |-> runner]

\* A transaction of two statements, a read that is kept prepared and takes a second
\* connection, and a query whose argument has no value.
QueryList == <<
  [type |-> "", weight |-> 2, isTx |-> TRUE, prepare |-> FALSE,
   stmts |-> <<[op |-> "read", text |-> "static", args |-> "generated"],
               [op |-> "write", text |-> "generated", args |-> "static"]>>],
  [type |-> "read", weight |-> 1, isTx |-> FALSE, prepare |-> TRUE,
   stmts |-> <<[op |-> "read", text |-> "static", args |-> "static"]>>],
  [type |-> "", weight |-> 1, isTx |-> FALSE, prepare |-> FALSE,
   stmts |-> <<[op |-> "read", text |-> "static", args |-> "unbound"]>>]>>
PoolOf2  == [maxOpen |-> 2, maxIdle |-> 1]
PoolUnset == [maxOpen |-> 0, maxIdle |-> 0]
FaultSet == {"refused"}

\* A pipeline of two, a command that cannot be rendered, and one that is never picked.
CommandList == <<
  [type |-> "", weight |-> 1, isPipeline |-> TRUE,
   parts |-> <<[op |-> "read", unbound |-> FALSE], [op |-> "write", unbound |-> FALSE]>>],
  [type |-> "read", weight |-> 0, isPipeline |-> FALSE, parts |-> <<[op |-> "read", unbound |-> FALSE]>>],
  [type |-> "", weight |-> 1, isPipeline |-> FALSE, parts |-> <<[op |-> "read", unbound |-> TRUE]>>]>>

\* A plain request, and one that expects a redirect's status and a short body.
RequestList == <<
  [weight |-> 1, valid |-> TRUE, expect |-> {}, limited |-> FALSE],
  [weight |-> 1, valid |-> TRUE, expect |-> {302}, limited |-> TRUE]>>
StatusSet == {302, 503}

Calls == [r \in RunnerNames |-> IF r = "db" THEN 2 ELSE 1]
MCInit == Init({AllOf("db"), AllOf("redis"), AllOf("http")})
FairSpec == MCInit /\ [][Next]_vars /\ Fairness

\* Two prepared reads on a pool as large as the number of workers.
PreparedReads == <<QueryList[2]>>

InitSQL == Init({AllOf("db")})
SQLSpec == InitSQL /\ [][Next]_vars
=============================================================================
