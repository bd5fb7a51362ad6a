--------------------------- MODULE RunnersProofs ---------------------------
(***************************************************************************)
(* What the three runners promise, for every number of workers, every set  *)
(* of queries, commands and requests, every pool and every fault: no       *)
(* connection is lost or used twice, a success was earned, and the phases  *)
(* of a request add up.                                                    *)
(*                                                                         *)
(* The argument: CallInv says that a worker is in a phase of its own       *)
(* runner, so that a step of one runner leaves the calls of the others     *)
(* alone.  QueryInv, CommandInv and RequestInv then say for each           *)
(* phase of a call what is so in it, one worker at a time, and PoolInv     *)
(* keeps the accounts of the connection pool.                              *)
(***************************************************************************)
EXTENDS Runners, FiniteSetTheorems, WellFoundedInduction, TLAPS

-----------------------------------------------------------------------------
(* The inductive invariant. *)

Contexts == {"live", "deadline", "canceled"}
SQLPhases == {"acquire", "dial", "wait", "begin", "statement", "running", "commit", "release",
              "unserved", "classify", "load", "store"}
RedisPhases == {"render", "turn", "io", "broken", "sent", "loadRedis", "storeRedis"}
HTTPPhases == {"build", "ask", "conn", "exchange", "head", "failedDo", "drain", "observe",
               "classifyResponse", "classifyError"}
AllPhases == {"idle", "record"} \cup SQLPhases \cup RedisPhases \cup HTTPPhases
PhasesOf(runner) ==
  {"idle", "record"} \cup
    CASE runner = "db" -> SQLPhases
      [] runner = "redis" -> RedisPhases
      [] runner = "http" -> HTTPPhases

\* The errors a call may have in hand.
Errors == {"none", "deadline", "canceled", "unrendered", "txdone", "nil", "refusal", "eof",
           "i/o timeout", "pool timeout", "redirects"} \cup FaultTexts \cup DialErrors

\* A call is in a phase of its own runner.
CallInv ==
  /\ runnerOf \in [Workers -> RunnerNames]
  /\ phase \in [Workers -> AllPhases]
  /\ unit \in [Workers -> Nat]
  /\ ctx \in [Workers -> Contexts]
  /\ err \in [Workers -> Errors]
  /\ class \in [Workers -> Classes \cup {"none"}]
  /\ \A w \in Workers : phase[w] \in PhasesOf(runnerOf[w])

TxStates == {"none", "open", "rolledBack", "committed"}

\* The query did all it was asked for.
Done(w) ==
  stmt[w] = Len(Query(w).stmts) /\ IF Query(w).isTx THEN tx[w] = "committed" ELSE err[w] = "none"

\* What is so of a query in each of its phases: the connections it holds, how far its
\* transaction is, and whether there is an error.
QueryFacts(w) ==
  /\ unit[w] \in DOMAIN Queries /\ stmt[w] \in 1 .. Len(Query(w).stmts)
  /\ phase[w] \in {"idle", "unserved", "classify", "load", "store", "record"} => held[w] = 0
  /\ phase[w] \in {"begin", "statement", "commit", "release"} => held[w] = 1
  /\ phase[w] \in {"acquire", "dial", "wait"} => held[w] = 0 \/ (held[w] = 1 /\ ~Query(w).isTx)
  /\ phase[w] = "running" => held[w] \in {1, 2}
  /\ tx[w] # "none" => Query(w).isTx
  /\ phase[w] \in {"idle", "acquire", "dial", "wait", "begin", "unserved"} => tx[w] = "none"
  /\ phase[w] \in {"begin", "commit"} => Query(w).isTx
  /\ phase[w] \in {"statement", "running", "commit"} =>
       tx[w] # "committed" /\ (Query(w).isTx => tx[w] # "none")
  /\ phase[w] \in {"classify", "load", "store", "record"} => tx[w] # "open"
  /\ phase[w] = "commit" => stmt[w] = Len(Query(w).stmts)
  /\ phase[w] \in SQLPhases \ {"release", "unserved", "classify", "load", "store"} => err[w] = "none"
  /\ phase[w] = "idle" => err[w] = "none" /\ class[w] = "none" /\ stmt[w] = 1
  /\ phase[w] = "unserved" => err[w] # "none"
  /\ phase[w] \in {"release", "classify"} => (err[w] = "none" <=> Done(w))
  /\ phase[w] \in {"load", "store", "record"} => (class[w] = "ok" <=> Done(w))

QueryTypes ==
  held \in [Workers -> 0 .. 2] /\ tx \in [Workers -> TxStates] /\ stmt \in [Workers -> Nat]

QueryInv ==
  /\ QueryTypes
  /\ \A w \in Workers : runnerOf[w] = "db" => QueryFacts(w)
  /\ \A w \in Workers : runnerOf[w] # "db" => held[w] = 0 /\ tx[w] = "none"

PoolType == [idle : Nat, open : Int, opening : Nat, waiting : SUBSET Workers,
             granted : SUBSET Workers, refused : SUBSET Workers]

PoolOK(p) ==
  /\ p \in PoolType
  /\ p.waiting \cap p.granted = {} /\ p.waiting \cap p.refused = {} /\ p.granted \cap p.refused = {}
  /\ p.open <= PoolSize

Callers(p) == p.waiting \cup p.granted \cup p.refused

\* The connections that are in nobody's hands.
Loose(p) == p.idle + Cardinality(p.granted) + p.opening

PoolInv ==
  /\ PoolOK(pool)
  /\ Callers(pool) \subseteq {w \in Workers : phase[w] = "wait"}
  /\ pool.open - Loose(pool) = Cardinality(HeldByCalls) + Cardinality(BeingDialled)
  /\ life = "new" => pool = EmptyPool
  /\ \A w \in Workers : phase[w] \in SQLPhases => life = "ready"

\* What is so of a Redis unit in each of its phases.
CommandFacts(w) ==
  /\ unit[w] \in DOMAIN Commands
  /\ phase[w] \in {"idle", "render", "turn", "io", "broken"} => replies[w] = <<>>
  /\ phase[w] \in {"idle", "render", "turn", "io"} => err[w] = "none"
  /\ phase[w] = "broken" => err[w] \notin {"none", "nil"}
  /\ phase[w] = "sent" =>
       \/ replies[w] = <<>> /\ err[w] \notin {"none", "nil"}
       \/ /\ replies[w] \in [DOMAIN Command(w).parts -> Replies]
          /\ err[w] = FirstError(replies[w])
  /\ phase[w] = "idle" => class[w] = "none"
  /\ phase[w] \in {"loadRedis", "storeRedis", "record"} =>
       (class[w] = "ok" <=> /\ replies[w] # <<>>
                            /\ \A i \in DOMAIN replies[w] : replies[w][i] # "refusal")

CommandInv ==
  /\ replies \in [Workers -> Seq(Replies)] /\ attempt \in [Workers -> Nat]
  /\ \A w \in Workers : runnerOf[w] = "redis" => CommandFacts(w)
  /\ inUse = {w \in Workers : phase[w] = "io"}
  /\ Cardinality(inUse) <= RedisPoolSize

\* What is so of a request in each of its phases, but for its times.
RequestFacts(w) ==
  /\ unit[w] \in DOMAIN Requests
  /\ phase[w] \in {"idle", "build", "ask", "conn", "exchange", "head", "drain", "classifyResponse"}
       => err[w] = "none"
  /\ phase[w] \in {"failedDo", "classifyError"} => err[w] # "none"
  /\ phase[w] \in {"idle", "build", "ask", "conn", "exchange", "head"} => status[w] = 0
  /\ phase[w] \in HTTPPhases \ {"observe", "classifyResponse", "classifyError"} => ~overLimit[w]
  /\ phase[w] = "idle" => ~overLimit[w] /\ class[w] = "none"
  /\ overLimit[w] => Request(w).limited
  /\ phase[w] = "record" =>
       (class[w] = "ok" <=>
          /\ err[w] = "none" /\ ~overLimit[w]
          /\ status[w] \in IF Request(w).expect = {} THEN 200 .. 399 ELSE Request(w).expect)

PhasesType == [connWait : Nat, ttfb : Nat, transfer : Nat, connected : BOOLEAN]

\* The stamps of a call in the order they were taken, as far as it has come.
StampFacts(w) ==
  /\ started[w] <= now /\ \A s \in Stamps : trace[w][s] <= now
  /\ phase[w] \in {"exchange", "head"} =>
       haveConn[w] /\ trace[w].getConn <= trace[w].gotConn /\ started[w] <= trace[w].gotConn
  /\ phase[w] = "head" => trace[w].gotConn <= trace[w].firstByte
  /\ phase[w] \in {"idle", "build", "ask", "conn", "exchange", "head", "failedDo"} => firstByte[w] = 0
  /\ firstByte[w] > 0 =>
       /\ haveConn[w] /\ trace[w].getConn <= trace[w].gotConn /\ started[w] <= trace[w].gotConn
       /\ trace[w].gotConn <= trace[w].firstByte
       /\ connAcquired[w] = trace[w].gotConn /\ firstByte[w] = trace[w].firstByte
       /\ phase[w] # "drain" => firstByte[w] <= ended[w]
       /\ phase[w] \in {"classifyResponse", "classifyError", "record"} =>
            phases[w] = Phases(w, ended[w])

HTTPTypes ==
  /\ status \in [Workers -> Nat] /\ overLimit \in [Workers -> BOOLEAN]
  /\ now \in Nat /\ trace \in [Workers -> [Stamps -> Nat]] /\ haveConn \in [Workers -> BOOLEAN]
  /\ started \in [Workers -> Nat] /\ connAcquired \in [Workers -> Nat]
  /\ firstByte \in [Workers -> Nat] /\ ended \in [Workers -> Nat] /\ phases \in [Workers -> PhasesType]

RequestInv ==
  /\ HTTPTypes
  /\ \A w \in Workers : runnerOf[w] = "http" => RequestFacts(w) /\ StampFacts(w)
-----------------------------------------------------------------------------
(* Numbers and picks. *)

\* A set of numbers that is not empty has a least one.
LEMMA LeastNumber ==
  ASSUME NEW T \in SUBSET Nat, T # {}
  PROVE  \E x \in T : \A y \in T : x <= y
<1> DEFINE Below(n) == 0 .. (n - 1)
           S == {Below(n) : n \in T}
<1>1. S \subseteq FiniteSubsetsOf(Nat)
  <2>1. ASSUME NEW n \in Nat
        PROVE  Below(n) \subseteq Nat /\ IsFiniteSet(Below(n))
    BY FS_Interval
  <2> QED
    BY <2>1 DEF FiniteSubsetsOf
<1>2. PICK s \in S : \A t \in S : ~(<<t, s>> \in StrictSubsetOrdering(Nat))
  <2>1. S # {}
    OBVIOUS
  <2> HIDE DEF S
  <2>2. IsWellFoundedOn(StrictSubsetOrdering(Nat), FiniteSubsetsOf(Nat))
    BY FS_StrictSubsetOrderingWellFounded
  <2> QED
    BY <1>1, <2>1, <2>2, WFMin
<1>3. PICK x \in T : s = Below(x)
  OBVIOUS
<1>4. ASSUME NEW y \in T, y < x
      PROVE  FALSE
  <2>1. Below(y) \subseteq Below(x) /\ Below(y) # Below(x) /\ Below(x) \subseteq Nat
    <3>1. y \in Below(x) /\ y \notin Below(y)
      BY <1>4
    <3> QED
      BY <1>4, <3>1
  <2> HIDE DEF Below
  <2>2. <<Below(y), Below(x)>> \in StrictSubsetOrdering(Nat)
    BY <2>1 DEF StrictSubsetOrdering
  <2> QED
    BY <1>2, <1>3, <2>2
<1> QED
  BY <1>4

\* Whatever the weights and the draw, a pick is the index of a unit.
LEMMA PickIsAnIndex ==
  ASSUME NEW n \in Nat \ {0}, NEW weights, DOMAIN weights = 1 .. n, Len(weights) = n, NEW draw
  PROVE  Pick(weights, draw) \in 1 .. n
<1> DEFINE reached == {i \in DOMAIN weights : 2 * Cumulative(weights)[i] >= draw}
<1>1. CASE reached = {}
  BY <1>1 DEF Pick
<1>2. CASE reached # {}
  <2>1. reached \in SUBSET Nat /\ reached \subseteq 1 .. n
    OBVIOUS
  <2> HIDE DEF reached
  <2>2. \E i \in reached : \A j \in reached : i <= j
    BY <1>2, <2>1, LeastNumber
  <2>3. (CHOOSE i \in reached : \A j \in reached : i <= j) \in reached
    BY <2>2
  <2> QED
    BY <2>1, <2>3 DEF Pick, reached
<1> QED
  BY <1>1, <1>2

\* The picks of a runner are indexes of its units.
LEMMA PicksAreIndexes ==
  ASSUME NEW n \in Nat \ {0}, NEW weights, weights = [i \in 1 .. n |-> weights[i]]
  PROVE  Picks(weights) \subseteq 1 .. n
<1>1. DOMAIN weights = 1 .. n /\ Len(weights) = n
  OBVIOUS
<1>2. \A draw : Pick(weights, draw) \in 1 .. n
  BY <1>1, PickIsAnIndex
<1> QED
  BY <1>2 DEF Picks

-----------------------------------------------------------------------------
(* What a step does to the calls. *)

\* Only w's call goes on.
Only(w) ==
  /\ runnerOf' = runnerOf
  /\ \A u \in Workers \ {w} :
       phase'[u] = phase[u] /\ unit'[u] = unit[u] /\ err'[u] = err[u] /\ class'[u] = class[u]

\* It is now in phase ph, with error e and class c.
Now(w, ph, e, c) == phase'[w] = ph /\ err'[w] = e /\ class'[w] = c /\ unit'[w] = unit[w]

\* The phases of one runner are not those of another.
LEMMA PhasesApart ==
  ASSUME NEW runner \in RunnerNames, NEW ph \in PhasesOf(runner)
  PROVE  /\ ph \in SQLPhases => runner = "db"
         /\ ph \in RedisPhases => runner = "redis"
         /\ ph \in HTTPPhases => runner = "http"
<1>1. CASE runner = "db"
  BY <1>1 DEF PhasesOf, SQLPhases, RedisPhases, HTTPPhases
<1>2. CASE runner = "redis"
  BY <1>2 DEF PhasesOf, SQLPhases, RedisPhases, HTTPPhases
<1>3. CASE runner = "http"
  BY <1>3 DEF PhasesOf, SQLPhases, RedisPhases, HTTPPhases
<1> QED
  BY <1>1, <1>2, <1>3 DEF RunnerNames

LEMMA PhaseRunner ==
  ASSUME CallInv, NEW w \in Workers
  PROVE  /\ phase[w] \in SQLPhases => runnerOf[w] = "db"
         /\ phase[w] \in RedisPhases => runnerOf[w] = "redis"
         /\ phase[w] \in HTTPPhases => runnerOf[w] = "http"
BY PhasesApart DEF CallInv

LEMMA GoToDoes ==
  ASSUME CallInv, NEW w \in Workers, NEW next \in PhasesOf(runnerOf[w]) \cap AllPhases, GoTo(w, next)
  PROVE  CallInv' /\ Only(w) /\ Now(w, next, err[w], class[w])
<1> USE DEF GoTo
<1>1. Only(w) /\ Now(w, next, err[w], class[w])
  BY DEF CallInv, Only, Now
<1>2. phase' \in [Workers -> AllPhases] /\ \A u \in Workers : phase'[u] \in PhasesOf(runnerOf[u])
  BY DEF CallInv
<1> QED
  BY <1>1, <1>2 DEF CallInv

LEMMA FailToDoes ==
  ASSUME CallInv, NEW w \in Workers, NEW next \in PhasesOf(runnerOf[w]) \cap AllPhases, NEW e \in Errors,
         FailTo(w, e, next)
  PROVE  CallInv' /\ Only(w) /\ Now(w, next, e, class[w])
<1> USE DEF FailTo
<1>1. Only(w) /\ Now(w, next, e, class[w])
  BY DEF CallInv, Only, Now
<1>2. phase' \in [Workers -> AllPhases] /\ \A u \in Workers : phase'[u] \in PhasesOf(runnerOf[u])
  BY DEF CallInv
<1> QED
  BY <1>1, <1>2 DEF CallInv

LEMMA DecideDoes ==
  ASSUME CallInv, NEW w \in Workers, NEW next \in PhasesOf(runnerOf[w]) \cap AllPhases, NEW c \in Classes,
         Decide(w, c, next)
  PROVE  CallInv' /\ Only(w) /\ Now(w, next, err[w], c)
<1> USE DEF Decide
<1>1. Only(w) /\ Now(w, next, err[w], c)
  BY DEF CallInv, Only, Now
<1>2. phase' \in [Workers -> AllPhases] /\ \A u \in Workers : phase'[u] \in PhasesOf(runnerOf[u])
  BY DEF CallInv
<1> QED
  BY <1>1, <1>2 DEF CallInv

LEMMA RecordDoes ==
  ASSUME CallInv, NEW w \in Workers, Record(w)
  PROVE  /\ CallInv' /\ Only(w)
         /\ phase[w] = "record" /\ phase'[w] = "idle" /\ err'[w] = "none" /\ class'[w] = "none"
         /\ unit'[w] = 1
<1>1. /\ Only(w) /\ phase[w] = "record" /\ phase'[w] = "idle" /\ err'[w] = "none"
      /\ class'[w] = "none" /\ unit'[w] = 1
  BY DEF CallInv, Only, Record
<1>2. /\ phase' = [phase EXCEPT ![w] = "idle"] /\ "idle" \in PhasesOf(runnerOf[w])
      /\ runnerOf' = runnerOf
  BY DEF Record, PhasesOf
<1>s. "idle" \in AllPhases /\ "none" \in Errors
  BY DEF AllPhases, Errors
<1>3. /\ ctx' \in [Workers -> Contexts] /\ unit' \in [Workers -> Nat]
      /\ err' \in [Workers -> Errors] /\ class' \in [Workers -> Classes \cup {"none"}]
  BY <1>s DEF CallInv, Contexts, Record
<1>4. phase' \in [Workers -> AllPhases] /\ \A u \in Workers : phase'[u] \in PhasesOf(runnerOf[u])
  BY <1>2, <1>s DEF CallInv
<1>5. CallInv'
  BY <1>2, <1>3, <1>4 DEF CallInv
<1> QED
  BY <1>1, <1>5

LEMMA BeginDoes ==
  ASSUME CallInv, NEW w \in Workers, NEW runner, NEW n \in Nat, NEW weights,
         Picks(weights) \subseteq 1 .. n,
         NEW next \in PhasesOf(runner) \cap AllPhases, Begin(w, runner, weights, next)
  PROVE  /\ CallInv' /\ Only(w)
         /\ runnerOf[w] = runner /\ phase[w] = "idle" /\ phase'[w] = next
         /\ unit'[w] \in 1 .. n /\ err'[w] = err[w] /\ class'[w] = class[w]
<1> USE DEF Begin
<1>1. PICK i \in Picks(weights) : unit' = [unit EXCEPT ![w] = i]
  OBVIOUS
<1>2. /\ Only(w) /\ runnerOf[w] = runner /\ phase[w] = "idle" /\ phase'[w] = next
      /\ unit'[w] \in 1 .. n /\ err'[w] = err[w] /\ class'[w] = class[w]
  BY <1>1 DEF CallInv, Only
<1>3. phase' = [phase EXCEPT ![w] = next] /\ next \in AllPhases /\ next \in PhasesOf(runnerOf[w])
  OBVIOUS
<1>4. phase' \in [Workers -> AllPhases] /\ \A u \in Workers : phase'[u] \in PhasesOf(runnerOf[u])
  <2> USE <1>3 DEF CallInv
  <2> HIDE DEF Begin
  <2> QED
    OBVIOUS
<1>5. ctx' \in [Workers -> Contexts] /\ unit' \in [Workers -> Nat]
  BY <1>1 DEF CallInv, Contexts
<1>6. runnerOf' = runnerOf /\ err' = err /\ class' = class
  OBVIOUS
<1> HIDE DEF Begin
<1>7. CallInv'
  BY <1>4, <1>5, <1>6 DEF CallInv
<1> QED
  BY <1>2, <1>7

\* What happens to the contexts happens to nothing else.
LEMMA ContextDoes ==
  ASSUME CallInv, CancelWork \/ \E w \in Workers : Expire(w)
  PROVE  CallInv' /\ UNCHANGED <<runnerOf, phase, unit, err, class>>
<1>1. UNCHANGED <<runnerOf, phase, unit, err, class>> /\ ctx' \in [Workers -> Contexts]
  BY DEF CallInv, CancelWork, Expire, Contexts
<1> QED
  BY <1>1 DEF CallInv

-----------------------------------------------------------------------------
(* The calls of the SQL runner. *)

OnlyQuery(w) ==
  \A u \in Workers \ {w} : held'[u] = held[u] /\ tx'[u] = tx[u] /\ stmt'[u] = stmt[u]

\* A step of w's query: nothing else goes on, and what was so of it is so again.
QueryGoesOn(w) ==
  /\ CallInv' /\ Only(w) /\ runnerOf[w] = "db"
  /\ QueryTypes' /\ OnlyQuery(w) /\ QueryFacts(w)'

LEMMA TheQueries ==
  /\ \A i \in DOMAIN Queries :
       /\ Len(Queries[i].stmts) \in Nat \ {0}
       /\ Queries[i].isTx \in BOOLEAN
       /\ ~Queries[i].isTx => Len(Queries[i].stmts) = 1
  /\ 1 \in DOMAIN Queries
  /\ Picks(SQLWeights) \subseteq 1 .. Len(Queries) /\ Len(Queries) \in Nat
  /\ DOMAIN Queries = 1 .. Len(Queries)
<1>1. Queries \in Seq(QueryType) /\ Queries # <<>>
  BY QueryAssumption
<1>2. DOMAIN Queries = 1 .. Len(Queries) /\ Len(Queries) \in Nat \ {0}
  BY <1>1
<1>3. ASSUME NEW i \in DOMAIN Queries
      PROVE  /\ Len(Queries[i].stmts) \in Nat \ {0}
             /\ Queries[i].isTx \in BOOLEAN
             /\ ~Queries[i].isTx => Len(Queries[i].stmts) = 1
  <2>1. Queries[i] \in QueryType
    BY <1>1
  <2> DEFINE S == [op : {"read", "write"}, text : TemplateKinds, args : TemplateKinds]
  <2>2. Queries[i].stmts \in Seq(S) /\ Queries[i].isTx \in BOOLEAN
    BY <2>1 DEF QueryType
  <2>3. Queries[i].stmts # <<>> /\ (Queries[i].isTx \/ Len(Queries[i].stmts) = 1)
    BY QueryAssumption
  <2> HIDE DEF S
  <2> QED
    BY <2>2, <2>3
<1>4. Picks(SQLWeights) \subseteq 1 .. Len(Queries)
  <2>1. SQLWeights = [i \in 1 .. Len(Queries) |-> SQLWeights[i]]
    BY <1>2 DEF SQLWeights
  <2> QED
    BY <1>2, <2>1, PicksAreIndexes
<1> QED
  BY <1>2, <1>3, <1>4

\* The errors a query may meet.
LEMMA QueryErrors ==
  ASSUME CallInv, NEW w \in Workers
  PROVE  /\ DriverErrors(w) \subseteq Errors \ {"none"}
         /\ ctx[w] # "live" => ctx[w] \in Errors \ {"none"}
         /\ ctx[w] # "live" => TxErrors(w) \subseteq Errors \ {"none"}
         /\ Faults \subseteq Errors \ {"none"}
         /\ "unrendered" \in Errors \ {"none"} /\ "txdone" \in Errors \ {"none"}
<1>1. ctx[w] \in Contexts
  BY DEF CallInv
<1>2. Faults \subseteq {"refused", "stalled", "tls", "rejected"}
  BY QueryAssumption DEF FaultTexts
<1>3. ctx[w] # "live" => ctx[w] \in {"deadline", "canceled"}
  BY <1>1 DEF Contexts
<1>4. {"refused", "stalled", "tls", "rejected", "deadline", "canceled", "txdone", "unrendered"}
        \subseteq Errors \ {"none"}
  BY DEF Errors, FaultTexts
<1> QED
  BY <1>2, <1>3, <1>4 DEF DriverErrors, TxErrors

LEMMA AcquiredDoes ==
  ASSUME CallInv, QueryInv, NEW w \in Workers, phase[w] \in {"acquire", "dial", "wait"},
         Acquired(w), UNCHANGED <<tx, stmt>>
  PROVE  QueryGoesOn(w)
<1>1. runnerOf[w] = "db" /\ QueryFacts(w) /\ QueryTypes
  BY PhaseRunner DEF SQLPhases, QueryInv
<1> DEFINE next == IF held[w] = 1 THEN "running" ELSE IF Query(w).isTx THEN "begin" ELSE "statement"
<1>2. next \in PhasesOf(runnerOf[w]) \cap AllPhases /\ GoTo(w, next)
  BY <1>1 DEF PhasesOf, SQLPhases, AllPhases, Acquired
<1> HIDE DEF next
<1>3. CallInv' /\ Only(w) /\ Now(w, next, err[w], class[w])
  BY <1>2, GoToDoes
<1>4. held[w] \in {0, 1} /\ (held[w] = 1 => ~Query(w).isTx)
  BY <1>1 DEF QueryFacts
<1>5. QueryTypes' /\ OnlyQuery(w) /\ held'[w] = held[w] + 1 /\ tx'[w] = tx[w] /\ stmt'[w] = stmt[w]
  <2>1. held' = [held EXCEPT ![w] = held[w] + 1] /\ held[w] + 1 \in 0 .. 2
    BY <1>4 DEF Acquired
  <2> QED
    BY <1>1, <2>1 DEF QueryTypes, OnlyQuery
<1>6. QueryFacts(w)'
  <2>1. Query(w)' = Query(w)
    BY <1>3 DEF Query, Now
  <2> QED
    BY <1>1, <1>3, <1>4, <1>5, <2>1 DEF QueryFacts, Now, Done, SQLPhases, next
<1> QED
  BY <1>1, <1>3, <1>5, <1>6 DEF QueryGoesOn

LEMMA NotAcquiredDoes ==
  ASSUME CallInv, QueryInv, NEW w \in Workers, phase[w] \in {"acquire", "dial", "wait"},
         NEW e \in Errors \ {"none"}, NotAcquired(w, e), UNCHANGED <<tx, stmt>>
  PROVE  QueryGoesOn(w)
<1>1. runnerOf[w] = "db" /\ QueryFacts(w) /\ QueryTypes
  BY PhaseRunner DEF SQLPhases, QueryInv
<1> DEFINE next == IF held[w] = 1 THEN "release" ELSE "unserved"
<1>2. next \in PhasesOf(runnerOf[w]) \cap AllPhases /\ FailTo(w, e, next)
  BY <1>1 DEF PhasesOf, SQLPhases, AllPhases, NotAcquired
<1> HIDE DEF next
<1>3. CallInv' /\ Only(w) /\ Now(w, next, e, class[w])
  BY <1>2, FailToDoes
<1>4. held[w] \in {0, 1} /\ (held[w] = 1 => ~Query(w).isTx)
  BY <1>1 DEF QueryFacts
<1>5. QueryTypes' /\ OnlyQuery(w) /\ held'[w] = held[w] /\ tx'[w] = tx[w] /\ stmt'[w] = stmt[w]
  BY <1>1 DEF QueryTypes, OnlyQuery, NotAcquired
<1>6. QueryFacts(w)'
  <2>1. Query(w)' = Query(w)
    BY <1>3 DEF Query, Now
  <2> QED
    BY <1>1, <1>3, <1>4, <1>5, <2>1 DEF QueryFacts, Now, Done, SQLPhases, next
<1> QED
  BY <1>1, <1>3, <1>5, <1>6 DEF QueryGoesOn

\* The call is left with the one connection it was given, or gave the second one back.
OneHeld(w) ==
  held' \in [Workers -> 0 .. 2] /\ held'[w] = 1 /\ \A u \in Workers \ {w} : held'[u] = held[u]

LEMMA FailQueryDoes ==
  ASSUME CallInv, QueryInv, NEW w \in Workers,
         phase[w] \in {"begin", "statement", "running", "commit"},
         NEW e \in Errors \ {"none"}, FailQuery(w, e), stmt' = stmt, OneHeld(w)
  PROVE  QueryGoesOn(w)
<1>1. runnerOf[w] = "db" /\ QueryFacts(w) /\ QueryTypes
  BY PhaseRunner DEF SQLPhases, QueryInv
<1>2. "release" \in PhasesOf(runnerOf[w]) \cap AllPhases /\ FailTo(w, e, "release")
  BY <1>1 DEF PhasesOf, SQLPhases, AllPhases, FailQuery
<1>3. CallInv' /\ Only(w) /\ Now(w, "release", e, class[w])
  BY <1>2, FailToDoes
<1>4. /\ tx' \in [Workers -> TxStates] /\ \A u \in Workers \ {w} : tx'[u] = tx[u]
      /\ tx'[w] = IF tx[w] = "open" THEN "rolledBack" ELSE tx[w]
  BY <1>1 DEF FailQuery, QueryTypes, TxStates
<1>5. QueryTypes' /\ OnlyQuery(w)
  BY <1>1, <1>4 DEF QueryTypes, OnlyQuery, OneHeld
<1>6. tx[w] # "committed"
  BY <1>1 DEF QueryFacts
<1>7. QueryFacts(w)'
  <2>1. Query(w)' = Query(w)
    BY <1>3 DEF Query, Now
  <2> QED
    BY <1>1, <1>3, <1>4, <1>6, <2>1 DEF QueryFacts, Now, Done, SQLPhases, OneHeld
<1> QED
  BY <1>1, <1>3, <1>5, <1>7 DEF QueryGoesOn

LEMMA BeginQueryStep ==
  ASSUME CallInv, QueryInv, NEW w \in Workers, BeginQuery(w)
  PROVE  QueryGoesOn(w)
<1>1. "acquire" \in PhasesOf("db") \cap AllPhases
  BY DEF PhasesOf, SQLPhases, AllPhases
<1>2. /\ CallInv' /\ Only(w) /\ runnerOf[w] = "db" /\ phase[w] = "idle" /\ phase'[w] = "acquire"
      /\ unit'[w] \in 1 .. Len(Queries) /\ err'[w] = err[w] /\ class'[w] = class[w]
  <2>1. Begin(w, "db", SQLWeights, "acquire")
    BY DEF BeginQuery
  <2> HIDE DEF BeginQuery
  <2> QED
    BY <1>1, <2>1, BeginDoes, TheQueries
<1>3. QueryTypes' /\ OnlyQuery(w) /\ held'[w] = held[w] /\ tx'[w] = tx[w] /\ stmt'[w] = stmt[w]
  BY DEF BeginQuery, sqlVars, QueryInv, QueryTypes, OnlyQuery
<1>4. QueryFacts(w)'
  <2>1. QueryFacts(w)
    BY <1>2 DEF QueryInv
  <2>2. stmt[w] = 1 /\ tx[w] = "none" /\ held[w] = 0 /\ err[w] = "none"
    BY <1>2, <2>1 DEF QueryFacts
  <2> QED
    BY <1>2, <1>3, <2>2, TheQueries DEF QueryFacts, Done, Query, SQLPhases
<1> QED
  BY <1>2, <1>3, <1>4 DEF QueryGoesOn

LEMMA AcquireStep ==
  ASSUME CallInv, QueryInv, NEW w \in Workers, Acquire(w)
  PROVE  QueryGoesOn(w)
<1>1. phase[w] = "acquire" /\ UNCHANGED <<tx, stmt>>
  BY DEF Acquire, sqlCall
<1>2. runnerOf[w] = "db" /\ QueryFacts(w) /\ QueryTypes
  BY <1>1, PhaseRunner DEF SQLPhases, QueryInv
<1>3. CASE ctx[w] # "live" /\ NotAcquired(w, ctx[w])
  BY <1>1, <1>3, QueryErrors, NotAcquiredDoes
<1>4. CASE Acquired(w)
  BY <1>1, <1>4, AcquiredDoes
<1>5. ASSUME NEW next \in {"dial", "wait"}, GoTo(w, next), UNCHANGED held
      PROVE  QueryGoesOn(w)
  <2>1. /\ CallInv' /\ Only(w) /\ Now(w, next, err[w], class[w]) /\ Query(w)' = Query(w)
        /\ QueryTypes' /\ OnlyQuery(w)
        /\ held'[w] = held[w] /\ tx'[w] = tx[w] /\ stmt'[w] = stmt[w]
    <3>1. next \in PhasesOf(runnerOf[w]) \cap AllPhases
      BY <1>2, <1>5 DEF PhasesOf, SQLPhases, AllPhases
    <3> QED
      BY <1>1, <1>2, <1>5, <3>1, GoToDoes DEF QueryTypes, OnlyQuery, Query, Now
  <2>2. QueryFacts(w)'
    BY <1>1, <1>2, <1>5, <2>1 DEF QueryFacts, Now, Done, SQLPhases
  <2> QED
    BY <1>2, <2>1, <2>2 DEF QueryGoesOn
<1>6. \/ ctx[w] # "live" /\ NotAcquired(w, ctx[w])
      \/ Acquired(w)
      \/ GoTo(w, "dial") /\ UNCHANGED held
      \/ GoTo(w, "wait") /\ UNCHANGED held
  BY DEF Acquire
<1> QED
  BY <1>3, <1>4, <1>5, <1>6

LEMMA DialStep ==
  ASSUME CallInv, QueryInv, NEW w \in Workers, Dial(w)
  PROVE  QueryGoesOn(w)
<1>1. phase[w] = "dial" /\ UNCHANGED <<tx, stmt>>
  BY DEF Dial, sqlCall
<1>2. Acquired(w) \/ \E e \in DriverErrors(w) : NotAcquired(w, e)
  BY DEF Dial
<1> QED
  BY <1>1, <1>2, QueryErrors, AcquiredDoes, NotAcquiredDoes

LEMMA EndWaitStep ==
  ASSUME CallInv, QueryInv, NEW w \in Workers, EndWait(w)
  PROVE  QueryGoesOn(w)
<1>1. phase[w] = "wait" /\ UNCHANGED <<tx, stmt>>
  BY DEF EndWait
<1>2. \/ Acquired(w)
      \/ \E e \in Faults : NotAcquired(w, e)
      \/ ctx[w] # "live" /\ NotAcquired(w, ctx[w])
  BY DEF EndWait
<1> QED
  BY <1>1, <1>2, QueryErrors, AcquiredDoes, NotAcquiredDoes

LEMMA BeginTxStep ==
  ASSUME CallInv, QueryInv, NEW w \in Workers, BeginTx(w)
  PROVE  QueryGoesOn(w)
<1>1. phase[w] = "begin" /\ UNCHANGED <<held, stmt>>
  BY DEF BeginTx
<1>2. runnerOf[w] = "db" /\ QueryFacts(w) /\ QueryTypes
  BY <1>1, PhaseRunner DEF SQLPhases, QueryInv
<1>3. held[w] = 1 /\ Query(w).isTx /\ err[w] = "none"
  BY <1>1, <1>2 DEF QueryFacts, SQLPhases
<1>4. CASE tx' = [tx EXCEPT ![w] = "open"] /\ GoTo(w, "statement")
  <2>1. "statement" \in PhasesOf(runnerOf[w]) \cap AllPhases
    BY <1>2 DEF PhasesOf, SQLPhases, AllPhases
  <2>2. CallInv' /\ Only(w) /\ Now(w, "statement", err[w], class[w])
    BY <1>4, <2>1, GoToDoes
  <2>3. QueryTypes' /\ OnlyQuery(w) /\ held'[w] = 1 /\ tx'[w] = "open" /\ stmt'[w] = stmt[w]
    BY <1>1, <1>2, <1>3, <1>4 DEF QueryTypes, OnlyQuery, TxStates
  <2>4. Query(w)' = Query(w)
    BY <2>2 DEF Query, Now
  <2>5. QueryFacts(w)'
    BY <1>1, <1>2, <1>3, <2>2, <2>3, <2>4 DEF QueryFacts, Now, SQLPhases
  <2> QED
    BY <1>2, <2>2, <2>3, <2>5 DEF QueryGoesOn
<1>5. CASE \E e \in DriverErrors(w) : FailQuery(w, e)
  <2>1. OneHeld(w)
    BY <1>1, <1>2, <1>3 DEF OneHeld, QueryTypes
  <2> QED
    BY <1>1, <1>5, <2>1, QueryErrors, FailQueryDoes
<1> QED
  BY <1>4, <1>5 DEF BeginTx

LEMMA StatementStep ==
  ASSUME CallInv, QueryInv, NEW w \in Workers, Statement(w)
  PROVE  QueryGoesOn(w)
<1>1. phase[w] = "statement" /\ UNCHANGED <<held, stmt>>
  BY DEF Statement
<1>2. runnerOf[w] = "db" /\ QueryFacts(w) /\ QueryTypes
  BY <1>1, PhaseRunner DEF SQLPhases, QueryInv
<1>3. /\ held[w] = 1 /\ err[w] = "none" /\ tx[w] # "committed"
      /\ Query(w).isTx => tx[w] # "none"
      /\ ~Query(w).isTx => tx[w] = "none"
  BY <1>1, <1>2 DEF QueryFacts, SQLPhases
<1>4. CASE \E e \in Errors \ {"none"} : FailQuery(w, e)
  <2>1. OneHeld(w)
    BY <1>1, <1>2, <1>3 DEF OneHeld, QueryTypes
  <2> QED
    BY <1>1, <1>4, <2>1, FailQueryDoes
<1>5. ASSUME NEW next \in {"acquire", "running"}, GoTo(w, next), UNCHANGED tx,
             next = "acquire" => ~Query(w).isTx
      PROVE  QueryGoesOn(w)
  <2>1. next \in PhasesOf(runnerOf[w]) \cap AllPhases
    BY <1>2, <1>5 DEF PhasesOf, SQLPhases, AllPhases
  <2>2. CallInv' /\ Only(w) /\ Now(w, next, err[w], class[w])
    BY <1>5, <2>1, GoToDoes
  <2>3. QueryTypes' /\ OnlyQuery(w) /\ held'[w] = 1 /\ tx'[w] = tx[w] /\ stmt'[w] = stmt[w]
    BY <1>1, <1>2, <1>3, <1>5 DEF QueryTypes, OnlyQuery
  <2>4. Query(w)' = Query(w)
    BY <2>2 DEF Query, Now
  <2>5. QueryFacts(w)'
    BY <1>1, <1>2, <1>3, <1>5, <2>2, <2>3, <2>4 DEF QueryFacts, Now, SQLPhases
  <2> QED
    BY <1>2, <2>2, <2>3, <2>5 DEF QueryGoesOn
<1>6. \/ \E e \in Errors \ {"none"} : FailQuery(w, e)
      \/ ~Query(w).isTx /\ GoTo(w, "acquire") /\ UNCHANGED tx
      \/ GoTo(w, "running") /\ UNCHANGED tx
  <2> HIDE DEF GoTo, FailQuery, Renders, IsPrepped, Current, TxErrors
  <2> QED
    BY QueryErrors DEF Statement
<1> QED
  BY <1>4, <1>5, <1>6

LEMMA EndStatementStep ==
  ASSUME CallInv, QueryInv, NEW w \in Workers, EndStatement(w)
  PROVE  QueryGoesOn(w)
<1>1. phase[w] = "running"
  BY DEF EndStatement
<1>2. runnerOf[w] = "db" /\ QueryFacts(w) /\ QueryTypes
  BY <1>1, PhaseRunner DEF SQLPhases, QueryInv
<1>3. /\ held[w] \in {1, 2} /\ err[w] = "none" /\ tx[w] # "committed"
      /\ Query(w).isTx => tx[w] # "none"
      /\ ~Query(w).isTx => tx[w] = "none"
      /\ stmt[w] \in 1 .. Len(Query(w).stmts) /\ Len(Query(w).stmts) \in Nat
  BY <1>1, <1>2, TheQueries DEF QueryFacts, SQLPhases, Query
<1>4. OneHeld(w)
  <2>1. CASE held[w] = 2
    BY <1>2, <2>1 DEF EndStatement, OneHeld, QueryTypes
  <2>2. CASE held[w] = 1
    BY <1>2, <2>2 DEF EndStatement, OneHeld, QueryTypes
  <2> QED
    BY <1>3, <2>1, <2>2
<1>5. CASE \E e \in DriverErrors(w) : FailQuery(w, e) /\ UNCHANGED stmt
  BY <1>1, <1>4, <1>5, QueryErrors, FailQueryDoes
<1>6. ASSUME NEW next \in {"statement", "commit", "release"}, GoTo(w, next), UNCHANGED tx,
             NEW k \in 1 .. Len(Query(w).stmts), stmt' = [stmt EXCEPT ![w] = k],
             next # "statement" => k = Len(Query(w).stmts),
             next = "commit" => Query(w).isTx, next = "release" => ~Query(w).isTx
      PROVE  QueryGoesOn(w)
  <2>1. next \in PhasesOf(runnerOf[w]) \cap AllPhases
    BY <1>2, <1>6 DEF PhasesOf, SQLPhases, AllPhases
  <2>2. CallInv' /\ Only(w) /\ Now(w, next, err[w], class[w])
    BY <1>6, <2>1, GoToDoes
  <2>3. QueryTypes' /\ OnlyQuery(w) /\ held'[w] = 1 /\ tx'[w] = tx[w] /\ stmt'[w] = k
    BY <1>2, <1>3, <1>4, <1>6 DEF QueryTypes, OnlyQuery, OneHeld
  <2>4. Query(w)' = Query(w)
    BY <2>2 DEF Query, Now
  <2>5. QueryFacts(w)'
    BY <1>1, <1>2, <1>3, <1>6, <2>2, <2>3, <2>4 DEF QueryFacts, Now, SQLPhases, Done
  <2> QED
    BY <1>2, <2>2, <2>3, <2>5 DEF QueryGoesOn
<1>7. CASE stmt[w] < Len(Query(w).stmts) /\ stmt' = [stmt EXCEPT ![w] = @ + 1]
             /\ GoTo(w, "statement") /\ UNCHANGED tx
  <2>1. stmt[w] + 1 \in 1 .. Len(Query(w).stmts) /\ stmt' = [stmt EXCEPT ![w] = stmt[w] + 1]
    BY <1>3, <1>7
  <2> QED
    BY <1>6, <1>7, <2>1
<1>8. CASE stmt[w] = Len(Query(w).stmts)
             /\ GoTo(w, IF Query(w).isTx THEN "commit" ELSE "release") /\ UNCHANGED <<stmt, tx>>
  <2>1. stmt' = [stmt EXCEPT ![w] = stmt[w]]
    BY <1>2, <1>8 DEF QueryTypes
  <2>2. CASE Query(w).isTx
    BY <1>3, <1>6, <1>8, <2>1, <2>2
  <2>3. CASE ~Query(w).isTx
    BY <1>3, <1>6, <1>8, <2>1, <2>3
  <2> QED
    BY <2>2, <2>3
<1> QED
  BY <1>5, <1>7, <1>8 DEF EndStatement

LEMMA CommitStep ==
  ASSUME CallInv, QueryInv, NEW w \in Workers, Commit(w)
  PROVE  QueryGoesOn(w)
<1>1. phase[w] = "commit" /\ UNCHANGED <<held, stmt>>
  BY DEF Commit
<1>2. runnerOf[w] = "db" /\ QueryFacts(w) /\ QueryTypes
  BY <1>1, PhaseRunner DEF SQLPhases, QueryInv
<1>3. /\ held[w] = 1 /\ err[w] = "none" /\ tx[w] # "committed" /\ Query(w).isTx
      /\ stmt[w] = Len(Query(w).stmts)
  BY <1>1, <1>2 DEF QueryFacts, SQLPhases
<1>4. "release" \in PhasesOf(runnerOf[w]) \cap AllPhases
  BY <1>2 DEF PhasesOf, SQLPhases, AllPhases
<1>5. ASSUME NEW e \in Errors \ {"none"}, FailTo(w, e, "release"), UNCHANGED tx
      PROVE  QueryGoesOn(w)
  <2>1. CallInv' /\ Only(w) /\ Now(w, "release", e, class[w])
    BY <1>4, <1>5, FailToDoes
  <2>2. QueryTypes' /\ OnlyQuery(w) /\ held'[w] = 1 /\ tx'[w] = tx[w] /\ stmt'[w] = stmt[w]
    BY <1>1, <1>2, <1>3, <1>5 DEF QueryTypes, OnlyQuery
  <2>3. Query(w)' = Query(w)
    BY <2>1 DEF Query, Now
  <2>4. QueryFacts(w)'
    BY <1>1, <1>2, <1>3, <1>5, <2>1, <2>2, <2>3 DEF QueryFacts, Now, SQLPhases, Done
  <2> QED
    BY <1>2, <2>1, <2>2, <2>4 DEF QueryGoesOn
<1>6. CASE tx' = [tx EXCEPT ![w] = "committed"] /\ GoTo(w, "release")
  <2>1. CallInv' /\ Only(w) /\ Now(w, "release", err[w], class[w])
    BY <1>4, <1>6, GoToDoes
  <2>2. QueryTypes' /\ OnlyQuery(w) /\ held'[w] = 1 /\ tx'[w] = "committed" /\ stmt'[w] = stmt[w]
    BY <1>1, <1>2, <1>3, <1>6 DEF QueryTypes, OnlyQuery, TxStates
  <2>3. Query(w)' = Query(w)
    BY <2>1 DEF Query, Now
  <2>4. QueryFacts(w)'
    BY <1>1, <1>2, <1>3, <2>1, <2>2, <2>3 DEF QueryFacts, Now, SQLPhases, Done
  <2> QED
    BY <1>2, <2>1, <2>2, <2>4 DEF QueryGoesOn
<1>7. CASE \E e \in Faults : FailQuery(w, e)
  <2>1. OneHeld(w)
    BY <1>1, <1>2, <1>3 DEF OneHeld, QueryTypes
  <2> QED
    BY <1>1, <1>7, <2>1, QueryErrors, FailQueryDoes
<1>8. \/ \E e \in Errors \ {"none"} : FailTo(w, e, "release") /\ UNCHANGED tx
      \/ tx' = [tx EXCEPT ![w] = "committed"] /\ GoTo(w, "release")
      \/ \E e \in Faults : FailQuery(w, e)
  <2> HIDE DEF GoTo, FailQuery, FailTo
  <2> QED
    BY QueryErrors DEF Commit
<1> QED
  BY <1>5, <1>6, <1>7, <1>8

LEMMA AwaitDoneStep ==
  ASSUME CallInv, QueryInv, NEW w \in Workers, AwaitDone(w)
  PROVE  QueryGoesOn(w)
<1>1. UNCHANGED <<callVars, held, stmt>> /\ tx[w] = "open" /\ tx' = [tx EXCEPT ![w] = "rolledBack"]
  BY DEF AwaitDone
<1>2. CallInv' /\ Only(w) /\ Now(w, phase[w], err[w], class[w]) /\ Query(w)' = Query(w)
  BY <1>1 DEF callVars, CallInv, Only, Now, Query
<1>3. QueryTypes' /\ OnlyQuery(w) /\ held'[w] = held[w] /\ tx'[w] = "rolledBack" /\ stmt'[w] = stmt[w]
  BY <1>1 DEF QueryInv, QueryTypes, OnlyQuery, TxStates
<1>4. runnerOf[w] = "db" /\ QueryFacts(w)
  BY <1>1 DEF QueryInv
<1>5. QueryFacts(w)'
  BY <1>1, <1>2, <1>3, <1>4 DEF QueryFacts, Now, Done, SQLPhases
<1> QED
  BY <1>2, <1>3, <1>4, <1>5 DEF QueryGoesOn

LEMMA ReleaseStep ==
  ASSUME CallInv, QueryInv, NEW w \in Workers, Release(w)
  PROVE  QueryGoesOn(w)
<1>1. /\ phase[w] = "release" /\ tx[w] # "open" /\ UNCHANGED <<tx, stmt>>
      /\ held' = [held EXCEPT ![w] = 0] /\ GoTo(w, "classify")
  BY DEF Release, sqlCall
<1>2. runnerOf[w] = "db" /\ QueryFacts(w) /\ QueryTypes
  BY <1>1, PhaseRunner DEF SQLPhases, QueryInv
<1>3. "classify" \in PhasesOf(runnerOf[w]) \cap AllPhases
  BY <1>2 DEF PhasesOf, SQLPhases, AllPhases
<1>4. CallInv' /\ Only(w) /\ Now(w, "classify", err[w], class[w])
  BY <1>1, <1>3, GoToDoes
<1>5. QueryTypes' /\ OnlyQuery(w) /\ held'[w] = 0 /\ tx'[w] = tx[w] /\ stmt'[w] = stmt[w]
  BY <1>1, <1>2 DEF QueryTypes, OnlyQuery
<1>6. Query(w)' = Query(w)
  BY <1>4 DEF Query, Now
<1>7. QueryFacts(w)'
  BY <1>1, <1>2, <1>4, <1>5, <1>6 DEF QueryFacts, Now, SQLPhases, Done
<1> QED
  BY <1>2, <1>4, <1>5, <1>7 DEF QueryGoesOn

\* The classes of a query: "ok" is none of those an error is given.
LEMMA SQLClasses ==
  \A context, e : /\ PoolClass(context, e) \in Classes \ {"ok"}
                  /\ ClassifySQLError(context, e) \in Classes \ {"ok"}
<1> SUFFICES ASSUME NEW context, NEW e
             PROVE  /\ PoolClass(context, e) \in Classes \ {"ok"}
                    /\ ClassifySQLError(context, e) \in Classes \ {"ok"}
  OBVIOUS
<1>1. PoolClass(context, e) \in Classes \ {"ok"}
  BY DEF PoolClass, Classes
<1>2. ClassifySQLError(context, e) \in Classes \ {"ok"}
  BY DEF ClassifySQLError, Classes
<1> QED
  BY <1>1, <1>2

\* The call's outcome gets its class.
LEMMA DecideQuery ==
  ASSUME CallInv, QueryInv, NEW w \in Workers, phase[w] \in {"unserved", "classify"},
         NEW next \in {"load", "record"}, NEW c \in Classes, Decide(w, c, next),
         UNCHANGED sqlVars, c = "ok" <=> Done(w)
  PROVE  QueryGoesOn(w)
<1>1. runnerOf[w] = "db" /\ QueryFacts(w) /\ QueryTypes
  BY PhaseRunner DEF SQLPhases, QueryInv
<1>2. next \in PhasesOf(runnerOf[w]) \cap AllPhases
  BY <1>1 DEF PhasesOf, SQLPhases, AllPhases
<1>3. CallInv' /\ Only(w) /\ Now(w, next, err[w], c)
  BY <1>2, DecideDoes
<1>4. QueryTypes' /\ OnlyQuery(w) /\ held'[w] = held[w] /\ tx'[w] = tx[w] /\ stmt'[w] = stmt[w]
  BY <1>1 DEF QueryTypes, OnlyQuery, sqlVars
<1>5. Query(w)' = Query(w)
  BY <1>3 DEF Query, Now
<1>6. QueryFacts(w)'
  BY <1>1, <1>3, <1>4, <1>5 DEF QueryFacts, Now, SQLPhases, Done
<1> QED
  BY <1>1, <1>3, <1>4, <1>6 DEF QueryGoesOn

LEMMA UnservedStep ==
  ASSUME CallInv, QueryInv, NEW w \in Workers, Unserved(w)
  PROVE  QueryGoesOn(w)
<1>1. /\ phase[w] = "unserved" /\ UNCHANGED sqlVars
      /\ Decide(w, PoolClass(ctx[w], err[w]), "record")
  BY DEF Unserved
<1>2. QueryFacts(w)
  BY <1>1, PhaseRunner DEF SQLPhases, QueryInv
<1>3. ~Done(w)
  BY <1>1, <1>2 DEF QueryFacts, Done
<1> QED
  BY <1>1, <1>3, SQLClasses, DecideQuery

LEMMA ClassifyQueryStep ==
  ASSUME CallInv, QueryInv, NEW w \in Workers, ClassifyQuery(w)
  PROVE  QueryGoesOn(w)
<1> DEFINE c == IF err[w] = "none" THEN "ok" ELSE ClassifySQLError(ctx[w], err[w])
<1>1. phase[w] = "classify" /\ UNCHANGED sqlVars /\ Decide(w, c, "load")
  BY DEF ClassifyQuery
<1>2. QueryFacts(w)
  BY <1>1, PhaseRunner DEF SQLPhases, QueryInv
<1>3. err[w] = "none" <=> Done(w)
  BY <1>1, <1>2 DEF QueryFacts
<1>4. c \in Classes /\ (c = "ok" <=> Done(w))
  <2>1. "ok" \in Classes
    BY DEF Classes
  <2> QED
    BY <1>3, <2>1, SQLClasses
<1> HIDE DEF c
<1> QED
  BY <1>1, <1>4, DecideQuery

\* Counting changes nothing but the counts.
LEMMA CountStep ==
  ASSUME CallInv, QueryInv, NEW w \in Workers, LoadCount(w) \/ StoreCount(w)
  PROVE  QueryGoesOn(w)
<1>1. PICK next \in {"store", "record"} :
        /\ phase[w] = (IF next = "store" THEN "load" ELSE "store")
        /\ GoTo(w, next) /\ UNCHANGED <<held, tx, stmt>>
  BY DEF LoadCount, StoreCount
<1>2. runnerOf[w] = "db" /\ QueryFacts(w) /\ QueryTypes
  BY <1>1, PhaseRunner DEF SQLPhases, QueryInv
<1>3. next \in PhasesOf(runnerOf[w]) \cap AllPhases
  BY <1>2 DEF PhasesOf, SQLPhases, AllPhases
<1>4. CallInv' /\ Only(w) /\ Now(w, next, err[w], class[w])
  BY <1>1, <1>3, GoToDoes
<1>5. QueryTypes' /\ OnlyQuery(w) /\ held'[w] = held[w] /\ tx'[w] = tx[w] /\ stmt'[w] = stmt[w]
  BY <1>1, <1>2 DEF QueryTypes, OnlyQuery
<1>6. Query(w)' = Query(w)
  BY <1>4 DEF Query, Now
<1>7. QueryFacts(w)'
  BY <1>1, <1>2, <1>4, <1>5, <1>6 DEF QueryFacts, Now, SQLPhases, Done
<1> QED
  BY <1>2, <1>4, <1>5, <1>7 DEF QueryGoesOn

LEMMA RecordQueryStep ==
  ASSUME CallInv, QueryInv, NEW w \in Workers, RecordQuery(w)
  PROVE  QueryGoesOn(w)
<1>1. /\ runnerOf[w] = "db" /\ CallInv' /\ Only(w)
      /\ phase[w] = "record" /\ phase'[w] = "idle" /\ err'[w] = "none" /\ class'[w] = "none"
      /\ unit'[w] = 1
  BY RecordDoes DEF RecordQuery
<1>2. QueryFacts(w) /\ QueryTypes
  BY <1>1 DEF QueryInv
<1>3. QueryTypes' /\ OnlyQuery(w) /\ held'[w] = held[w] /\ tx'[w] = "none" /\ stmt'[w] = 1
  BY <1>2 DEF QueryTypes, OnlyQuery, RecordQuery, TxStates
<1>4. QueryFacts(w)'
  BY <1>1, <1>2, <1>3, TheQueries DEF QueryFacts, SQLPhases, Done, Query
<1> QED
  BY <1>1, <1>3, <1>4 DEF QueryGoesOn

LEMMA QueryStepGoesOn ==
  ASSUME CallInv, QueryInv, NEW w \in Workers, BeginQuery(w) \/ QueryStep(w) \/ AwaitDone(w)
  PROVE  QueryGoesOn(w)
BY BeginQueryStep, AcquireStep, DialStep, EndWaitStep, BeginTxStep, StatementStep, EndStatementStep,
   CommitStep, ReleaseStep, UnservedStep, ClassifyQueryStep, CountStep, RecordQueryStep,
   AwaitDoneStep DEF QueryStep

\* What is so of a query does not depend on other calls.
LEMMA QuerySame ==
  ASSUME NEW u \in Workers, QueryFacts(u),
         phase'[u] = phase[u], unit'[u] = unit[u], err'[u] = err[u], class'[u] = class[u],
         held'[u] = held[u], tx'[u] = tx[u], stmt'[u] = stmt[u]
  PROVE  QueryFacts(u)'
BY DEF QueryFacts, Done, Query, SQLPhases

-----------------------------------------------------------------------------
(* The calls of the Redis runner. *)

OnlyCommand(w) == \A u \in Workers \ {w} : replies'[u] = replies[u]

RepliesType == replies \in [Workers -> Seq(Replies)] /\ attempt \in [Workers -> Nat]

\* A step of w's unit: nothing else goes on, what was so of it is so again, and the
\* connections that are out are those of the exchanges.
CommandGoesOn(w) ==
  /\ CallInv' /\ Only(w) /\ runnerOf[w] = "redis"
  /\ RepliesType' /\ OnlyCommand(w) /\ CommandFacts(w)'
  /\ inUse' = IF phase'[w] = "io" THEN inUse \cup {w} ELSE inUse \ {w}
  /\ phase'[w] = "io" => phase[w] # "io" /\ Cardinality(inUse) < RedisPoolSize

LEMMA TheCommands ==
  /\ \A i \in DOMAIN Commands :
       \E n \in Nat \ {0} : DOMAIN Commands[i].parts = 1 .. n
  /\ \A i \in DOMAIN Commands : Commands[i].isPipeline \/ DOMAIN Commands[i].parts = {1}
  /\ 1 \in DOMAIN Commands
  /\ Picks(RedisWeights) \subseteq 1 .. Len(Commands) /\ Len(Commands) \in Nat
  /\ DOMAIN Commands = 1 .. Len(Commands)
<1>1. Commands \in Seq(CommandType) /\ Commands # <<>>
  BY CommandAssumption
<1>2. DOMAIN Commands = 1 .. Len(Commands) /\ Len(Commands) \in Nat \ {0}
  BY <1>1
<1>3. ASSUME NEW i \in DOMAIN Commands
      PROVE  /\ \E n \in Nat \ {0} : DOMAIN Commands[i].parts = 1 .. n
             /\ Commands[i].isPipeline \/ DOMAIN Commands[i].parts = {1}
  <2>1. Commands[i] \in CommandType
    BY <1>1
  <2> DEFINE S == [op : {"read", "write"}, unbound : BOOLEAN]
             parts == Commands[i].parts
  <2>2. parts \in Seq(S)
    BY <2>1 DEF CommandType
  <2>3. parts # <<>> /\ (Commands[i].isPipeline \/ Len(parts) = 1)
    BY CommandAssumption
  <2> HIDE DEF S, parts
  <2>4. DOMAIN parts = 1 .. Len(parts) /\ Len(parts) \in Nat \ {0}
    BY <2>2, <2>3
  <2>5. Commands[i].isPipeline \/ DOMAIN parts = {1}
    BY <2>3, <2>4
  <2> QED
    BY <2>4, <2>5 DEF parts
<1>4. Picks(RedisWeights) \subseteq 1 .. Len(Commands)
  <2>1. RedisWeights = [i \in 1 .. Len(Commands) |-> RedisWeights[i]]
    BY <1>2 DEF RedisWeights
  <2> QED
    BY <1>2, <2>1, PicksAreIndexes
<1> QED
  BY <1>2, <1>3, <1>4

\* The error of an exchange is the first reply that is not a value, if there is one.
LEMMA FirstErrorIs ==
  ASSUME NEW n \in Nat, NEW rs \in [1 .. n -> Replies]
  PROVE  \/ FirstError(rs) = "none" /\ \A i \in 1 .. n : rs[i] = "value"
         \/ FirstError(rs) \in {"nil", "refusal"} /\ \E i \in 1 .. n : rs[i] = FirstError(rs)
<1> DEFINE bad == {i \in DOMAIN rs : rs[i] # "value"}
           first == CHOOSE i \in bad : \A j \in bad : i <= j
<1>1. CASE bad = {}
  BY <1>1 DEF FirstError
<1>2. CASE bad # {}
  <2>1. bad \in SUBSET Nat
    OBVIOUS
  <2>2. \E i \in bad : \A j \in bad : i <= j
    <3> HIDE DEF bad
    <3> QED
      BY <1>2, <2>1, LeastNumber
  <2>3. first \in bad
    <3> HIDE DEF bad
    <3> QED
      BY <2>2
  <2>4. FirstError(rs) = rs[first]
    BY <1>2 DEF FirstError
  <2>5. rs[first] \in {"nil", "refusal"} /\ first \in 1 .. n
    <3> HIDE DEF first
    <3> QED
      BY <2>3 DEF Replies
  <2> HIDE DEF first
  <2> QED
    BY <2>4, <2>5
<1> QED
  BY <1>1, <1>2

\* A call in one of these phases is a Redis unit's.
LEMMA RedisCall ==
  ASSUME CallInv, CommandInv, NEW w \in Workers, phase[w] \in RedisPhases
  PROVE  runnerOf[w] = "redis" /\ CommandFacts(w) /\ RepliesType
BY PhaseRunner DEF CommandInv, RepliesType

LEMMA RedisNext ==
  ASSUME NEW next \in RedisPhases \cup {"record"}
  PROVE  next \in PhasesOf("redis") \cap AllPhases
BY DEF PhasesOf, AllPhases

\* The errors a unit may meet.
LEMMA CommandErrors ==
  ASSUME CallInv, NEW w \in Workers
  PROVE  /\ ctx[w] # "live" => ctx[w] \in Errors \ {"none", "nil"}
         /\ {"eof", "i/o timeout", "pool timeout"} \subseteq Errors \ {"none", "nil"}
         /\ {"none", "nil", "refusal"} \subseteq Errors
<1>1. ctx[w] \in Contexts
  BY DEF CallInv
<1>2. ctx[w] # "live" => ctx[w] \in {"deadline", "canceled"}
  BY <1>1 DEF Contexts
<1>3. {"deadline", "canceled", "eof", "i/o timeout", "pool timeout"} \subseteq Errors \ {"none", "nil"}
  BY DEF Errors
<1> QED
  BY <1>2, <1>3 DEF Errors

LEMMA BeginCommandStep ==
  ASSUME CallInv, CommandInv, NEW w \in Workers, BeginCommand(w)
  PROVE  CommandGoesOn(w)
<1>1. "render" \in PhasesOf("redis") \cap AllPhases
  BY DEF PhasesOf, RedisPhases, AllPhases
<1>2. /\ CallInv' /\ Only(w) /\ runnerOf[w] = "redis" /\ phase[w] = "idle" /\ phase'[w] = "render"
      /\ unit'[w] \in 1 .. Len(Commands) /\ err'[w] = err[w] /\ class'[w] = class[w]
  <2>1. Begin(w, "redis", RedisWeights, "render")
    BY DEF BeginCommand
  <2> HIDE DEF BeginCommand
  <2> QED
    BY <1>1, <2>1, BeginDoes, TheCommands
<1>3. RepliesType' /\ OnlyCommand(w) /\ replies'[w] = replies[w] /\ inUse' = inUse
  BY DEF BeginCommand, redisVars, CommandInv, RepliesType, OnlyCommand
<1>4. CommandFacts(w)'
  <2>1. CommandFacts(w)
    BY <1>2 DEF CommandInv
  <2>2. replies[w] = <<>> /\ err[w] = "none"
    BY <1>2, <2>1 DEF CommandFacts
  <2> QED
    BY <1>2, <1>3, <2>2, TheCommands DEF CommandFacts
<1>5. w \notin inUse
  BY <1>2 DEF CommandInv
<1> QED
  BY <1>2, <1>3, <1>4, <1>5 DEF CommandGoesOn

LEMMA RenderStep ==
  ASSUME CallInv, CommandInv, NEW w \in Workers, Render(w)
  PROVE  CommandGoesOn(w)
<1>1. phase[w] = "render" /\ UNCHANGED redisVars
  BY DEF Render
<1>2. runnerOf[w] = "redis" /\ CommandFacts(w) /\ RepliesType
  BY <1>1, RedisCall DEF RedisPhases
<1>3. PICK next \in {"record", "turn"}, c \in Classes \cup {"none"} :
        /\ CallInv' /\ Only(w) /\ Now(w, next, err[w], c)
        /\ next = "record" => c # "ok"
  <2>1. CASE Decide(w, "extract_failed", "record")
    <3>1. "extract_failed" \in Classes
      BY DEF Classes
    <3> QED
      BY <1>2, <2>1, <3>1, RedisNext, DecideDoes DEF Now
  <2>2. CASE GoTo(w, "turn")
    <3>1. "turn" \in RedisPhases
      BY DEF RedisPhases
    <3>2. class[w] \in Classes \cup {"none"}
      BY DEF CallInv
    <3> QED
      BY <1>2, <2>2, <3>1, <3>2, RedisNext, GoToDoes
  <2> QED
    BY <2>1, <2>2 DEF Render
<1>4. RepliesType' /\ OnlyCommand(w) /\ replies'[w] = replies[w] /\ inUse' = inUse
  BY <1>1, <1>2 DEF redisVars, RepliesType, OnlyCommand
<1>5. Command(w)' = Command(w)
  BY <1>3 DEF Command, Now
<1>6. CommandFacts(w)'
  BY <1>1, <1>2, <1>3, <1>4, <1>5 DEF CommandFacts, Now
<1>7. w \notin inUse
  BY <1>1 DEF CommandInv
<1> QED
  BY <1>2, <1>3, <1>4, <1>6, <1>7 DEF CommandGoesOn, Now

\* The unit goes on at next with the error e in hand; no answer has come.
LEMMA CommandUnanswered ==
  ASSUME CallInv, CommandInv, NEW w \in Workers, phase[w] \in {"turn", "io", "broken"},
         NEW next \in {"turn", "io", "broken", "sent"}, NEW e \in Errors,
         CallInv' /\ Only(w) /\ Now(w, next, e, class[w]),
         next \in {"turn", "io"} => e = "none", next \in {"broken", "sent"} => e \notin {"none", "nil"},
         replies' = replies, attempt' \in [Workers -> Nat],
         inUse' = IF next = "io" THEN inUse \cup {w} ELSE inUse \ {w},
         next = "io" => phase[w] # "io" /\ Cardinality(inUse) < RedisPoolSize
  PROVE  CommandGoesOn(w)
<1>1. runnerOf[w] = "redis" /\ CommandFacts(w) /\ RepliesType
  BY RedisCall DEF RedisPhases
<1>2. RepliesType' /\ OnlyCommand(w) /\ replies'[w] = <<>>
  BY <1>1 DEF RepliesType, OnlyCommand, CommandFacts
<1>3. CommandFacts(w)'
  BY <1>1, <1>2 DEF CommandFacts, Now
<1> QED
  BY <1>1, <1>2, <1>3 DEF CommandGoesOn, Now

LEMMA TurnStep ==
  ASSUME CallInv, CommandInv, NEW w \in Workers, Turn(w)
  PROVE  CommandGoesOn(w)
<1>1. phase[w] = "turn" /\ UNCHANGED <<attempt, replies>>
  BY DEF Turn
<1>2. runnerOf[w] = "redis" /\ CommandFacts(w) /\ RepliesType
  BY <1>1, RedisCall DEF RedisPhases
<1>3. w \notin inUse /\ err[w] = "none" /\ attempt' \in [Workers -> Nat]
  BY <1>1, <1>2 DEF CommandInv, CommandFacts
<1>4. {"io", "sent", "broken"} \subseteq RedisPhases
  BY DEF RedisPhases
<1>5. CASE Cardinality(inUse) < RedisPoolSize /\ inUse' = inUse \cup {w} /\ GoTo(w, "io")
  <2>1. CallInv' /\ Only(w) /\ Now(w, "io", "none", class[w])
    BY <1>2, <1>3, <1>4, <1>5, RedisNext, GoToDoes
  <2> QED
    BY <1>1, <1>3, <1>5, <2>1, CommandErrors, CommandUnanswered
<1>6. CASE ctx[w] # "live" /\ FailTo(w, ctx[w], "sent") /\ UNCHANGED inUse
  <2>1. CallInv' /\ Only(w) /\ Now(w, "sent", ctx[w], class[w])
    BY <1>2, <1>4, <1>6, RedisNext, CommandErrors, FailToDoes
  <2> QED
    BY <1>1, <1>3, <1>6, <2>1, CommandErrors, CommandUnanswered
<1>7. CASE FailTo(w, "pool timeout", "broken") /\ UNCHANGED inUse
  <2>1. CallInv' /\ Only(w) /\ Now(w, "broken", "pool timeout", class[w])
    BY <1>2, <1>4, <1>7, RedisNext, CommandErrors, FailToDoes
  <2> QED
    BY <1>1, <1>3, <1>7, <2>1, CommandErrors, CommandUnanswered
<1> QED
  BY <1>5, <1>6, <1>7 DEF Turn

\* Every command of the unit was answered.
LEMMA AnsweredDoes ==
  ASSUME CallInv, CommandInv, NEW w \in Workers, phase[w] = "io",
         NEW rs \in [DOMAIN Command(w).parts -> Replies], replies' = [replies EXCEPT ![w] = rs],
         FailTo(w, FirstError(rs), "sent"), inUse' = inUse \ {w}, attempt' = attempt
  PROVE  CommandGoesOn(w)
<1>1. runnerOf[w] = "redis" /\ CommandFacts(w) /\ RepliesType
  BY RedisCall DEF RedisPhases
<1>2. PICK n \in Nat \ {0} : DOMAIN Command(w).parts = 1 .. n
  BY <1>1, TheCommands DEF CommandFacts, Command
<1>3. rs \in [1 .. n -> Replies]
  BY <1>2
<1>4. rs \in Seq(Replies)
  BY <1>3
<1>5. FirstError(rs) \in Errors
  BY <1>3, FirstErrorIs, CommandErrors
<1>6. CallInv' /\ Only(w) /\ Now(w, "sent", FirstError(rs), class[w])
  BY <1>1, <1>5, RedisNext, FailToDoes DEF RedisPhases
<1>7. RepliesType' /\ OnlyCommand(w) /\ replies'[w] = rs
  BY <1>1, <1>4 DEF RepliesType, OnlyCommand
<1>8. Command(w)' = Command(w)
  BY <1>6 DEF Command, Now
<1>9. CommandFacts(w)'
  BY <1>1, <1>6, <1>7, <1>8 DEF CommandFacts, Now
<1> QED
  BY <1>1, <1>6, <1>7, <1>9 DEF CommandGoesOn, Now

LEMMA ExchangeStep ==
  ASSUME CallInv, CommandInv, NEW w \in Workers, Exchange(w)
  PROVE  CommandGoesOn(w)
<1>1. phase[w] = "io" /\ inUse' = inUse \ {w} /\ attempt' = attempt
  BY DEF Exchange
<1>2. runnerOf[w] = "redis" /\ attempt' \in [Workers -> Nat]
  BY <1>1, RedisCall DEF RedisPhases, CommandInv
<1>3. CASE \E rs \in [DOMAIN Command(w).parts -> Replies] :
             replies' = [replies EXCEPT ![w] = rs] /\ FailTo(w, FirstError(rs), "sent")
  BY <1>1, <1>3, AnsweredDoes
<1>4. ASSUME NEW e \in {"eof", "i/o timeout"}, FailTo(w, e, "broken"), UNCHANGED replies
      PROVE  CommandGoesOn(w)
  <2>1. CallInv' /\ Only(w) /\ Now(w, "broken", e, class[w])
    BY <1>2, <1>4, RedisNext, CommandErrors, FailToDoes DEF RedisPhases
  <2> QED
    BY <1>1, <1>2, <1>4, <2>1, CommandErrors, CommandUnanswered
<1> QED
  BY <1>3, <1>4 DEF Exchange

LEMMA RetryStep ==
  ASSUME CallInv, CommandInv, NEW w \in Workers, Retry(w)
  PROVE  CommandGoesOn(w)
<1>1. phase[w] = "broken" /\ UNCHANGED <<inUse, replies>>
  BY DEF Retry
<1>2. runnerOf[w] = "redis" /\ CommandFacts(w) /\ RepliesType
  BY <1>1, RedisCall DEF RedisPhases
<1>3. w \notin inUse /\ err[w] \in Errors \ {"none", "nil"}
  BY <1>1, <1>2 DEF CommandInv, CommandFacts, CallInv
<1>4. {"sent", "turn"} \subseteq RedisPhases
  BY DEF RedisPhases
<1>5. attempt' \in [Workers -> Nat]
  BY <1>2 DEF Retry, RepliesType
<1>6. CASE GoTo(w, "sent")
  <2>1. CallInv' /\ Only(w) /\ Now(w, "sent", err[w], class[w])
    BY <1>2, <1>4, <1>6, RedisNext, GoToDoes
  <2> QED
    BY <1>1, <1>3, <1>5, <2>1, CommandUnanswered
<1>7. CASE ctx[w] # "live" /\ FailTo(w, ctx[w], "sent")
  <2>1. CallInv' /\ Only(w) /\ Now(w, "sent", ctx[w], class[w])
    BY <1>2, <1>4, <1>7, RedisNext, CommandErrors, FailToDoes
  <2> QED
    BY <1>1, <1>3, <1>5, <1>7, <2>1, CommandErrors, CommandUnanswered
<1>8. CASE FailTo(w, "none", "turn")
  <2>1. CallInv' /\ Only(w) /\ Now(w, "turn", "none", class[w])
    BY <1>2, <1>4, <1>8, RedisNext, CommandErrors, FailToDoes
  <2> QED
    BY <1>1, <1>3, <1>5, <2>1, CommandErrors, CommandUnanswered
<1> QED
  BY <1>6, <1>7, <1>8 DEF Retry

\* A unit was executed without an error exactly when every command was answered, none
\* of them with a refusal.
LEMMA ExecutedIs ==
  ASSUME CallInv, CommandInv, NEW w \in Workers, phase[w] = "sent"
  PROVE  Executed(w) = "none"
           <=> replies[w] # <<>> /\ \A i \in DOMAIN replies[w] : replies[w][i] # "refusal"
<1>1. CommandFacts(w)
  BY RedisCall DEF RedisPhases
<1>2. CASE replies[w] = <<>> /\ err[w] \notin {"none", "nil"}
  BY <1>2 DEF Executed
<1>3. CASE replies[w] \in [DOMAIN Command(w).parts -> Replies] /\ err[w] = FirstError(replies[w])
  <2> DEFINE rs == replies[w]
  <2>1. PICK n \in Nat \ {0} : DOMAIN Command(w).parts = 1 .. n
    BY <1>1, TheCommands DEF CommandFacts, Command
  <2>2. Command(w).isPipeline \/ n = 1
    <3>1. Command(w).isPipeline \/ DOMAIN Command(w).parts = {1}
      BY <1>1, TheCommands DEF CommandFacts, Command
    <3>2. n \in 1 .. n
      OBVIOUS
    <3> QED
      BY <2>1, <3>1, <3>2
  <2>3. rs \in [1 .. n -> Replies] /\ rs # <<>>
    BY <1>3, <2>1
  <2>4. err[w] = FirstError(rs)
    BY <1>3
  <2> HIDE DEF rs
  <2>5. \/ FirstError(rs) = "none" /\ \A i \in 1 .. n : rs[i] = "value"
        \/ FirstError(rs) \in {"nil", "refusal"} /\ \E i \in 1 .. n : rs[i] = FirstError(rs)
    BY <2>3, FirstErrorIs
  <2>6. Executed(w) = IF err[w] \notin {"none", "nil"} THEN err[w]
                      ELSE IF Command(w).isPipeline /\ \E i \in 1 .. n : rs[i] = "refusal"
                      THEN "refusal" ELSE "none"
    BY <2>3 DEF Executed, rs
  <2>7. Executed(w) = "none" <=> \A i \in 1 .. n : rs[i] # "refusal"
    <3>1. CASE err[w] = "none"
      BY <2>4, <2>5, <2>6, <3>1
    <3>2. CASE err[w] = "nil"
      BY <2>2, <2>4, <2>5, <2>6, <3>2
    <3>3. CASE err[w] = "refusal"
      BY <2>4, <2>5, <2>6, <3>3
    <3> QED
      BY <2>4, <2>5, <3>1, <3>2, <3>3
  <2> QED
    BY <2>3, <2>7 DEF rs
<1> QED
  BY <1>1, <1>2, <1>3 DEF CommandFacts

LEMMA RedisClasses ==
  \A context, e : ClassifyRedisError(context, e) \in Classes \ {"ok"}
BY DEF ClassifyRedisError, Classes

LEMMA ClassifyCommandStep ==
  ASSUME CallInv, CommandInv, NEW w \in Workers, ClassifyCommand(w)
  PROVE  CommandGoesOn(w)
<1> DEFINE c == IF Executed(w) = "none" THEN "ok" ELSE ClassifyRedisError(ctx[w], Executed(w))
<1>1. phase[w] = "sent" /\ UNCHANGED redisVars /\ Decide(w, c, "loadRedis")
  BY DEF ClassifyCommand
<1>2. runnerOf[w] = "redis" /\ CommandFacts(w) /\ RepliesType
  BY <1>1, RedisCall DEF RedisPhases
<1>3. c \in Classes /\ (c = "ok" <=> Executed(w) = "none")
  <2>1. "ok" \in Classes
    BY DEF Classes
  <2> QED
    BY <2>1, RedisClasses
<1> HIDE DEF c
<1>4. CallInv' /\ Only(w) /\ Now(w, "loadRedis", err[w], c)
  BY <1>1, <1>2, <1>3, RedisNext, DecideDoes DEF RedisPhases
<1>5. RepliesType' /\ OnlyCommand(w) /\ replies'[w] = replies[w] /\ inUse' = inUse
  BY <1>1, <1>2 DEF redisVars, RepliesType, OnlyCommand
<1>6. CommandFacts(w)'
  BY <1>1, <1>2, <1>3, <1>4, <1>5, ExecutedIs DEF CommandFacts, Now
<1>7. w \notin inUse
  BY <1>1 DEF CommandInv
<1> QED
  BY <1>2, <1>4, <1>5, <1>6, <1>7 DEF CommandGoesOn, Now

\* Counting changes nothing but the counts.
LEMMA RedisCountStep ==
  ASSUME CallInv, CommandInv, NEW w \in Workers, LoadRedisCount(w) \/ StoreRedisCount(w)
  PROVE  CommandGoesOn(w)
<1>1. PICK next \in {"storeRedis", "record"} :
        /\ phase[w] = (IF next = "storeRedis" THEN "loadRedis" ELSE "storeRedis")
        /\ GoTo(w, next) /\ UNCHANGED <<inUse, attempt, replies>>
  BY DEF LoadRedisCount, StoreRedisCount
<1>2. runnerOf[w] = "redis" /\ CommandFacts(w) /\ RepliesType
  BY <1>1, RedisCall DEF RedisPhases
<1>3. CallInv' /\ Only(w) /\ Now(w, next, err[w], class[w])
  BY <1>1, <1>2, RedisNext, GoToDoes DEF RedisPhases
<1>4. RepliesType' /\ OnlyCommand(w) /\ replies'[w] = replies[w] /\ inUse' = inUse
  BY <1>1, <1>2 DEF RepliesType, OnlyCommand
<1>5. CommandFacts(w)'
  BY <1>1, <1>2, <1>3, <1>4 DEF CommandFacts, Now
<1>6. w \notin inUse
  BY <1>1 DEF CommandInv
<1> QED
  BY <1>2, <1>3, <1>4, <1>5, <1>6 DEF CommandGoesOn, Now

LEMMA RecordCommandStep ==
  ASSUME CallInv, CommandInv, NEW w \in Workers, RecordCommand(w)
  PROVE  CommandGoesOn(w)
<1>1. /\ runnerOf[w] = "redis" /\ CallInv' /\ Only(w)
      /\ phase[w] = "record" /\ phase'[w] = "idle" /\ err'[w] = "none" /\ class'[w] = "none"
      /\ unit'[w] = 1
  BY RecordDoes DEF RecordCommand
<1>2. RepliesType' /\ OnlyCommand(w) /\ replies'[w] = <<>> /\ inUse' = inUse
  <2>1. <<>> \in Seq(Replies)
    OBVIOUS
  <2> QED
    BY <2>1 DEF CommandInv, RepliesType, OnlyCommand, RecordCommand
<1>3. CommandFacts(w)'
  BY <1>1, <1>2, TheCommands DEF CommandFacts
<1>4. w \notin inUse
  BY <1>1 DEF CommandInv
<1> QED
  BY <1>1, <1>2, <1>3, <1>4 DEF CommandGoesOn

LEMMA CommandStepGoesOn ==
  ASSUME CallInv, CommandInv, NEW w \in Workers, BeginCommand(w) \/ CommandStep(w)
  PROVE  CommandGoesOn(w)
BY BeginCommandStep, RenderStep, TurnStep, ExchangeStep, RetryStep, ClassifyCommandStep, RedisCountStep,
   RecordCommandStep DEF CommandStep

LEMMA CommandSame ==
  ASSUME NEW u \in Workers, CommandFacts(u),
         phase'[u] = phase[u], unit'[u] = unit[u], err'[u] = err[u], class'[u] = class[u],
         replies'[u] = replies[u]
  PROVE  CommandFacts(u)'
BY DEF CommandFacts, Command

\* A step of a unit keeps what is so of all of them, and the limit of the client's pool.
LEMMA CommandInvKept ==
  ASSUME CallInv, CommandInv, NEW w \in Workers, CommandGoesOn(w)
  PROVE  CommandInv'
<1> USE DEF CommandGoesOn
<1>1. ASSUME NEW u \in Workers, runnerOf'[u] = "redis"
      PROVE  CommandFacts(u)'
  <2>1. CASE u = w
    BY <2>1
  <2>2. CASE u # w
    <3>1. CommandFacts(u)
      BY <1>1 DEF CommandInv, Only
    <3> QED
      BY <2>2, <3>1, CommandSame DEF Only, OnlyCommand
  <2> QED
    BY <2>1, <2>2
<1>2. inUse' = {u \in Workers : phase'[u] = "io"}
  BY DEF CommandInv, Only
<1>3. Cardinality(inUse') <= RedisPoolSize
  <2>1. inUse \subseteq Workers /\ IsFiniteSet(Workers)
    BY CallAssumption DEF CommandInv
  <2>2. IsFiniteSet(inUse) /\ Cardinality(inUse) \in Nat
    BY <2>1, FS_Subset, FS_CardinalityType
  <2>3. RedisPoolSize \in Nat
    BY CommandAssumption, CallAssumption, FS_CardinalityType DEF RedisPoolSize
  <2>4. CASE phase'[w] = "io"
    <3>1. w \notin inUse /\ Cardinality(inUse) < RedisPoolSize
      BY <2>4 DEF CommandInv
    <3>2. inUse' = inUse \cup {w}
      BY <2>4
    <3>3. Cardinality(inUse \cup {w}) = Cardinality(inUse) + 1
      BY <2>2, <3>1, FS_AddElement
    <3> QED
      BY <2>2, <2>3, <3>1, <3>2, <3>3
  <2>5. CASE phase'[w] # "io"
    <3>1. Cardinality(inUse \ {w}) <= Cardinality(inUse) /\ Cardinality(inUse \ {w}) \in Nat
      BY <2>2, FS_Subset, FS_CardinalityType
    <3> QED
      BY <2>2, <2>3, <2>5, <3>1 DEF CommandInv
  <2> QED
    BY <2>4, <2>5
<1> QED
  BY <1>1, <1>2, <1>3 DEF CommandInv, RepliesType

-----------------------------------------------------------------------------
(* The calls of the HTTP runner. *)

OnlyRequest(w) ==
  \A u \in Workers \ {w} :
    /\ status'[u] = status[u] /\ overLimit'[u] = overLimit[u]
    /\ trace'[u] = trace[u] /\ haveConn'[u] = haveConn[u]
    /\ started'[u] = started[u] /\ connAcquired'[u] = connAcquired[u]
    /\ firstByte'[u] = firstByte[u] /\ ended'[u] = ended[u] /\ phases'[u] = phases[u]

\* What the runner's variables say of the call w stays what it is.
SameRequest(w) ==
  /\ status'[w] = status[w] /\ overLimit'[w] = overLimit[w]
  /\ trace'[w] = trace[w] /\ haveConn'[w] = haveConn[w]
  /\ started'[w] = started[w] /\ connAcquired'[w] = connAcquired[w]
  /\ firstByte'[w] = firstByte[w] /\ ended'[w] = ended[w] /\ phases'[w] = phases[w]

\* A step of w's request: nothing else goes on, the clock is not set back, and what was
\* so of it is so again.
RequestGoesOn(w) ==
  /\ CallInv' /\ Only(w) /\ runnerOf[w] = "http"
  /\ HTTPTypes' /\ OnlyRequest(w) /\ now <= now'
  /\ RequestFacts(w)' /\ StampFacts(w)'

LEMMA TheRequests ==
  /\ 1 \in DOMAIN Requests
  /\ \A i \in DOMAIN Requests : Requests[i].limited \in BOOLEAN
  /\ Picks(HTTPWeights) \subseteq 1 .. Len(Requests) /\ Len(Requests) \in Nat
  /\ DOMAIN Requests = 1 .. Len(Requests)
<1>1. Requests \in Seq(RequestType) /\ Requests # <<>>
  BY RequestAssumption
<1>2. DOMAIN Requests = 1 .. Len(Requests) /\ Len(Requests) \in Nat \ {0}
  BY <1>1
<1>3. Picks(HTTPWeights) \subseteq 1 .. Len(Requests)
  <2>1. HTTPWeights = [i \in 1 .. Len(Requests) |-> HTTPWeights[i]]
    BY <1>2 DEF HTTPWeights
  <2> QED
    BY <1>2, <2>1, PicksAreIndexes
<1>4. ASSUME NEW i \in DOMAIN Requests
      PROVE  Requests[i].limited \in BOOLEAN
  <2>1. Requests[i] \in RequestType
    BY <1>1
  <2> QED
    BY <2>1 DEF RequestType
<1> QED
  BY <1>2, <1>3, <1>4

\* A call in one of these phases is a request's.
LEMMA HTTPCall ==
  ASSUME CallInv, RequestInv, NEW w \in Workers, phase[w] \in HTTPPhases
  PROVE  runnerOf[w] = "http" /\ RequestFacts(w) /\ StampFacts(w) /\ HTTPTypes
BY PhaseRunner DEF RequestInv

LEMMA HTTPNext ==
  ASSUME NEW next \in HTTPPhases \cup {"record"}
  PROVE  next \in PhasesOf("http") \cap AllPhases
BY DEF PhasesOf, AllPhases

\* The errors a request may meet.
LEMMA RequestErrors ==
  ASSUME CallInv, NEW w \in Workers
  PROVE  /\ TransportErrors(w) \subseteq Errors \ {"none"}
         /\ "eof" \in Errors \ {"none"}
         /\ ctx[w] # "live" => ctx[w] \in Errors \ {"none"}
<1>1. ctx[w] \in Contexts
  BY DEF CallInv
<1>2. ctx[w] # "live" => ctx[w] \in {"deadline", "canceled"}
  BY <1>1 DEF Contexts
<1>3. {"deadline", "canceled", "eof", "redirects"} \cup DialErrors \subseteq Errors \ {"none"}
  BY DEF Errors, DialErrors
<1> QED
  BY <1>2, <1>3 DEF TransportErrors

\* A reading of the clock is not before it.
LEMMA ReadingsGoOn ==
  ASSUME now \in Nat, NEW t \in Readings
  PROVE  t \in Nat /\ now <= t
BY RequestAssumption DEF Readings

\* A stamp of the trace is set to the clock.
LEMMA StampDoes ==
  ASSUME HTTPTypes, NEW w \in Workers, NEW s \in Stamps, Stamp(w, s)
  PROVE  /\ trace' \in [Workers -> [Stamps -> Nat]] /\ now' \in Nat /\ now <= now'
         /\ trace'[w][s] = now' /\ \A r \in Stamps \ {s} : trace'[w][r] = trace[w][r]
         /\ \A u \in Workers \ {w} : trace'[u] = trace[u]
<1>1. PICK t \in Readings : now' = t /\ trace' = [trace EXCEPT ![w][s] = t]
  BY DEF Stamp
<1>2. t \in Nat /\ now <= t
  BY ReadingsGoOn DEF HTTPTypes
<1>3. trace \in [Workers -> [Stamps -> Nat]]
  BY DEF HTTPTypes
<1>4. [trace[w] EXCEPT ![s] = t] \in [Stamps -> Nat]
  BY <1>2, <1>3
<1> QED
  BY <1>1, <1>2, <1>3, <1>4

\* A step that leaves the outcome of w alone, but for its stamps.
LEMMA RequestFactsKept ==
  ASSUME CallInv, RequestInv, NEW w \in Workers,
         phase[w] \in {"build", "ask", "conn", "exchange", "head"},
         NEW next \in {"ask", "conn", "exchange", "head"}, Now(w, next, err[w], class[w]),
         status'[w] = status[w], overLimit'[w] = overLimit[w]
  PROVE  RequestFacts(w)'
<1>1. RequestFacts(w)
  BY HTTPCall DEF HTTPPhases
<1>2. Request(w)' = Request(w)
  BY DEF Request, Now
<1> QED
  BY <1>1, <1>2 DEF RequestFacts, Now, HTTPPhases

LEMMA BeginRequestStep ==
  ASSUME CallInv, RequestInv, NEW w \in Workers, BeginRequest(w)
  PROVE  RequestGoesOn(w)
<1>1. "build" \in PhasesOf("http") \cap AllPhases
  BY DEF PhasesOf, HTTPPhases, AllPhases
<1>2. /\ CallInv' /\ Only(w) /\ runnerOf[w] = "http" /\ phase[w] = "idle" /\ phase'[w] = "build"
      /\ unit'[w] \in 1 .. Len(Requests) /\ err'[w] = err[w] /\ class'[w] = class[w]
  <2>1. Begin(w, "http", HTTPWeights, "build")
    BY DEF BeginRequest
  <2> HIDE DEF BeginRequest
  <2> QED
    BY <1>1, <2>1, BeginDoes, TheRequests
<1>3. RequestFacts(w) /\ StampFacts(w) /\ HTTPTypes
  BY <1>2 DEF RequestInv
<1>4. /\ now' = now /\ started'[w] = now /\ status'[w] = status[w] /\ overLimit'[w] = overLimit[w]
      /\ trace' = trace /\ firstByte' = firstByte
      /\ HTTPTypes' /\ OnlyRequest(w)
  BY <1>3 DEF BeginRequest, traceVars, HTTPTypes, OnlyRequest
<1>5. RequestFacts(w)'
  BY <1>2, <1>3, <1>4, TheRequests DEF RequestFacts, HTTPPhases, Request
<1>6. StampFacts(w)'
  BY <1>2, <1>3, <1>4 DEF StampFacts, HTTPTypes
<1> QED
  BY <1>2, <1>3, <1>4, <1>5, <1>6 DEF RequestGoesOn, HTTPTypes

LEMMA BuildStep ==
  ASSUME CallInv, RequestInv, NEW w \in Workers, Build(w)
  PROVE  RequestGoesOn(w)
<1>1. /\ phase[w] = "build"
      /\ UNCHANGED <<now, trace, haveConn, status, overLimit, started, firstByte, phases>>
  BY DEF Build, traceVars
<1>2. runnerOf[w] = "http" /\ RequestFacts(w) /\ StampFacts(w) /\ HTTPTypes
  BY <1>1, HTTPCall DEF HTTPPhases
<1>3. HTTPTypes' /\ OnlyRequest(w) /\ now <= now'
  BY <1>1, <1>2 DEF Build, HTTPTypes, OnlyRequest
<1>4. firstByte[w] = 0
  BY <1>1, <1>2 DEF StampFacts
<1>5. CASE GoTo(w, "ask")
  <2>1. CallInv' /\ Only(w) /\ Now(w, "ask", err[w], class[w])
    BY <1>2, <1>5, HTTPNext, GoToDoes DEF HTTPPhases
  <2>2. RequestFacts(w)'
    BY <1>1, <2>1, RequestFactsKept
  <2>3. StampFacts(w)'
    BY <1>1, <1>2, <1>4, <2>1 DEF StampFacts, Now
  <2> QED
    BY <1>2, <1>3, <2>1, <2>2, <2>3 DEF RequestGoesOn
<1>6. CASE Decide(w, "other", "record")
  <2>1. "other" \in Classes
    BY DEF Classes
  <2>2. CallInv' /\ Only(w) /\ Now(w, "record", err[w], "other")
    BY <1>2, <1>6, <2>1, HTTPNext, DecideDoes
  <2>3. Request(w)' = Request(w)
    BY <2>2 DEF Request, Now
  <2>4. RequestFacts(w)'
    <3>1. status'[w] = 0
      BY <1>1, <1>2 DEF RequestFacts
    <3>2. 0 \notin Request(w).expect
      <4>1. Request(w) \in RequestType
        BY <1>2, RequestAssumption DEF RequestFacts, Request
      <4> QED
        BY <4>1 DEF RequestType
    <3> QED
      BY <1>1, <1>2, <2>2, <2>3, <3>1, <3>2 DEF RequestFacts, Now, HTTPPhases
  <2>5. StampFacts(w)'
    BY <1>1, <1>2, <1>4, <2>2 DEF StampFacts, Now
  <2> QED
    BY <1>2, <1>3, <2>2, <2>4, <2>5 DEF RequestGoesOn
<1> QED
  BY <1>5, <1>6 DEF Build

LEMMA AskStep ==
  ASSUME CallInv, RequestInv, NEW w \in Workers, Ask(w)
  PROVE  RequestGoesOn(w)
<1>1. /\ phase[w] = "ask" /\ Stamp(w, "getConn") /\ GoTo(w, "conn")
      /\ UNCHANGED <<haveConn, status, overLimit, started, connAcquired, firstByte, ended, phases>>
  BY DEF Ask, outcomeVars
<1>2. runnerOf[w] = "http" /\ RequestFacts(w) /\ StampFacts(w) /\ HTTPTypes
  BY <1>1, HTTPCall DEF HTTPPhases
<1>3. CallInv' /\ Only(w) /\ Now(w, "conn", err[w], class[w])
  BY <1>1, <1>2, HTTPNext, GoToDoes DEF HTTPPhases
<1>4. /\ trace' \in [Workers -> [Stamps -> Nat]] /\ now' \in Nat /\ now <= now'
      /\ trace'[w]["getConn"] = now' /\ \A r \in Stamps \ {"getConn"} : trace'[w][r] = trace[w][r]
      /\ \A u \in Workers \ {w} : trace'[u] = trace[u]
  BY <1>1, <1>2, StampDoes DEF Stamps
<1>5. HTTPTypes' /\ OnlyRequest(w)
  BY <1>1, <1>2, <1>4 DEF HTTPTypes, OnlyRequest
<1>6. RequestFacts(w)'
  BY <1>1, <1>3, RequestFactsKept
<1>7. StampFacts(w)'
  <2>1. firstByte'[w] = 0
    BY <1>1, <1>2 DEF StampFacts
  <2>2. now \in Nat /\ started[w] \in Nat /\ started[w] <= now /\ started'[w] = started[w]
    BY <1>1, <1>2 DEF StampFacts, HTTPTypes
  <2>3. \A s \in Stamps : trace'[w][s] <= now'
    <3>1. \A s \in Stamps : trace[w][s] <= now /\ trace[w][s] \in Nat
      BY <1>2 DEF StampFacts, HTTPTypes
    <3> QED
      BY <1>4, <2>2, <3>1
  <2>4. phase'[w] = "conn"
    BY <1>3 DEF Now
  <2> QED
    BY <1>4, <2>1, <2>2, <2>3, <2>4 DEF StampFacts
<1> QED
  BY <1>2, <1>3, <1>4, <1>5, <1>6, <1>7 DEF RequestGoesOn

LEMMA GotConnStep ==
  ASSUME CallInv, RequestInv, NEW w \in Workers, GotConn(w)
  PROVE  RequestGoesOn(w)
<1>1. /\ phase[w] = "conn" /\ Stamp(w, "gotConn") /\ GoTo(w, "exchange")
      /\ haveConn' = [haveConn EXCEPT ![w] = TRUE]
      /\ UNCHANGED <<status, overLimit, started, connAcquired, firstByte, ended, phases>>
  BY DEF GotConn, outcomeVars
<1>2. runnerOf[w] = "http" /\ RequestFacts(w) /\ StampFacts(w) /\ HTTPTypes
  BY <1>1, HTTPCall DEF HTTPPhases
<1>3. CallInv' /\ Only(w) /\ Now(w, "exchange", err[w], class[w])
  BY <1>1, <1>2, HTTPNext, GoToDoes DEF HTTPPhases
<1>4. /\ trace' \in [Workers -> [Stamps -> Nat]] /\ now' \in Nat /\ now <= now'
      /\ trace'[w]["gotConn"] = now' /\ \A r \in Stamps \ {"gotConn"} : trace'[w][r] = trace[w][r]
      /\ \A u \in Workers \ {w} : trace'[u] = trace[u]
  BY <1>1, <1>2, StampDoes DEF Stamps
<1>5. HTTPTypes' /\ OnlyRequest(w) /\ haveConn'[w]
  BY <1>1, <1>2, <1>4 DEF HTTPTypes, OnlyRequest
<1>6. RequestFacts(w)'
  BY <1>1, <1>3, RequestFactsKept
<1>7. StampFacts(w)'
  <2>1. firstByte'[w] = 0
    BY <1>1, <1>2 DEF StampFacts
  <2>2. now \in Nat /\ started[w] \in Nat /\ started[w] <= now /\ started'[w] = started[w]
    BY <1>1, <1>2 DEF StampFacts, HTTPTypes
  <2>3. \A s \in Stamps : trace'[w][s] <= now'
    <3>1. \A s \in Stamps : trace[w][s] <= now /\ trace[w][s] \in Nat
      BY <1>2 DEF StampFacts, HTTPTypes
    <3> QED
      BY <1>4, <2>2, <3>1
  <2>4. trace'[w].getConn <= trace'[w].gotConn /\ started'[w] <= trace'[w].gotConn
    BY <1>4, <2>2, <2>3 DEF Stamps
  <2>5. phase'[w] = "exchange"
    BY <1>3 DEF Now
  <2> QED
    BY <1>4, <1>5, <2>1, <2>2, <2>3, <2>4, <2>5 DEF StampFacts
<1> QED
  BY <1>2, <1>3, <1>4, <1>5, <1>6, <1>7 DEF RequestGoesOn

LEMMA FirstByteStep ==
  ASSUME CallInv, RequestInv, NEW w \in Workers, FirstByte(w)
  PROVE  RequestGoesOn(w)
<1>1. /\ phase[w] = "exchange" /\ Stamp(w, "firstByte") /\ GoTo(w, "head")
      /\ UNCHANGED <<haveConn, status, overLimit, started, connAcquired, firstByte, ended, phases>>
  BY DEF FirstByte, outcomeVars
<1>2. runnerOf[w] = "http" /\ RequestFacts(w) /\ StampFacts(w) /\ HTTPTypes
  BY <1>1, HTTPCall DEF HTTPPhases
<1>3. CallInv' /\ Only(w) /\ Now(w, "head", err[w], class[w])
  BY <1>1, <1>2, HTTPNext, GoToDoes DEF HTTPPhases
<1>4. /\ trace' \in [Workers -> [Stamps -> Nat]] /\ now' \in Nat /\ now <= now'
      /\ trace'[w]["firstByte"] = now' /\ \A r \in Stamps \ {"firstByte"} : trace'[w][r] = trace[w][r]
      /\ \A u \in Workers \ {w} : trace'[u] = trace[u]
  BY <1>1, <1>2, StampDoes DEF Stamps
<1>5. HTTPTypes' /\ OnlyRequest(w)
  BY <1>1, <1>2, <1>4 DEF HTTPTypes, OnlyRequest
<1>6. RequestFacts(w)'
  BY <1>1, <1>3, RequestFactsKept
<1>7. StampFacts(w)'
  <2>1. firstByte'[w] = 0
    BY <1>1, <1>2 DEF StampFacts
  <2>2. now \in Nat /\ started[w] \in Nat /\ started[w] <= now /\ started'[w] = started[w]
    BY <1>1, <1>2 DEF StampFacts, HTTPTypes
  <2>3. \A s \in Stamps : trace'[w][s] <= now'
    <3>1. \A s \in Stamps : trace[w][s] <= now /\ trace[w][s] \in Nat
      BY <1>2 DEF StampFacts, HTTPTypes
    <3> QED
      BY <1>4, <2>2, <3>1
  <2>4. haveConn[w] /\ trace[w].getConn <= trace[w].gotConn /\ started[w] <= trace[w].gotConn
    BY <1>1, <1>2 DEF StampFacts
  <2>5. /\ trace'[w].getConn <= trace'[w].gotConn /\ started'[w] <= trace'[w].gotConn
        /\ trace'[w].gotConn <= trace'[w].firstByte
    BY <1>4, <2>2, <2>3, <2>4 DEF Stamps
  <2>6. phase'[w] = "head" /\ haveConn'[w]
    BY <1>1, <1>3, <2>4 DEF Now
  <2> QED
    BY <1>4, <2>1, <2>2, <2>3, <2>5, <2>6 DEF StampFacts
<1> QED
  BY <1>2, <1>3, <1>4, <1>5, <1>6, <1>7 DEF RequestGoesOn

\* The transport starts again.
LEMMA AskMoreStep ==
  ASSUME CallInv, RequestInv, NEW w \in Workers, AskAgain(w) \/ Redirected(w)
  PROVE  RequestGoesOn(w)
<1>1. /\ phase[w] \in {"exchange", "head"} /\ GoTo(w, "ask")
      /\ UNCHANGED <<now, trace, haveConn, status, overLimit, started, connAcquired, firstByte, ended,
                     phases>>
  BY DEF AskAgain, Redirected, httpVars, traceVars, outcomeVars
<1>2. runnerOf[w] = "http" /\ RequestFacts(w) /\ StampFacts(w) /\ HTTPTypes
  BY <1>1, HTTPCall DEF HTTPPhases
<1>3. CallInv' /\ Only(w) /\ Now(w, "ask", err[w], class[w])
  BY <1>1, <1>2, HTTPNext, GoToDoes DEF HTTPPhases
<1>4. HTTPTypes' /\ OnlyRequest(w) /\ now <= now'
  BY <1>1, <1>2 DEF HTTPTypes, OnlyRequest
<1>5. RequestFacts(w)'
  BY <1>1, <1>3, RequestFactsKept
<1>6. StampFacts(w)'
  BY <1>1, <1>2, <1>3 DEF StampFacts, Now
<1> QED
  BY <1>2, <1>3, <1>4, <1>5, <1>6 DEF RequestGoesOn

LEMMA ResponseStep ==
  ASSUME CallInv, RequestInv, NEW w \in Workers, Response(w)
  PROVE  RequestGoesOn(w)
<1>1. PICK s \in Statuses : status' = [status EXCEPT ![w] = s]
  BY DEF Response
<1>2. /\ phase[w] = "head" /\ GoTo(w, "drain")
      /\ connAcquired' = [connAcquired EXCEPT ![w] = IF haveConn[w] THEN trace[w].gotConn ELSE started[w]]
      /\ firstByte' = [firstByte EXCEPT ![w] = trace[w].firstByte]
      /\ UNCHANGED <<now, trace, haveConn, overLimit, started, ended, phases>>
  BY DEF Response, traceVars
<1>3. runnerOf[w] = "http" /\ RequestFacts(w) /\ StampFacts(w) /\ HTTPTypes
  BY <1>2, HTTPCall DEF HTTPPhases
<1>4. CallInv' /\ Only(w) /\ Now(w, "drain", err[w], class[w])
  BY <1>2, <1>3, HTTPNext, GoToDoes DEF HTTPPhases
<1>5. s \in Nat
  BY RequestAssumption
<1>6. /\ trace[w]["firstByte"] \in Nat /\ trace[w]["gotConn"] \in Nat /\ started[w] \in Nat
      /\ haveConn[w]
  BY <1>2, <1>3 DEF HTTPTypes, Stamps, StampFacts
<1>7. /\ HTTPTypes' /\ OnlyRequest(w) /\ now <= now'
      /\ connAcquired'[w] = trace[w].gotConn /\ firstByte'[w] = trace[w].firstByte
  BY <1>1, <1>2, <1>3, <1>5, <1>6 DEF HTTPTypes, OnlyRequest
<1>8. RequestFacts(w)'
  <2>1. Request(w)' = Request(w)
    BY <1>4 DEF Request, Now
  <2> QED
    BY <1>2, <1>3, <1>4, <2>1 DEF RequestFacts, Now, HTTPPhases
<1>9. StampFacts(w)'
  BY <1>2, <1>3, <1>4, <1>6, <1>7 DEF StampFacts, Now
<1> QED
  BY <1>3, <1>4, <1>7, <1>8, <1>9 DEF RequestGoesOn

LEMMA ClientFailsStep ==
  ASSUME CallInv, RequestInv, NEW w \in Workers, ClientFails(w)
  PROVE  RequestGoesOn(w)
<1>1. PICK e \in TransportErrors(w) : FailTo(w, e, "failedDo")
  BY DEF ClientFails
<1>2. /\ phase[w] \in {"ask", "conn", "exchange", "head"}
      /\ UNCHANGED <<now, trace, haveConn, status, overLimit, started, connAcquired, firstByte, ended,
                     phases>>
  BY DEF ClientFails, httpVars, traceVars, outcomeVars
<1>3. runnerOf[w] = "http" /\ RequestFacts(w) /\ StampFacts(w) /\ HTTPTypes
  BY <1>2, HTTPCall DEF HTTPPhases
<1>4. e \in Errors \ {"none"}
  BY RequestErrors
<1>5. CallInv' /\ Only(w) /\ Now(w, "failedDo", e, class[w])
  BY <1>1, <1>3, <1>4, HTTPNext, FailToDoes DEF HTTPPhases
<1>6. HTTPTypes' /\ OnlyRequest(w) /\ now <= now'
  BY <1>2, <1>3 DEF HTTPTypes, OnlyRequest
<1>7. RequestFacts(w)'
  <2>1. Request(w)' = Request(w)
    BY <1>5 DEF Request, Now
  <2> QED
    BY <1>2, <1>3, <1>4, <1>5, <2>1 DEF RequestFacts, Now, HTTPPhases
<1>8. StampFacts(w)'
  BY <1>2, <1>3, <1>5 DEF StampFacts, Now
<1> QED
  BY <1>3, <1>5, <1>6, <1>7, <1>8 DEF RequestGoesOn

LEMMA FailedDoStep ==
  ASSUME CallInv, RequestInv, NEW w \in Workers, FailedDo(w)
  PROVE  RequestGoesOn(w)
<1>1. PICK t \in Readings :
        /\ connAcquired' = [connAcquired EXCEPT ![w] = IF haveConn[w] THEN trace[w].gotConn ELSE now]
        /\ ended' = [ended EXCEPT ![w] = t]
        /\ now' = t
  BY DEF FailedDo
<1>2. /\ phase[w] = "failedDo" /\ GoTo(w, "classifyError")
      /\ UNCHANGED <<trace, haveConn, status, overLimit, started, firstByte, phases>>
  BY DEF FailedDo, traceVars
<1>3. runnerOf[w] = "http" /\ RequestFacts(w) /\ StampFacts(w) /\ HTTPTypes
  BY <1>2, HTTPCall DEF HTTPPhases
<1>4. t \in Nat /\ now <= t
  BY <1>3, ReadingsGoOn DEF HTTPTypes
<1>5. CallInv' /\ Only(w) /\ Now(w, "classifyError", err[w], class[w])
  BY <1>2, <1>3, HTTPNext, GoToDoes DEF HTTPPhases
<1>6. HTTPTypes' /\ OnlyRequest(w) /\ now <= now'
  <2>1. trace[w]["gotConn"] \in Nat /\ now \in Nat
    BY <1>3 DEF HTTPTypes, Stamps
  <2> QED
    BY <1>1, <1>2, <1>3, <1>4, <2>1 DEF HTTPTypes, OnlyRequest
<1>7. RequestFacts(w)'
  <2>1. Request(w)' = Request(w)
    BY <1>5 DEF Request, Now
  <2> QED
    BY <1>2, <1>3, <1>5, <2>1 DEF RequestFacts, Now, HTTPPhases
<1>8. StampFacts(w)'
  <2>1. firstByte'[w] = 0
    BY <1>2, <1>3 DEF StampFacts
  <2>2. now \in Nat /\ now' = t
    BY <1>1, <1>3 DEF HTTPTypes
  <2>3. started'[w] <= now'
    BY <1>2, <1>3, <1>4, <2>2 DEF StampFacts, HTTPTypes
  <2>4. \A s \in Stamps : trace'[w][s] <= now'
    <3>1. \A s \in Stamps : trace[w][s] <= now /\ trace[w][s] \in Nat
      BY <1>3 DEF StampFacts, HTTPTypes
    <3> QED
      BY <1>2, <1>4, <2>2, <3>1
  <2>5. phase'[w] = "classifyError"
    BY <1>5 DEF Now
  <2> QED
    BY <2>1, <2>3, <2>4, <2>5 DEF StampFacts
<1> QED
  BY <1>3, <1>5, <1>6, <1>7, <1>8 DEF RequestGoesOn

LEMMA DrainStep ==
  ASSUME CallInv, RequestInv, NEW w \in Workers, Drain(w)
  PROVE  RequestGoesOn(w)
<1>1. PICK t \in Readings : now' = t /\ ended' = [ended EXCEPT ![w] = t]
  BY DEF Drain
<1>2. /\ phase[w] = "drain"
      /\ UNCHANGED <<trace, haveConn, status, started, connAcquired, firstByte, phases>>
  BY DEF Drain, traceVars
<1>3. runnerOf[w] = "http" /\ RequestFacts(w) /\ StampFacts(w) /\ HTTPTypes
  BY <1>2, HTTPCall DEF HTTPPhases
<1>4. t \in Nat /\ now <= t
  BY <1>3, ReadingsGoOn DEF HTTPTypes
<1> DEFINE Goes(e, over) == /\ CallInv' /\ Only(w) /\ Now(w, "observe", e, class[w])
                            /\ overLimit' = [overLimit EXCEPT ![w] = over]
                            /\ over => Request(w).limited
<1>5. PICK e \in Errors, over \in BOOLEAN : Goes(e, over)
  <2>1. ASSUME NEW over \in {FALSE, Request(w).limited}, overLimit' = [overLimit EXCEPT ![w] = over],
               GoTo(w, "observe")
        PROVE  \E e \in Errors, o \in BOOLEAN : Goes(e, o)
    <3>1. over \in BOOLEAN /\ (over => Request(w).limited)
      BY <1>3, TheRequests DEF RequestFacts, Request
    <3>2. CallInv' /\ Only(w) /\ Now(w, "observe", err[w], class[w]) /\ err[w] \in Errors
      BY <1>3, <2>1, HTTPNext, GoToDoes DEF HTTPPhases, CallInv
    <3> QED
      BY <2>1, <3>1, <3>2
  <2>2. ASSUME NEW e \in Errors, FailTo(w, e, "observe"), UNCHANGED overLimit
        PROVE  \E d \in Errors, o \in BOOLEAN : Goes(d, o)
    <3>1. ~overLimit[w] /\ overLimit \in [Workers -> BOOLEAN]
      BY <1>2, <1>3 DEF RequestFacts, HTTPPhases, HTTPTypes
    <3>2. overLimit' = [overLimit EXCEPT ![w] = FALSE]
      BY <2>2, <3>1
    <3>3. CallInv' /\ Only(w) /\ Now(w, "observe", e, class[w])
      BY <1>3, <2>2, HTTPNext, FailToDoes DEF HTTPPhases
    <3> QED
      BY <3>2, <3>3
  <2>3. \/ \E over \in {FALSE, Request(w).limited} :
             overLimit' = [overLimit EXCEPT ![w] = over] /\ GoTo(w, "observe")
        \/ \E e \in Errors : FailTo(w, e, "observe") /\ UNCHANGED overLimit
    <3>1. {"eof"} \cup (IF ctx[w] = "live" THEN {} ELSE {ctx[w]}) \subseteq Errors
      BY RequestErrors
    <3> QED
      BY <3>1 DEF Drain
  <2> HIDE DEF Goes
  <2> QED
    BY <2>1, <2>2, <2>3
<1>6. HTTPTypes' /\ OnlyRequest(w) /\ now <= now' /\ overLimit'[w] = over /\ ended'[w] = now'
  BY <1>1, <1>2, <1>3, <1>4, <1>5 DEF HTTPTypes, OnlyRequest
<1>7. RequestFacts(w)'
  <2>1. Request(w)' = Request(w)
    BY <1>5 DEF Request, Now
  <2> QED
    BY <1>2, <1>3, <1>5, <1>6, <2>1 DEF RequestFacts, Now, HTTPPhases
<1>8. StampFacts(w)'
  <2>1. now \in Nat /\ now' = t
    BY <1>1, <1>3 DEF HTTPTypes
  <2>2. started'[w] <= now'
    BY <1>2, <1>3, <1>4, <2>1 DEF StampFacts, HTTPTypes
  <2>3. \A s \in Stamps : trace'[w][s] <= now' /\ trace'[w] = trace[w]
    <3>1. \A s \in Stamps : trace[w][s] <= now /\ trace[w][s] \in Nat
      BY <1>3 DEF StampFacts, HTTPTypes
    <3> QED
      BY <1>2, <1>4, <2>1, <3>1
  <2>4. phase'[w] = "observe"
    BY <1>5 DEF Now
  <2>5. firstByte[w] > 0 => firstByte'[w] <= ended'[w]
    BY <1>2, <1>3, <1>6, <2>3 DEF StampFacts, Stamps
  <2> QED
    BY <1>2, <1>3, <2>2, <2>3, <2>4, <2>5 DEF StampFacts
<1> QED
  BY <1>3, <1>5, <1>6, <1>7, <1>8 DEF RequestGoesOn

\* The phases of a trace are numbers.
LEMMA PhasesAreNumbers ==
  ASSUME HTTPTypes, NEW w \in Workers, NEW end \in Nat
  PROVE  Phases(w, end) \in PhasesType
<1>1. /\ trace[w]["getConn"] \in Nat /\ trace[w]["gotConn"] \in Nat /\ trace[w]["firstByte"] \in Nat
      /\ haveConn[w] \in BOOLEAN
  BY DEF HTTPTypes, Stamps
<1>2. \A m, n \in Nat : Since(m, n) \in Nat
  BY DEF Since
<1> QED
  BY <1>1, <1>2 DEF Phases, PhasesType

LEMMA ObserveStep ==
  ASSUME CallInv, RequestInv, NEW w \in Workers, Observe(w)
  PROVE  RequestGoesOn(w)
<1> DEFINE next == IF err[w] = "none" THEN "classifyResponse" ELSE "classifyError"
<1>1. /\ phase[w] = "observe" /\ GoTo(w, next)
      /\ phases' = [phases EXCEPT ![w] = Phases(w, ended[w])]
      /\ UNCHANGED <<now, trace, haveConn, status, overLimit, started, connAcquired, firstByte, ended>>
  BY DEF Observe, traceVars
<1>2. runnerOf[w] = "http" /\ RequestFacts(w) /\ StampFacts(w) /\ HTTPTypes
  BY <1>1, HTTPCall DEF HTTPPhases
<1>3. next \in {"classifyResponse", "classifyError"} /\ (next = "classifyResponse" <=> err[w] = "none")
  OBVIOUS
<1> HIDE DEF next
<1>4. CallInv' /\ Only(w) /\ Now(w, next, err[w], class[w])
  BY <1>1, <1>2, <1>3, HTTPNext, GoToDoes DEF HTTPPhases
<1>5. Phases(w, ended[w]) \in PhasesType
  BY <1>2, PhasesAreNumbers DEF HTTPTypes
<1>6. HTTPTypes' /\ OnlyRequest(w) /\ now <= now' /\ phases'[w] = Phases(w, ended[w])
  BY <1>1, <1>2, <1>5 DEF HTTPTypes, OnlyRequest
<1>7. RequestFacts(w)'
  <2>1. Request(w)' = Request(w)
    BY <1>4 DEF Request, Now
  <2> QED
    BY <1>1, <1>2, <1>3, <1>4, <2>1 DEF RequestFacts, Now, HTTPPhases
<1>8. StampFacts(w)'
  <2>1. Phases(w, ended[w])' = Phases(w, ended[w])
    BY <1>1 DEF Phases
  <2>2. phase'[w] \in {"classifyResponse", "classifyError"}
    BY <1>3, <1>4 DEF Now
  <2> QED
    BY <1>1, <1>2, <1>6, <2>1, <2>2 DEF StampFacts
<1> QED
  BY <1>2, <1>4, <1>6, <1>7, <1>8 DEF RequestGoesOn

\* A response is ok exactly when its status was expected and its body not too long.
LEMMA ResponseIsOk ==
  ASSUME NEW s, NEW request, NEW over
  PROVE  /\ ClassifyResponse(s, request, over) \in Classes
         /\ ClassifyResponse(s, request, over) = "ok"
              <=> /\ ~(request.limited /\ over)
                  /\ IF request.expect # {} THEN s \in request.expect ELSE s >= 200 /\ s < 400
<1>1. StatusClass(s) \in Classes \ {"ok"}
  BY DEF StatusClass, Classes
<1>2. "ok" \in Classes /\ "expect_failed" \in Classes
  BY DEF Classes
<1> QED
  BY <1>1, <1>2 DEF ClassifyResponse

LEMMA TransportClasses ==
  \A e : ClassifyTransportError(e) \in Classes \ {"ok"}
BY DEF ClassifyTransportError, Classes

LEMMA ClassifyStep ==
  ASSUME CallInv, RequestInv, NEW w \in Workers, Classify(w)
  PROVE  RequestGoesOn(w)
<1> DEFINE response == ClassifyResponse(status[w], Request(w), overLimit[w])
           failure == ClassifyTransportError(err[w])
           ok == /\ err[w] = "none" /\ ~overLimit[w]
                 /\ status[w] \in IF Request(w).expect = {} THEN 200 .. 399 ELSE Request(w).expect
<1>1. /\ phase[w] \in {"classifyResponse", "classifyError"}
      /\ UNCHANGED <<now, trace, haveConn, status, overLimit, started, connAcquired, firstByte, ended,
                     phases>>
  BY DEF Classify, httpVars, traceVars, outcomeVars
<1>2. runnerOf[w] = "http" /\ RequestFacts(w) /\ StampFacts(w) /\ HTTPTypes
  BY <1>1, HTTPCall DEF HTTPPhases
<1>3. PICK c \in Classes : Decide(w, c, "record") /\ (c = "ok" <=> ok)
  <2>1. CASE phase[w] = "classifyResponse" /\ Decide(w, response, "record")
    <3>1. err[w] = "none" /\ (overLimit[w] => Request(w).limited)
      BY <1>2, <2>1 DEF RequestFacts
    <3>2. status[w] \in Nat
      BY <1>2 DEF HTTPTypes
    <3>3. status[w] >= 200 /\ status[w] < 400 <=> status[w] \in 200 .. 399
      BY <3>2
    <3>4. response \in Classes /\ (response = "ok" <=> ok)
      BY <3>1, <3>3, ResponseIsOk
    <3> HIDE DEF response, ok
    <3> QED
      BY <2>1, <3>4
  <2>2. CASE phase[w] = "classifyError" /\ Decide(w, failure, "record")
    <3>1. failure \in Classes \ {"ok"} /\ ~ok
      BY <1>2, <2>2, TransportClasses DEF RequestFacts
    <3> HIDE DEF failure, ok
    <3> QED
      BY <2>2, <3>1
  <2> QED
    BY <2>1, <2>2 DEF Classify
<1>4. CallInv' /\ Only(w) /\ Now(w, "record", err[w], c)
  BY <1>2, <1>3, HTTPNext, DecideDoes
<1>5. HTTPTypes' /\ OnlyRequest(w) /\ now <= now'
  BY <1>1, <1>2 DEF HTTPTypes, OnlyRequest
<1>6. RequestFacts(w)'
  <2>1. Request(w)' = Request(w)
    BY <1>4 DEF Request, Now
  <2> QED
    BY <1>1, <1>2, <1>3, <1>4, <2>1 DEF RequestFacts, Now, HTTPPhases
<1>7. StampFacts(w)'
  <2>1. Phases(w, ended[w])' = Phases(w, ended[w])
    BY <1>1 DEF Phases
  <2>2. phase'[w] = "record"
    BY <1>4 DEF Now
  <2> QED
    BY <1>1, <1>2, <2>1, <2>2 DEF StampFacts
<1> QED
  BY <1>2, <1>4, <1>5, <1>6, <1>7 DEF RequestGoesOn

LEMMA RecordRequestStep ==
  ASSUME CallInv, RequestInv, NEW w \in Workers, RecordRequest(w)
  PROVE  RequestGoesOn(w)
<1>1. /\ runnerOf[w] = "http" /\ CallInv' /\ Only(w)
      /\ phase[w] = "record" /\ phase'[w] = "idle" /\ err'[w] = "none" /\ class'[w] = "none"
      /\ unit'[w] = 1
  BY RecordDoes DEF RecordRequest
<1>2. HTTPTypes
  BY DEF RequestInv
<1>3. /\ now' = now /\ trace' \in [Workers -> [Stamps -> Nat]] /\ trace'[w] = [s \in Stamps |-> 0]
      /\ \A u \in Workers \ {w} : trace'[u] = trace[u]
  BY <1>2 DEF RecordRequest, HTTPTypes
<1>4. NoPhases \in PhasesType
  BY DEF NoPhases, PhasesType
<1>5. /\ HTTPTypes' /\ OnlyRequest(w) /\ now <= now'
      /\ status'[w] = 0 /\ ~overLimit'[w] /\ started'[w] = 0 /\ firstByte'[w] = 0
  BY <1>2, <1>3, <1>4 DEF RecordRequest, HTTPTypes, OnlyRequest
<1>6. RequestFacts(w)'
  BY <1>1, <1>5, TheRequests DEF RequestFacts, HTTPPhases
<1>7. StampFacts(w)'
  BY <1>1, <1>2, <1>3, <1>5 DEF StampFacts, HTTPTypes
<1> QED
  BY <1>1, <1>5, <1>6, <1>7 DEF RequestGoesOn

\* What is so of a request does not depend on other calls, but for the clock.
LEMMA RequestSame ==
  ASSUME NEW u \in Workers, HTTPTypes, RequestFacts(u), StampFacts(u), SameRequest(u), now <= now', now' \in Nat,
         phase'[u] = phase[u], unit'[u] = unit[u], err'[u] = err[u], class'[u] = class[u]
  PROVE  RequestFacts(u)' /\ StampFacts(u)'
<1>1. RequestFacts(u)'
  BY DEF RequestFacts, Request, SameRequest
<1>2. Phases(u, ended[u])' = Phases(u, ended[u])
  BY DEF Phases, SameRequest
<1>3. started'[u] <= now' /\ \A s \in Stamps : trace'[u][s] <= now'
  <2>1. now \in Nat /\ started[u] \in Nat /\ \A s \in Stamps : trace[u][s] \in Nat
    BY DEF HTTPTypes
  <2> QED
    BY <2>1 DEF StampFacts, SameRequest
<1>4. StampFacts(u)'
  BY <1>2, <1>3 DEF StampFacts, SameRequest
<1> QED
  BY <1>1, <1>4

LEMMA DialEndsStep ==
  ASSUME CallInv, RequestInv, NEW w \in Workers, DialEnds(w)
  PROVE  CallInv' /\ RequestInv'
<1>1. UNCHANGED callVars /\ UNCHANGED <<now, trace, haveConn, outcomeVars>>
  BY DEF DialEnds
<1>2. HTTPTypes /\ HTTPTypes' /\ now <= now' /\ now' \in Nat
  BY <1>1 DEF RequestInv, HTTPTypes, outcomeVars
<1>3. \A u \in Workers : SameRequest(u)
  BY <1>1 DEF SameRequest, outcomeVars
<1>4. CallInv'
  BY <1>1 DEF callVars, CallInv
<1>5. ASSUME NEW u \in Workers, runnerOf'[u] = "http"
      PROVE  RequestFacts(u)' /\ StampFacts(u)'
  <2>1. RequestFacts(u) /\ StampFacts(u)
    BY <1>1, <1>5 DEF RequestInv, callVars
  <2> QED
    BY <1>1, <1>2, <1>3, <2>1, RequestSame DEF callVars
<1> QED
  BY <1>2, <1>4, <1>5 DEF RequestInv

LEMMA RequestStepGoesOn ==
  ASSUME CallInv, RequestInv, NEW w \in Workers, BeginRequest(w) \/ RequestStep(w)
  PROVE  RequestGoesOn(w)
BY BeginRequestStep, BuildStep, AskStep, GotConnStep, FirstByteStep, AskMoreStep, ResponseStep,
   ClientFailsStep, FailedDoStep, DrainStep, ObserveStep, ClassifyStep, RecordRequestStep
   DEF RequestStep

\* A step of a request keeps what is so of all of them.
LEMMA RequestInvKept ==
  ASSUME CallInv, RequestInv, NEW w \in Workers, RequestGoesOn(w)
  PROVE  RequestInv'
<1> USE DEF RequestGoesOn
<1>1. ASSUME NEW u \in Workers, runnerOf'[u] = "http"
      PROVE  RequestFacts(u)' /\ StampFacts(u)'
  <2>1. CASE u = w
    BY <2>1
  <2>2. CASE u # w
    <3>1. RequestFacts(u) /\ StampFacts(u) /\ HTTPTypes
      BY <1>1 DEF RequestInv, Only
    <3>2. SameRequest(u) /\ now' \in Nat
      BY <2>2 DEF OnlyRequest, SameRequest, HTTPTypes
    <3> QED
      BY <2>2, <3>1, <3>2, RequestSame DEF Only
  <2> QED
    BY <2>1, <2>2
<1> QED
  BY <1>1 DEF RequestInv

-----------------------------------------------------------------------------
(* The connection pool. *)

\* The connections that are in the hands of calls or being dialled by them.
Out(p) == p.open - Loose(p)

LEMMA PoolSizes ==
  PoolSize \in Nat \ {0} /\ PoolIdle \in Nat \ {0}
<1>1. Cardinality(Workers) \in Nat \ {0}
  BY CallAssumption, FS_CardinalityType, FS_EmptySet
<1>2. Pool.maxOpen \in Int /\ Pool.maxIdle \in Int
  BY QueryAssumption
<1> QED
  BY <1>1, <1>2 DEF PoolSize, PoolIdle

LEMMA WorkersFinite ==
  ASSUME NEW S \in SUBSET Workers
  PROVE  IsFiniteSet(S) /\ Cardinality(S) \in Nat
BY CallAssumption, FS_Subset, FS_CardinalityType

LEMMA PoolNumbers ==
  ASSUME NEW p \in PoolType
  PROVE  /\ Cardinality(p.waiting) \in Nat /\ Cardinality(p.granted) \in Nat
         /\ Loose(p) \in Nat /\ Out(p) \in Int
BY WorkersFinite DEF PoolType, Loose, Out

\* One more and one fewer caller that was handed a connection.
LEMMA GrantedChanges ==
  ASSUME NEW S \in SUBSET Workers, NEW w \in Workers
  PROVE  /\ w \notin S => Cardinality(S \cup {w}) = Cardinality(S) + 1
         /\ w \in S => Cardinality(S \ {w}) = Cardinality(S) - 1
         /\ w \notin S => S \ {w} = S
BY WorkersFinite, FS_AddElement, FS_RemoveElement

\* The opener is asked for no more connections than the limit allows.
LEMMA RefillKeeps ==
  ASSUME NEW p, PoolOK(p)
  PROVE  PoolOK(Refill(p)) /\ Callers(Refill(p)) = Callers(p) /\ Out(Refill(p)) = Out(p)
<1> DEFINE n == Least(Cardinality(p.waiting), PoolSize - p.open)
           q == [p EXCEPT !.open = @ + n, !.opening = @ + n]
<1>1. p \in PoolType /\ p.open <= PoolSize /\ p.open \in Int /\ p.opening \in Nat
  BY DEF PoolOK, PoolType
<1>2. n \in Nat /\ n <= PoolSize - p.open
  BY <1>1, PoolNumbers, PoolSizes DEF Least
<1> HIDE DEF n
<1>a. p.open + n \in Int /\ p.opening + n \in Nat
  BY <1>1, <1>2
<1>3. /\ q \in PoolType /\ q.open = p.open + n /\ q.opening = p.opening + n /\ q.idle = p.idle
      /\ q.waiting = p.waiting /\ q.granted = p.granted /\ q.refused = p.refused
  BY <1>1, <1>a DEF PoolType
<1>4. Refill(p) = q
  BY DEF Refill, n
<1> HIDE DEF q
<1>5. PoolOK(q) /\ Callers(q) = Callers(p)
  BY <1>1, <1>2, <1>3, PoolSizes DEF PoolOK, Callers
<1>6. Out(q) = Out(p)
  <2>1. Cardinality(p.granted) \in Nat /\ p.idle \in Nat
    BY <1>1, PoolNumbers DEF PoolType
  <2> QED
    BY <1>1, <1>2, <1>3, <2>1 DEF Out, Loose
<1> QED
  BY <1>4, <1>5, <1>6

\* One connection fewer.
LEMMA FewerOpen ==
  ASSUME NEW p, PoolOK(p)
  PROVE  LET q == [p EXCEPT !.open = @ - 1]
         IN  PoolOK(q) /\ Callers(q) = Callers(p) /\ Out(q) = Out(p) - 1
<1> DEFINE q == [p EXCEPT !.open = @ - 1]
<1>1. p \in PoolType /\ p.open <= PoolSize /\ p.open \in Int /\ Cardinality(p.granted) \in Nat
  BY PoolNumbers DEF PoolOK, PoolType
<1>2. /\ q \in PoolType /\ q.open = p.open - 1 /\ q.opening = p.opening /\ q.idle = p.idle
      /\ q.waiting = p.waiting /\ q.granted = p.granted /\ q.refused = p.refused
  BY <1>1 DEF PoolType
<1> HIDE DEF q
<1>3. PoolOK(q) /\ Callers(q) = Callers(p)
  BY <1>1, <1>2, PoolSizes DEF PoolOK, Callers
<1>4. Out(q) = Out(p) - 1
  BY <1>1, <1>2 DEF Out, Loose, PoolType
<1> QED
  BY <1>3, <1>4 DEF q

\* A connection that is handed back finds a caller, or a place among the idle ones, or
\* is closed.
LEMMA HandBackKeeps ==
  ASSUME NEW p, PoolOK(p), NEW q \in HandBack(p)
  PROVE  PoolOK(q) /\ Callers(q) = Callers(p) /\ Out(q) = Out(p) - 1
<1>1. /\ p \in PoolType /\ p.open <= PoolSize /\ p.open \in Int /\ p.opening \in Nat /\ p.idle \in Nat
      /\ p.waiting \in SUBSET Workers /\ p.granted \in SUBSET Workers
      /\ p.waiting \cap p.granted = {} /\ p.waiting \cap p.refused = {} /\ p.granted \cap p.refused = {}
  BY DEF PoolOK, PoolType
<1>2. Cardinality(p.granted) \in Nat /\ PoolSize \in Nat
  BY <1>1, PoolNumbers, PoolSizes
<1>3. ASSUME NEW w \in p.waiting, q = [p EXCEPT !.waiting = @ \ {w}, !.granted = @ \cup {w}]
      PROVE  PoolOK(q) /\ Callers(q) = Callers(p) /\ Out(q) = Out(p) - 1
  <2>1. /\ q \in PoolType /\ q.open = p.open /\ q.opening = p.opening /\ q.idle = p.idle
        /\ q.waiting = p.waiting \ {w} /\ q.granted = p.granted \cup {w} /\ q.refused = p.refused
    BY <1>1, <1>3 DEF PoolType
  <2>2. Cardinality(q.granted) = Cardinality(p.granted) + 1
    BY <1>1, <2>1, GrantedChanges
  <2>3. Out(q) = Out(p) - 1
    BY <1>1, <1>2, <2>1, <2>2 DEF Out, Loose
  <2>4. PoolOK(q) /\ Callers(q) = Callers(p)
    BY <1>1, <2>1 DEF PoolOK, Callers
  <2> QED
    BY <2>3, <2>4
<1>4. CASE q = [p EXCEPT !.idle = @ + 1]
  <2>1. /\ q \in PoolType /\ q.open = p.open /\ q.opening = p.opening /\ q.idle = p.idle + 1
        /\ q.waiting = p.waiting /\ q.granted = p.granted /\ q.refused = p.refused
    BY <1>1, <1>4 DEF PoolType
  <2>2. Out(q) = Out(p) - 1
    BY <1>1, <1>2, <2>1 DEF Out, Loose
  <2>3. PoolOK(q) /\ Callers(q) = Callers(p)
    BY <1>1, <1>2, <2>1 DEF PoolOK, Callers
  <2> QED
    BY <2>2, <2>3
<1>5. CASE q = [p EXCEPT !.open = @ - 1]
  BY <1>5, FewerOpen
<1> QED
  BY <1>3, <1>4, <1>5 DEF HandBack

LEMMA ReturnedKeeps ==
  ASSUME NEW p, PoolOK(p), NEW broken, NEW q \in Returned(p, broken)
  PROVE  PoolOK(q) /\ Callers(q) = Callers(p) /\ Out(q) = Out(p) - 1
<1>1. CASE q \in HandBack(p)
  BY <1>1, HandBackKeeps
<1>2. CASE q = Refill([p EXCEPT !.open = @ - 1])
  BY <1>2, FewerOpen, RefillKeeps
<1> QED
  BY <1>1, <1>2 DEF Returned

\* The opener's connection arrives, or its error does.
LEMMA OpenerKeeps ==
  ASSUME NEW p, PoolOK(p), p.opening > 0, NEW q \in Opened(p) \cup NotOpened(p)
  PROVE  PoolOK(q) /\ Callers(q) = Callers(p) /\ Out(q) = Out(p)
<1>1. /\ p \in PoolType /\ p.open <= PoolSize /\ p.open \in Int /\ p.opening \in Nat \ {0}
      /\ p.idle \in Nat /\ Cardinality(p.granted) \in Nat
      /\ p.waiting \in SUBSET Workers /\ p.refused \in SUBSET Workers
      /\ p.waiting \cap p.granted = {} /\ p.waiting \cap p.refused = {} /\ p.granted \cap p.refused = {}
  BY PoolNumbers DEF PoolOK, PoolType
<1>2. CASE q \in Opened(p)
  <2> DEFINE r == [p EXCEPT !.opening = @ - 1]
  <2>1. /\ r \in PoolType /\ r.open = p.open /\ r.opening = p.opening - 1 /\ r.idle = p.idle
        /\ r.waiting = p.waiting /\ r.granted = p.granted /\ r.refused = p.refused
    BY <1>1 DEF PoolType
  <2>2. q \in HandBack(r)
    BY <1>2 DEF Opened
  <2> HIDE DEF r
  <2>3. PoolOK(r) /\ Callers(r) = Callers(p)
    BY <1>1, <2>1 DEF PoolOK, Callers
  <2>4. Out(r) = Out(p) + 1
    BY <1>1, <2>1 DEF Out, Loose
  <2> QED
    BY <1>1, <2>1, <2>2, <2>3, <2>4, HandBackKeeps, PoolNumbers
<1>3. CASE q \in NotOpened(p)
  <2> DEFINE fewer == [p EXCEPT !.opening = @ - 1, !.open = @ - 1]
  <2>a. p.open - 1 \in Int /\ p.opening - 1 \in Nat
    BY <1>1
  <2>1. /\ fewer \in PoolType /\ fewer.open = p.open - 1 /\ fewer.opening = p.opening - 1
        /\ fewer.idle = p.idle
        /\ fewer.waiting = p.waiting /\ fewer.granted = p.granted /\ fewer.refused = p.refused
    BY <1>1, <2>a DEF PoolType
  <2>2. \/ q = fewer
        \/ \E w \in p.waiting : q = Refill([fewer EXCEPT !.waiting = @ \ {w}, !.refused = @ \cup {w}])
    BY <1>3 DEF NotOpened
  <2> HIDE DEF fewer
  <2>3. PoolOK(fewer) /\ Callers(fewer) = Callers(p) /\ Out(fewer) = Out(p)
    <3>1. PoolOK(fewer) /\ Callers(fewer) = Callers(p)
      BY <1>1, <2>1, PoolSizes DEF PoolOK, Callers
    <3>2. Out(fewer) = Out(p)
      BY <1>1, <2>1 DEF Out, Loose
    <3> QED
      BY <3>1, <3>2
  <2>4. ASSUME NEW w \in p.waiting,
               q = Refill([fewer EXCEPT !.waiting = @ \ {w}, !.refused = @ \cup {w}])
        PROVE  PoolOK(q) /\ Callers(q) = Callers(p) /\ Out(q) = Out(p)
    <3> DEFINE r == [fewer EXCEPT !.waiting = @ \ {w}, !.refused = @ \cup {w}]
    <3>1. /\ r \in PoolType /\ r.open = fewer.open /\ r.opening = fewer.opening /\ r.idle = fewer.idle
          /\ r.waiting = p.waiting \ {w} /\ r.granted = p.granted /\ r.refused = p.refused \cup {w}
      BY <1>1, <2>1, <2>4 DEF PoolType
    <3> HIDE DEF r
    <3>2. PoolOK(r) /\ Callers(r) = Callers(p)
      BY <1>1, <2>1, <2>3, <2>4, <3>1 DEF PoolOK, Callers
    <3>3. Out(r) = Out(fewer)
      BY <2>1, <3>1 DEF Out, Loose
    <3> QED
      BY <2>3, <2>4, <3>2, <3>3, RefillKeeps DEF r
  <2> QED
    BY <2>2, <2>3, <2>4
<1> QED
  BY <1>2, <1>3

-----------------------------------------------------------------------------
(* The connections the calls hold. *)

HeldBy(h) == UNION {{u} \X (1 .. h[u]) : u \in Workers}

LEMMA AtMostTwo ==
  IsFiniteSet(Workers \X (1 .. 2))
<1>1. IsFiniteSet(1 .. 2)
  <2>1. 1 \in Int /\ 2 \in Int
    OBVIOUS
  <2>2. \A a, b \in Int : IsFiniteSet(a .. b)
    BY FS_Interval
  <2> QED
    BY <2>1, <2>2
<1> QED
  BY <1>1, CallAssumption, FS_Product

\* One connection more is one element more.
LEMMA OneMoreHeld ==
  ASSUME NEW h \in [Workers -> 0 .. 2], NEW g \in [Workers -> 0 .. 2], NEW w \in Workers,
         g[w] = h[w] + 1, \A u \in Workers \ {w} : g[u] = h[u]
  PROVE  Cardinality(HeldBy(g)) = Cardinality(HeldBy(h)) + 1 /\ Cardinality(HeldBy(h)) \in Nat
<1>1. \A x : \A f \in [Workers -> 0 .. 2] :
        x \in HeldBy(f) <=> \E u \in Workers : \E i \in 1 .. f[u] : x = <<u, i>>
  BY DEF HeldBy
<1>2. HeldBy(h) \subseteq Workers \X (1 .. 2)
  <2>1. \A u \in Workers : 1 .. h[u] \subseteq 1 .. 2
    OBVIOUS
  <2> QED
    BY <1>1, <2>1
<1>3. IsFiniteSet(HeldBy(h)) /\ Cardinality(HeldBy(h)) \in Nat
  BY <1>2, AtMostTwo, FS_Subset, FS_CardinalityType
<1>4. h[w] \in 0 .. 2 /\ g[w] \in 0 .. 2
  OBVIOUS
<1>5. 1 .. g[w] = (1 .. h[w]) \cup {h[w] + 1} /\ h[w] + 1 \notin 1 .. h[w]
  BY <1>4
<1>6. HeldBy(g) = HeldBy(h) \cup {<<w, h[w] + 1>>}
  <2>1. ASSUME NEW x \in HeldBy(g)
        PROVE  x \in HeldBy(h) \cup {<<w, h[w] + 1>>}
    <3>1. PICK u \in Workers : \E i \in 1 .. g[u] : x = <<u, i>>
      BY <1>1, <2>1
    <3>2. PICK i \in 1 .. g[u] : x = <<u, i>>
      BY <3>1
    <3> QED
      BY <1>1, <1>5, <3>2
  <2>2. ASSUME NEW x \in HeldBy(h)
        PROVE  x \in HeldBy(g)
    <3>1. PICK u \in Workers : \E i \in 1 .. h[u] : x = <<u, i>>
      BY <1>1, <2>2
    <3>2. PICK i \in 1 .. h[u] : x = <<u, i>>
      BY <3>1
    <3>3. i \in 1 .. g[u]
      BY <1>5
    <3> QED
      BY <1>1, <3>2, <3>3
  <2>3. <<w, h[w] + 1>> \in HeldBy(g)
    BY <1>1, <1>5
  <2> QED
    BY <2>1, <2>2, <2>3
<1>7. <<w, h[w] + 1>> \notin HeldBy(h)
  <2> SUFFICES ASSUME <<w, h[w] + 1>> \in HeldBy(h)
               PROVE  FALSE
    OBVIOUS
  <2>1. PICK u \in Workers : \E i \in 1 .. h[u] : <<w, h[w] + 1>> = <<u, i>>
    BY <1>1
  <2> QED
    BY <1>5, <2>1
<1> QED
  BY <1>3, <1>6, <1>7, FS_AddElement

\* One worker more is dialling, or one fewer.
Dialling(w) == IF phase[w] = "dial" THEN 1 ELSE 0

LEMMA DiallingChanges ==
  ASSUME CallInv, NEW w \in Workers, \A u \in Workers \ {w} : phase'[u] = phase[u]
  PROVE  Cardinality(BeingDialled') - Cardinality(BeingDialled) = Dialling(w)' - Dialling(w)
<1>1. BeingDialled \in SUBSET Workers /\ BeingDialled' \in SUBSET Workers
  BY DEF BeingDialled
<1>2. Cardinality(BeingDialled) \in Nat /\ Cardinality(BeingDialled') \in Nat
  BY <1>1, WorkersFinite
<1>3. w \in BeingDialled <=> phase[w] = "dial"
  BY DEF BeingDialled
<1>4. BeingDialled' = IF phase'[w] = "dial" THEN BeingDialled \cup {w} ELSE BeingDialled \ {w}
  BY DEF BeingDialled
<1>5. /\ w \notin BeingDialled => Cardinality(BeingDialled \cup {w}) = Cardinality(BeingDialled) + 1
      /\ w \in BeingDialled => BeingDialled \cup {w} = BeingDialled
      /\ w \in BeingDialled => Cardinality(BeingDialled \ {w}) = Cardinality(BeingDialled) - 1
      /\ w \notin BeingDialled => BeingDialled \ {w} = BeingDialled
  BY <1>1, GrantedChanges
<1>6. /\ Dialling(w) = IF w \in BeingDialled THEN 1 ELSE 0
      /\ Dialling(w)' = IF phase'[w] = "dial" THEN 1 ELSE 0
  BY <1>3 DEF Dialling
<1>7. Cardinality(BeingDialled') = Cardinality(BeingDialled) + (Dialling(w)' - Dialling(w))
  <2>1. CASE phase'[w] = "dial" /\ w \in BeingDialled
    <3>1. BeingDialled' = BeingDialled
      BY <1>4, <2>1
    <3>2. Dialling(w)' - Dialling(w) = 0
      BY <1>6, <2>1
    <3> QED
      BY <1>2, <3>1, <3>2
  <2>2. CASE phase'[w] = "dial" /\ w \notin BeingDialled
    BY <1>2, <1>4, <1>5, <1>6, <2>2
  <2>3. CASE phase'[w] # "dial" /\ w \in BeingDialled
    BY <1>2, <1>4, <1>5, <1>6, <2>3
  <2>4. CASE phase'[w] # "dial" /\ w \notin BeingDialled
    <3>1. BeingDialled' = BeingDialled
      BY <1>4, <2>4
    <3>2. Dialling(w)' - Dialling(w) = 0
      BY <1>6, <2>4
    <3> QED
      BY <1>2, <3>1, <3>2
  <2> QED
    BY <2>1, <2>2, <2>3, <2>4
<1> QED
  BY <1>2, <1>6, <1>7

\* What a step of w may do to the pool: the connections that went out are those w holds
\* or dials, and w is among the callers only while it waits.
PoolGoesOn(w) ==
  /\ PoolOK(pool') /\ Callers(pool') \subseteq Callers(pool) \cup {w}
  /\ w \in Callers(pool') => phase'[w] = "wait"
  /\ held'[w] - held[w] \in {-1, 0, 1}
  /\ Out(pool') - Out(pool) = (held'[w] - held[w]) + (Dialling(w)' - Dialling(w))
  /\ life' = life /\ (life # "ready" => pool' = pool /\ phase'[w] \notin SQLPhases)

\* The accounts of the pool balance again.
LEMMA PoolInvKept ==
  ASSUME CallInv, QueryInv, PoolInv, NEW w \in Workers, QueryGoesOn(w), PoolGoesOn(w)
  PROVE  PoolInv'
<1> USE DEF QueryGoesOn, PoolGoesOn
<1>1. Callers(pool') \subseteq {u \in Workers : phase'[u] = "wait"}
  BY DEF PoolInv, Only
<1>2. Out(pool) = Cardinality(HeldByCalls) + Cardinality(BeingDialled)
  BY DEF PoolInv, Out
<1>3. Cardinality(HeldByCalls) \in Nat /\ Cardinality(HeldByCalls') \in Nat
      /\ Cardinality(HeldByCalls') - Cardinality(HeldByCalls) = held'[w] - held[w]
  <2>1. HeldByCalls = HeldBy(held) /\ HeldByCalls' = HeldBy(held')
    BY DEF HeldByCalls, HeldBy
  <2>2. /\ held \in [Workers -> 0 .. 2] /\ held' \in [Workers -> 0 .. 2]
        /\ \A u \in Workers \ {w} : held'[u] = held[u]
    BY DEF QueryInv, QueryTypes, OnlyQuery
  <2>3. CASE held'[w] - held[w] = 1
    <3>1. held'[w] = held[w] + 1 /\ held[w] \in 0 .. 2 /\ held'[w] \in 0 .. 2
      BY <2>2, <2>3
    <3>2. Cardinality(HeldBy(held')) = Cardinality(HeldBy(held)) + 1 /\ Cardinality(HeldBy(held)) \in Nat
      BY <2>2, <3>1, OneMoreHeld
    <3> QED
      BY <2>1, <2>3, <3>2
  <2>4. CASE held'[w] - held[w] = -1
    <3>1. held[w] = held'[w] + 1 /\ held[w] \in 0 .. 2 /\ held'[w] \in 0 .. 2
      BY <2>2, <2>4
    <3>2. Cardinality(HeldBy(held)) = Cardinality(HeldBy(held')) + 1 /\ Cardinality(HeldBy(held')) \in Nat
      BY <2>2, <3>1, OneMoreHeld
    <3> QED
      BY <2>1, <2>4, <3>2
  <2>5. CASE held'[w] - held[w] = 0
    <3>1. held' = held
      BY <2>2, <2>5
    <3>2. Cardinality(HeldBy(held)) \in Nat
      <4>1. \A u \in Workers : 1 .. held[u] \subseteq 1 .. 2
        BY <2>2
      <4>2. HeldBy(held) \subseteq Workers \X (1 .. 2)
        BY <4>1 DEF HeldBy
      <4> QED
        BY AtMostTwo, <4>2, FS_Subset, FS_CardinalityType
    <3> QED
      BY <2>1, <2>5, <3>1, <3>2
  <2> QED
    BY <2>3, <2>4, <2>5
<1>4. Cardinality(BeingDialled') - Cardinality(BeingDialled) = Dialling(w)' - Dialling(w)
  BY DiallingChanges DEF Only
<1>5. Out(pool') = Cardinality(HeldByCalls') + Cardinality(BeingDialled')
  <2>1. Out(pool) \in Int /\ Out(pool') \in Int
    BY PoolNumbers DEF PoolInv, PoolOK
  <2>2. BeingDialled \in SUBSET Workers /\ BeingDialled' \in SUBSET Workers
    BY DEF BeingDialled
  <2>3. Cardinality(BeingDialled) \in Nat /\ Cardinality(BeingDialled') \in Nat
    BY <2>2, WorkersFinite
  <2>4. Dialling(w) \in {0, 1} /\ Dialling(w)' \in {0, 1}
    BY DEF Dialling
  <2>5. held'[w] - held[w] \in {-1, 0, 1}
    OBVIOUS
  <2>6. Out(pool') - Out(pool) = (held'[w] - held[w]) + (Dialling(w)' - Dialling(w))
    OBVIOUS
  <2> DEFINE o == Out(pool)
             oo == Out(pool')
             h == Cardinality(HeldByCalls)
             hh == Cardinality(HeldByCalls')
             d == Cardinality(BeingDialled)
             dd == Cardinality(BeingDialled')
             k == held'[w] - held[w]
             l == Dialling(w)' - Dialling(w)
  <2>7. /\ o \in Int /\ oo \in Int /\ h \in Nat /\ hh \in Nat /\ d \in Nat /\ dd \in Nat
        /\ k \in Int /\ l \in Int
        /\ o = h + d /\ hh - h = k /\ dd - d = l /\ oo - o = k + l
    BY <1>2, <1>3, <1>4, <2>1, <2>3, <2>4, <2>5, <2>6
  <2> HIDE DEF o, oo, h, hh, d, dd, k, l
  <2>8. oo = hh + dd
    BY <2>7
  <2> QED
    BY <2>8 DEF oo, hh, dd
<1>6. life' = "new" => pool' = EmptyPool
  BY DEF PoolInv
<1>7. \A u \in Workers : phase'[u] \in SQLPhases => life' = "ready"
  BY DEF PoolInv, Only
<1> QED
  BY <1>1, <1>5, <1>6, <1>7 DEF PoolInv, Out

\* The pool stays what it is.
LEMMA PoolAlone ==
  ASSUME PoolInv, NEW w \in Workers, pool' = pool, life' = life, held'[w] = held[w],
         held[w] \in 0 .. 2,
         phase[w] \notin {"dial", "wait"}, phase'[w] # "dial",
         life # "ready" => phase'[w] \notin SQLPhases
  PROVE  PoolGoesOn(w)
<1>1. PoolOK(pool) /\ w \notin Callers(pool)
  BY DEF PoolInv
<1>2. Out(pool) \in Int
  BY <1>1, PoolNumbers DEF PoolOK
<1> QED
  BY <1>1, <1>2 DEF PoolGoesOn, Dialling

\* A query in one of these phases has a runner that is ready.
LEMMA QueryReady ==
  ASSUME CallInv, QueryInv, PoolInv, NEW w \in Workers, phase[w] \in SQLPhases
  PROVE  /\ runnerOf[w] = "db" /\ QueryFacts(w) /\ held[w] \in 0 .. 2 /\ life = "ready"
         /\ PoolOK(pool) /\ Out(pool) \in Int /\ (phase[w] # "wait" => w \notin Callers(pool))
BY PhaseRunner, PoolNumbers DEF QueryInv, QueryTypes, PoolInv, PoolOK

LEMMA BeginQueryPool ==
  ASSUME CallInv, QueryInv, PoolInv, NEW w \in Workers, BeginQuery(w)
  PROVE  PoolGoesOn(w)
<1>1. /\ life = "ready" /\ UNCHANGED sqlVars /\ phase[w] = "idle"
      /\ phase' = [phase EXCEPT ![w] = "acquire"]
  BY DEF BeginQuery, Begin
<1>2. phase'[w] = "acquire"
  BY <1>1 DEF CallInv
<1>3. held[w] \in 0 .. 2
  BY DEF QueryInv, QueryTypes
<1> QED
  BY <1>1, <1>2, <1>3, PoolAlone DEF sqlVars

\* What taking a connection, and not getting one, does to the call.
LEMMA AcquiredPhase ==
  ASSUME CallInv, QueryInv, NEW w \in Workers, Acquired(w), held[w] \in {0, 1}
  PROVE  held'[w] = held[w] + 1 /\ phase'[w] \notin {"dial", "wait"}
<1>1. held \in [Workers -> 0 .. 2] /\ phase \in [Workers -> AllPhases]
  BY DEF QueryInv, QueryTypes, CallInv
<1> QED
  BY <1>1 DEF Acquired, GoTo

LEMMA NotAcquiredPhase ==
  ASSUME CallInv, QueryInv, NEW w \in Workers, NEW e, NotAcquired(w, e)
  PROVE  held'[w] = held[w] /\ phase'[w] \notin {"dial", "wait"}
<1>1. phase \in [Workers -> AllPhases]
  BY DEF CallInv
<1> QED
  BY <1>1 DEF NotAcquired, FailTo

LEMMA AcquirePool ==
  ASSUME CallInv, QueryInv, PoolInv, NEW w \in Workers, Acquire(w)
  PROVE  PoolGoesOn(w)
<1>1. phase[w] = "acquire" /\ life' = life
  BY DEF Acquire, sqlCall
<1>2. /\ QueryFacts(w) /\ held[w] \in {0, 1} /\ life = "ready" /\ PoolOK(pool) /\ Out(pool) \in Int
      /\ w \notin Callers(pool)
  BY <1>1, QueryReady DEF SQLPhases, QueryFacts
<1>3. /\ pool \in PoolType /\ pool.open <= PoolSize /\ pool.open \in Int /\ pool.idle \in Nat
      /\ pool.waiting \in SUBSET Workers /\ Cardinality(pool.granted) \in Nat /\ PoolSize \in Nat
  BY <1>2, PoolNumbers, PoolSizes DEF PoolOK, PoolType
<1>4. Dialling(w) = 0
  BY <1>1 DEF Dialling
<1>5. CASE NotAcquired(w, ctx[w]) /\ UNCHANGED pool
  BY <1>1, <1>2, <1>5, NotAcquiredPhase, PoolAlone
<1>6. CASE pool.idle > 0 /\ pool' = [pool EXCEPT !.idle = @ - 1] /\ Acquired(w)
  <2>1. held'[w] = held[w] + 1 /\ phase'[w] \notin {"dial", "wait"}
    BY <1>2, <1>6, AcquiredPhase
  <2>2. /\ pool' \in PoolType /\ pool'.open = pool.open /\ pool'.opening = pool.opening
        /\ pool'.idle = pool.idle - 1
        /\ pool'.waiting = pool.waiting /\ pool'.granted = pool.granted /\ pool'.refused = pool.refused
    BY <1>3, <1>6 DEF PoolType
  <2>3. PoolOK(pool') /\ Callers(pool') = Callers(pool)
    BY <1>2, <1>3, <2>2 DEF PoolOK, Callers
  <2>4. Out(pool') = Out(pool) + 1
    BY <1>3, <2>2 DEF Out, Loose, PoolType
  <2> QED
    BY <1>1, <1>2, <1>4, <2>1, <2>3, <2>4 DEF PoolGoesOn, Dialling
<1>7. CASE /\ pool.open < PoolSize
           /\ pool' = [pool EXCEPT !.open = @ + 1] /\ GoTo(w, "dial") /\ UNCHANGED held
  <2>1. phase'[w] = "dial"
    BY <1>7 DEF GoTo, CallInv
  <2>2. /\ pool' \in PoolType /\ pool'.open = pool.open + 1 /\ pool'.opening = pool.opening
        /\ pool'.idle = pool.idle
        /\ pool'.waiting = pool.waiting /\ pool'.granted = pool.granted /\ pool'.refused = pool.refused
    BY <1>3, <1>7 DEF PoolType
  <2>3. PoolOK(pool') /\ Callers(pool') = Callers(pool)
    BY <1>2, <1>3, <1>7, <2>2 DEF PoolOK, Callers
  <2>4. Out(pool') = Out(pool) + 1
    BY <1>3, <2>2 DEF Out, Loose, PoolType
  <2> QED
    BY <1>1, <1>2, <1>4, <1>7, <2>1, <2>3, <2>4 DEF PoolGoesOn, Dialling
<1>8. CASE pool' = [pool EXCEPT !.waiting = @ \cup {w}] /\ GoTo(w, "wait") /\ UNCHANGED held
  <2>1. phase'[w] = "wait"
    BY <1>8 DEF GoTo, CallInv
  <2>2. /\ pool' \in PoolType /\ pool'.open = pool.open /\ pool'.opening = pool.opening
        /\ pool'.idle = pool.idle
        /\ pool'.waiting = pool.waiting \cup {w} /\ pool'.granted = pool.granted
        /\ pool'.refused = pool.refused
    BY <1>3, <1>8 DEF PoolType
  <2>3. PoolOK(pool') /\ Callers(pool') = Callers(pool) \cup {w}
    BY <1>2, <1>3, <2>2 DEF PoolOK, Callers
  <2>4. Out(pool') = Out(pool)
    BY <1>3, <2>2 DEF Out, Loose, PoolType
  <2>5. held'[w] = held[w] /\ Dialling(w)' = 0
    BY <1>8, <2>1 DEF Dialling
  <2> QED
    BY <1>1, <1>2, <1>4, <2>1, <2>3, <2>4, <2>5 DEF PoolGoesOn
<1> QED
  BY <1>5, <1>6, <1>7, <1>8 DEF Acquire

LEMMA DialPool ==
  ASSUME CallInv, QueryInv, PoolInv, NEW w \in Workers, Dial(w)
  PROVE  PoolGoesOn(w)
<1>1. phase[w] = "dial" /\ life' = life
  BY DEF Dial, sqlCall
<1>2. /\ QueryFacts(w) /\ held[w] \in {0, 1} /\ life = "ready" /\ PoolOK(pool) /\ Out(pool) \in Int
      /\ w \notin Callers(pool)
  BY <1>1, QueryReady DEF SQLPhases, QueryFacts
<1>3. Dialling(w) = 1
  BY <1>1 DEF Dialling
<1>4. CASE Acquired(w) /\ UNCHANGED pool
  BY <1>1, <1>2, <1>3, <1>4, AcquiredPhase DEF PoolGoesOn, Dialling
<1>5. ASSUME NEW e, NotAcquired(w, e), pool' = Refill([pool EXCEPT !.open = @ - 1])
      PROVE  PoolGoesOn(w)
  <2>1. PoolOK(pool') /\ Callers(pool') = Callers(pool) /\ Out(pool') = Out(pool) - 1
    BY <1>2, <1>5, FewerOpen, RefillKeeps
  <2> QED
    BY <1>1, <1>2, <1>3, <1>5, <2>1, NotAcquiredPhase DEF PoolGoesOn, Dialling
<1> QED
  BY <1>4, <1>5 DEF Dial

LEMMA EndWaitPool ==
  ASSUME CallInv, QueryInv, PoolInv, NEW w \in Workers, EndWait(w)
  PROVE  PoolGoesOn(w)
<1>1. phase[w] = "wait" /\ life' = life
  BY DEF EndWait
<1>2. QueryFacts(w) /\ held[w] \in {0, 1} /\ life = "ready" /\ PoolOK(pool) /\ Out(pool) \in Int
  BY <1>1, QueryReady DEF SQLPhases, QueryFacts
<1>3. /\ pool \in PoolType /\ pool.open <= PoolSize /\ pool.open \in Int /\ pool.idle \in Nat
      /\ pool.opening \in Nat
      /\ pool.waiting \in SUBSET Workers /\ pool.granted \in SUBSET Workers
      /\ pool.refused \in SUBSET Workers /\ Cardinality(pool.granted) \in Nat
      /\ pool.waiting \cap pool.granted = {} /\ pool.waiting \cap pool.refused = {}
      /\ pool.granted \cap pool.refused = {}
  BY <1>2, PoolNumbers DEF PoolOK, PoolType
<1>4. Dialling(w) = 0
  BY <1>1 DEF Dialling
<1> DEFINE taken == [pool EXCEPT !.granted = @ \ {w}]
<1>5. ASSUME w \in pool.granted
      PROVE  /\ PoolOK(taken) /\ Callers(taken) = Callers(pool) \ {w} /\ Out(taken) = Out(pool) + 1
  <2>1. /\ taken \in PoolType /\ taken.open = pool.open /\ taken.opening = pool.opening
        /\ taken.idle = pool.idle /\ taken.waiting = pool.waiting
        /\ taken.granted = pool.granted \ {w} /\ taken.refused = pool.refused
    BY <1>3 DEF PoolType
  <2> HIDE DEF taken
  <2>2. PoolOK(taken) /\ Callers(taken) = Callers(pool) \ {w}
    BY <1>3, <1>5, <2>1 DEF PoolOK, Callers
  <2>3. Cardinality(taken.granted) = Cardinality(pool.granted) - 1
    BY <1>3, <1>5, <2>1, GrantedChanges
  <2>4. Out(taken) = Out(pool) + 1
    BY <1>3, <2>1, <2>3 DEF Out, Loose
  <2> QED
    BY <2>2, <2>4
<1>6. CASE w \in pool.granted /\ pool' = taken /\ Acquired(w)
  <2> HIDE DEF taken
  <2> QED
    BY <1>1, <1>2, <1>4, <1>5, <1>6, AcquiredPhase DEF PoolGoesOn, Dialling
<1>7. ASSUME w \notin pool.granted, pool' = [pool EXCEPT !.waiting = @ \ {w}, !.refused = @ \ {w}]
      PROVE  PoolOK(pool') /\ Callers(pool') = Callers(pool) \ {w} /\ Out(pool') = Out(pool)
  <2>1. /\ pool' \in PoolType /\ pool'.open = pool.open /\ pool'.opening = pool.opening
        /\ pool'.idle = pool.idle /\ pool'.waiting = pool.waiting \ {w}
        /\ pool'.granted = pool.granted /\ pool'.refused = pool.refused \ {w}
    BY <1>3, <1>7 DEF PoolType
  <2>2. PoolOK(pool') /\ Callers(pool') = Callers(pool) \ {w}
    BY <1>3, <1>7, <2>1 DEF PoolOK, Callers
  <2>3. Out(pool') = Out(pool)
    BY <1>3, <2>1 DEF Out, Loose
  <2> QED
    BY <2>2, <2>3
<1>8. ASSUME NEW e, w \in pool.refused, pool' = [pool EXCEPT !.refused = @ \ {w}], NotAcquired(w, e)
      PROVE  PoolGoesOn(w)
  <2>1. pool' = [pool EXCEPT !.waiting = @ \ {w}, !.refused = @ \ {w}] /\ w \notin pool.granted
    BY <1>3, <1>8 DEF PoolType
  <2>2. PoolOK(pool') /\ Callers(pool') = Callers(pool) \ {w} /\ Out(pool') = Out(pool)
    BY <1>7, <2>1
  <2>3. held'[w] = held[w] /\ Dialling(w)' = 0
    BY <1>8, NotAcquiredPhase DEF Dialling
  <2> QED
    BY <1>1, <1>2, <1>4, <2>2, <2>3 DEF PoolGoesOn
<1>9. ASSUME NotAcquired(w, ctx[w]),
             pool' \in IF w \in pool.granted THEN Returned(taken, FALSE)
                       ELSE {[pool EXCEPT !.waiting = @ \ {w}, !.refused = @ \ {w}]}
      PROVE  PoolGoesOn(w)
  <2> HIDE DEF taken
  <2>1. PoolOK(pool') /\ Callers(pool') = Callers(pool) \ {w} /\ Out(pool') = Out(pool)
    <3>1. CASE w \in pool.granted
      <4>1. pool' \in Returned(taken, FALSE)
        BY <1>9, <3>1
      <4>2. /\ PoolOK(pool') /\ Callers(pool') = Callers(taken) /\ Out(pool') = Out(taken) - 1
        BY <1>5, <3>1, <4>1, ReturnedKeeps
      <4> QED
        BY <1>2, <1>5, <3>1, <4>2
    <3>2. CASE w \notin pool.granted
      BY <1>7, <1>9, <3>2
    <3> QED
      BY <3>1, <3>2
  <2> QED
    BY <1>1, <1>2, <1>4, <1>9, <2>1, NotAcquiredPhase DEF PoolGoesOn, Dialling
<1> QED
  BY <1>6, <1>8, <1>9 DEF EndWait

\* A connection given back by a call that was not waiting for another.
LEMMA ReturnedPool ==
  ASSUME CallInv, QueryInv, PoolInv, NEW w \in Workers, phase[w] \in {"running", "release"},
         life' = life, NEW broken, pool' \in Returned(pool, broken),
         held'[w] = held[w] - 1, phase'[w] \notin {"dial", "wait"}
  PROVE  PoolGoesOn(w)
<1>1. /\ held[w] \in 0 .. 2 /\ life = "ready" /\ PoolOK(pool) /\ Out(pool) \in Int
      /\ w \notin Callers(pool)
  BY QueryReady DEF SQLPhases
<1>2. PoolOK(pool') /\ Callers(pool') = Callers(pool) /\ Out(pool') = Out(pool) - 1
  BY <1>1, ReturnedKeeps
<1> QED
  BY <1>1, <1>2 DEF PoolGoesOn, Dialling

LEMMA EndStatementPool ==
  ASSUME CallInv, QueryInv, PoolInv, NEW w \in Workers, EndStatement(w)
  PROVE  PoolGoesOn(w)
<1>1. phase[w] = "running" /\ life' = life
  BY DEF EndStatement
<1>2. held \in [Workers -> 0 .. 2] /\ phase \in [Workers -> AllPhases]
  BY DEF QueryInv, QueryTypes, CallInv
<1>3. PICK next \in {"statement", "commit", "release"} : phase' = [phase EXCEPT ![w] = next]
  BY DEF EndStatement, FailQuery, FailTo, GoTo
<1>4. phase'[w] = next
  BY <1>2, <1>3
<1>5. CASE held[w] = 2
  <2>1. PICK broken \in BOOLEAN : pool' \in Returned(pool, broken)
    BY <1>5 DEF EndStatement
  <2>2. held'[w] = held[w] - 1
    BY <1>2, <1>5 DEF EndStatement
  <2> QED
    BY <1>1, <1>4, <2>1, <2>2, ReturnedPool
<1>6. CASE held[w] # 2
  <2>1. pool' = pool /\ held'[w] = held[w]
    BY <1>6 DEF EndStatement
  <2>2. life = "ready"
    BY <1>1, QueryReady DEF SQLPhases
  <2>3. held[w] \in 0 .. 2
    BY <1>2
  <2> QED
    BY <1>1, <1>4, <2>1, <2>2, <2>3, PoolAlone
<1> QED
  BY <1>5, <1>6

LEMMA ReleasePool ==
  ASSUME CallInv, QueryInv, PoolInv, NEW w \in Workers, Release(w)
  PROVE  PoolGoesOn(w)
<1>1. phase[w] = "release" /\ life' = life /\ held' = [held EXCEPT ![w] = 0] /\ GoTo(w, "classify")
  BY DEF Release, sqlCall
<1>2. PICK broken \in BOOLEAN : pool' \in Returned(pool, broken)
  BY DEF Release
<1>3. held \in [Workers -> 0 .. 2] /\ phase \in [Workers -> AllPhases]
  BY DEF QueryInv, QueryTypes, CallInv
<1>4. phase'[w] = "classify" /\ held'[w] = 0
  BY <1>1, <1>3 DEF GoTo
<1>5. held[w] = 1
  BY <1>1, QueryReady DEF SQLPhases, QueryFacts
<1> QED
  BY <1>1, <1>2, <1>4, <1>5, ReturnedPool

\* The other steps of a query leave the pool alone.
LEMMA OtherQueryPool ==
  ASSUME CallInv, QueryInv, PoolInv, NEW w \in Workers,
         \/ BeginTx(w) \/ Statement(w) \/ Commit(w) \/ Unserved(w) \/ ClassifyQuery(w) \/ LoadCount(w)
         \/ StoreCount(w) \/ RecordQuery(w)
  PROVE  PoolGoesOn(w)
<1>1. /\ pool' = pool /\ held' = held /\ life' = life
      /\ phase[w] \in {"begin", "statement", "commit", "unserved", "classify", "load", "store", "record"}
  BY DEF BeginTx, Statement, Commit, Unserved, ClassifyQuery, LoadCount, StoreCount, RecordQuery, Record,
         sqlVars
<1>2. PICK next \in {"statement", "acquire", "running", "release", "record", "load", "store", "idle"} :
        phase' = [phase EXCEPT ![w] = next] /\ (phase[w] = "record" => next = "idle")
  <2>1. CASE BeginTx(w) \/ Statement(w) \/ Commit(w)
    BY <2>1 DEF BeginTx, Statement, Commit, FailQuery, FailTo, GoTo
  <2>2. CASE Unserved(w) \/ ClassifyQuery(w)
    BY <2>2 DEF Unserved, ClassifyQuery, Decide
  <2>3. CASE LoadCount(w) \/ StoreCount(w) \/ RecordQuery(w)
    BY <2>3 DEF LoadCount, StoreCount, GoTo, RecordQuery, Record
  <2> QED
    BY <2>1, <2>2, <2>3
<1>3. phase'[w] = next /\ held[w] \in 0 .. 2
  BY <1>2 DEF CallInv, QueryInv, QueryTypes
<1>4. life # "ready" => phase'[w] \notin SQLPhases
  <2>1. CASE phase[w] = "record"
    BY <1>2, <1>3, <2>1 DEF SQLPhases
  <2>2. CASE phase[w] # "record"
    <3>1. phase[w] \in SQLPhases
      BY <1>1, <2>2 DEF SQLPhases
    <3> QED
      BY <3>1, QueryReady
  <2> QED
    BY <2>1, <2>2
<1> QED
  BY <1>1, <1>3, <1>4, PoolAlone

LEMMA QueryStepPool ==
  ASSUME CallInv, QueryInv, PoolInv, NEW w \in Workers, BeginQuery(w) \/ QueryStep(w)
  PROVE  PoolGoesOn(w)
BY BeginQueryPool, AcquirePool, DialPool, EndWaitPool, EndStatementPool, ReleasePool, OtherQueryPool
   DEF QueryStep

\* A rollback keeps its connection.
LEMMA AwaitDonePool ==
  ASSUME PoolInv, NEW w \in Workers, AwaitDone(w)
  PROVE  PoolInv'
<1>1. UNCHANGED <<phase, pool, held, life>>
  BY DEF AwaitDone, callVars
<1>2. HeldByCalls' = HeldByCalls /\ BeingDialled' = BeingDialled
  BY <1>1 DEF HeldByCalls, BeingDialled
<1> QED
  BY <1>1, <1>2 DEF PoolInv

LEMMA OpenerPool ==
  ASSUME PoolInv, Opener
  PROVE  PoolInv'
<1>1. UNCHANGED <<phase, held, life>> /\ pool.opening > 0 /\ pool' \in Opened(pool) \cup NotOpened(pool)
  BY DEF Opener, callVars
<1>2. HeldByCalls' = HeldByCalls /\ BeingDialled' = BeingDialled
  BY <1>1 DEF HeldByCalls, BeingDialled
<1>3. PoolOK(pool') /\ Callers(pool') = Callers(pool) /\ Out(pool') = Out(pool)
  BY <1>1, OpenerKeeps DEF PoolInv
<1>4. life # "new"
  BY <1>1 DEF PoolInv, EmptyPool
<1> QED
  BY <1>1, <1>2, <1>3, <1>4 DEF PoolInv, Out

\* An empty pool has nothing out.
LEMMA EmptyPoolIs ==
  PoolOK(EmptyPool) /\ Callers(EmptyPool) = {} /\ Out(EmptyPool) = 0
<1>1. Cardinality({}) = 0
  BY FS_EmptySet
<1>2. EmptyPool \in PoolType
  BY DEF EmptyPool, PoolType
<1> QED
  BY <1>1, <1>2, PoolSizes DEF PoolOK, Callers, Out, Loose, EmptyPool

\* With no call going on nothing is held or dialled.
LEMMA NothingHeld ==
  ASSUME CallInv, QueryInv, \A w \in Workers : ~Busy(w)
  PROVE  Cardinality(HeldByCalls) = 0 /\ Cardinality(BeingDialled) = 0
<1>1. ASSUME NEW w \in Workers
      PROVE  held[w] = 0 /\ phase[w] # "dial"
  BY DEF Busy, QueryInv, QueryFacts
<1>2. BeingDialled = {}
  BY <1>1 DEF BeingDialled
<1>3. HeldByCalls = {}
  BY <1>1 DEF HeldByCalls
<1> QED
  BY <1>2, <1>3, FS_EmptySet

LEMMA PrepareStepPool ==
  ASSUME CallInv, QueryInv, PoolInv, PrepareStep, UNCHANGED callVars
  PROVE  QueryInv' /\ PoolInv'
<1>1. UNCHANGED <<held, tx, stmt, runnerOf, phase, unit, err, class>>
  BY DEF PrepareStep, Ping, PrepareStatement, Prepared, Close, callVars
<1>2. QueryInv'
  BY <1>1 DEF QueryInv, QueryTypes, QueryFacts, Done, Query
<1> SUFFICES PoolInv'
  BY <1>2
<1>3. HeldByCalls' = HeldByCalls /\ BeingDialled' = BeingDialled
  BY <1>1 DEF HeldByCalls, BeingDialled
<1>4. CASE Ping
  <2>1. life = "new" /\ pool = EmptyPool /\ \A w \in Workers : phase[w] \notin SQLPhases
    BY <1>4 DEF Ping, PoolInv
  <2>2. life' \in {"preparing", "failed"}
    BY <1>4 DEF Ping
  <2>3. CASE pool' = pool
    BY <1>1, <1>3, <2>1, <2>2, <2>3 DEF PoolInv
  <2>4. CASE pool' \in HandBack([pool EXCEPT !.open = @ + 1])
    <3> DEFINE p == [pool EXCEPT !.open = @ + 1]
    <3>1. PoolOK(p) /\ Callers(p) = {} /\ Out(p) = 1
      <4>1. /\ p \in PoolType /\ p.open = 1 /\ p.opening = 0 /\ p.idle = 0
            /\ p.waiting = {} /\ p.granted = {} /\ p.refused = {}
        BY <2>1 DEF EmptyPool, PoolType
      <4> HIDE DEF p
      <4> QED
        BY <4>1, FS_EmptySet, PoolSizes DEF PoolOK, Callers, Out, Loose
    <3> HIDE DEF p
    <3>2. PoolOK(pool') /\ Callers(pool') = {} /\ Out(pool') = 0
      BY <2>4, <3>1, HandBackKeeps DEF p
    <3>3. Out(pool) = 0
      BY <2>1, EmptyPoolIs
    <3> QED
      BY <1>1, <1>3, <2>1, <2>2, <3>2, <3>3 DEF PoolInv, Out
  <2> QED
    BY <1>4, <2>3, <2>4 DEF Ping
<1>5. CASE PrepareStatement \/ Prepared
  <2>1. pool' = pool /\ life = "preparing" /\ life' # "new"
    BY <1>5 DEF PrepareStatement, Prepared
  <2>2. \A w \in Workers : phase[w] \notin SQLPhases
    BY <2>1 DEF PoolInv
  <2> QED
    BY <1>1, <1>3, <2>1, <2>2 DEF PoolInv
<1>6. CASE Close
  <2>1. life' = "closed" /\ pool' = EmptyPool /\ \A w \in Workers : ~Busy(w)
    BY <1>6 DEF Close
  <2>2. \A w \in Workers : phase'[w] \notin SQLPhases
    BY <1>1, <2>1 DEF Busy, SQLPhases
  <2> QED
    BY <1>3, <2>1, <2>2, NothingHeld, EmptyPoolIs DEF PoolInv, Out
<1> QED
  BY <1>4, <1>5, <1>6 DEF PrepareStep

-----------------------------------------------------------------------------
(* Together. *)

RunnersInv == CallInv /\ QueryInv /\ PoolInv /\ CommandInv /\ RequestInv

\* The calls of a runner are where they were.
CallsStill(runner) ==
  /\ runnerOf' = runnerOf
  /\ \A u \in Workers : runnerOf[u] = runner =>
       phase'[u] = phase[u] /\ unit'[u] = unit[u] /\ err'[u] = err[u] /\ class'[u] = class[u]

LEMMA OthersStill ==
  ASSUME NEW w \in Workers, NEW runner, Only(w), runnerOf[w] # runner
  PROVE  CallsStill(runner)
BY DEF Only, CallsStill

LEMMA QueriesStill ==
  ASSUME CallInv, CallInv', QueryInv, PoolInv, CallsStill("db"), UNCHANGED sqlVars
  PROVE  QueryInv' /\ PoolInv'
<1>1. UNCHANGED <<life, pool, held, tx, stmt, runnerOf>>
  BY DEF sqlVars, CallsStill
<1>2. QueryTypes'
  BY <1>1 DEF QueryInv, QueryTypes
<1>3. ASSUME NEW u \in Workers, runnerOf'[u] = "db"
      PROVE  QueryFacts(u)'
  <2>1. QueryFacts(u)
    BY <1>1, <1>3 DEF QueryInv
  <2> QED
    BY <1>1, <1>3, <2>1, QuerySame DEF CallsStill
<1>4. QueryInv'
  BY <1>1, <1>2, <1>3 DEF QueryInv
<1>5. ASSUME NEW u \in Workers, NEW ph \in SQLPhases
      PROVE  phase'[u] = ph <=> phase[u] = ph
  <2>1. CASE runnerOf[u] = "db"
    BY <2>1 DEF CallsStill
  <2>2. CASE runnerOf[u] # "db"
    <3>1. phase[u] # ph
      BY <2>2, PhaseRunner
    <3>2. phase'[u] # ph
      BY <1>1, <2>2, PhasesApart DEF CallInv
    <3> QED
      BY <3>1, <3>2
  <2> QED
    BY <2>1, <2>2
<1>6. BeingDialled' = BeingDialled /\ HeldByCalls' = HeldByCalls
  BY <1>1, <1>5 DEF BeingDialled, HeldByCalls, SQLPhases
<1>7. Callers(pool') \subseteq {u \in Workers : phase'[u] = "wait"}
  BY <1>1, <1>5 DEF PoolInv, SQLPhases
<1>8. \A u \in Workers : phase'[u] \in SQLPhases => life' = "ready"
  BY <1>1, <1>5 DEF PoolInv
<1> QED
  BY <1>1, <1>4, <1>6, <1>7, <1>8 DEF PoolInv

LEMMA CommandsStill ==
  ASSUME CallInv, CallInv', CommandInv, CallsStill("redis"), UNCHANGED <<inUse, attempt, replies>>
  PROVE  CommandInv'
<1>1. ASSUME NEW u \in Workers, runnerOf'[u] = "redis"
      PROVE  CommandFacts(u)'
  <2>1. CommandFacts(u)
    BY <1>1 DEF CommandInv, CallsStill
  <2> QED
    BY <1>1, <2>1, CommandSame DEF CallsStill
<1>2. ASSUME NEW u \in Workers
      PROVE  phase'[u] = "io" <=> phase[u] = "io"
  <2>1. CASE runnerOf[u] = "redis"
    BY <2>1 DEF CallsStill
  <2>2. CASE runnerOf[u] # "redis"
    <3>1. phase[u] # "io"
      BY <2>2, PhaseRunner DEF RedisPhases
    <3>2. phase'[u] # "io"
      BY <2>2, PhasesApart DEF CallInv, RedisPhases, CallsStill
    <3> QED
      BY <3>1, <3>2
  <2> QED
    BY <2>1, <2>2
<1> QED
  BY <1>1, <1>2 DEF CommandInv

LEMMA RequestsStill ==
  ASSUME CallInv, RequestInv, CallsStill("http"), UNCHANGED <<now, traceVars, outcomeVars>>
  PROVE  RequestInv'
<1>1. HTTPTypes /\ HTTPTypes' /\ now <= now' /\ now' \in Nat
  BY DEF RequestInv, HTTPTypes, traceVars, outcomeVars
<1>2. ASSUME NEW u \in Workers, runnerOf'[u] = "http"
      PROVE  RequestFacts(u)' /\ StampFacts(u)'
  <2>1. RequestFacts(u) /\ StampFacts(u)
    BY <1>2 DEF RequestInv, CallsStill
  <2>2. SameRequest(u)
    BY DEF SameRequest, traceVars, outcomeVars
  <2> QED
    BY <1>1, <1>2, <2>1, <2>2, RequestSame DEF CallsStill
<1> QED
  BY <1>1, <1>2 DEF RequestInv

\* Nothing happens to the calls.
LEMMA CallsUnchanged ==
  ASSUME UNCHANGED <<runnerOf, phase, unit, err, class>>
  PROVE  CallsStill("db") /\ CallsStill("redis") /\ CallsStill("http")
BY DEF CallsStill

\* A step of a query keeps what is so of all of them.
LEMMA QueryInvKept ==
  ASSUME CallInv, QueryInv, NEW w \in Workers, QueryGoesOn(w)
  PROVE  QueryInv'
<1> USE DEF QueryGoesOn
<1>1. ASSUME NEW u \in Workers, runnerOf'[u] = "db"
      PROVE  QueryFacts(u)'
  <2>1. CASE u = w
    BY <2>1
  <2>2. CASE u # w
    <3>1. QueryFacts(u)
      BY <1>1 DEF QueryInv, Only
    <3> QED
      BY <2>2, <3>1, QuerySame DEF Only, OnlyQuery
  <2> QED
    BY <2>1, <2>2
<1>2. \A u \in Workers : runnerOf'[u] # "db" => held'[u] = 0 /\ tx'[u] = "none"
  BY DEF QueryInv, Only, OnlyQuery
<1> QED
  BY <1>1, <1>2 DEF QueryInv

LEMMA SQLStepKeeps ==
  ASSUME RunnersInv, SQLStep
  PROVE  RunnersInv'
<1> USE DEF RunnersInv
<1>1. UNCHANGED <<redisVars, httpVars>>
  BY DEF SQLStep
<1>2. UNCHANGED <<inUse, attempt, replies, now, traceVars, outcomeVars>>
  BY <1>1 DEF redisVars, httpVars
<1>3. ASSUME NEW w \in Workers, BeginQuery(w) \/ QueryStep(w) \/ AwaitDone(w)
      PROVE  RunnersInv'
  <2>1. QueryGoesOn(w)
    BY <1>3, QueryStepGoesOn
  <2>2. CallInv' /\ QueryInv' /\ CallsStill("redis") /\ CallsStill("http")
    BY <2>1, QueryInvKept, OthersStill DEF QueryGoesOn
  <2>3. PoolInv'
    BY <1>3, <2>1, QueryStepPool, PoolInvKept, AwaitDonePool
  <2> QED
    BY <1>2, <2>2, <2>3, CommandsStill, RequestsStill
<1>4. CASE Opener
  <2>1. UNCHANGED callVars /\ UNCHANGED <<held, tx, stmt>>
    BY <1>4 DEF Opener
  <2>2. CallInv' /\ CallsStill("redis") /\ CallsStill("http")
    BY <2>1, CallsUnchanged DEF CallInv, callVars
  <2>3. QueryInv'
    BY <2>1 DEF QueryInv, QueryTypes, QueryFacts, Done, Query, callVars
  <2> QED
    BY <1>2, <1>4, <2>2, <2>3, OpenerPool, CommandsStill, RequestsStill
<1>5. CASE PrepareStep /\ UNCHANGED callVars
  <2>1. CallInv' /\ CallsStill("redis") /\ CallsStill("http")
    BY <1>5, CallsUnchanged DEF CallInv, callVars
  <2> QED
    BY <1>2, <1>5, <2>1, PrepareStepPool, CommandsStill, RequestsStill
<1> QED
  BY <1>3, <1>4, <1>5 DEF SQLStep

LEMMA RedisStepKeeps ==
  ASSUME RunnersInv, RedisStep
  PROVE  RunnersInv'
<1> USE DEF RunnersInv
<1>1. UNCHANGED <<sqlVars, httpVars>>
  BY DEF RedisStep
<1>2. UNCHANGED <<now, traceVars, outcomeVars>>
  BY <1>1 DEF httpVars
<1>3. ASSUME NEW w \in Workers, BeginCommand(w) \/ CommandStep(w)
      PROVE  RunnersInv'
  <2>1. CommandGoesOn(w)
    BY <1>3, CommandStepGoesOn
  <2>2. CallInv' /\ CommandInv' /\ CallsStill("db") /\ CallsStill("http")
    BY <2>1, CommandInvKept, OthersStill DEF CommandGoesOn
  <2> QED
    BY <1>1, <1>2, <2>2, QueriesStill, RequestsStill
<1>4. CASE (RedisPing \/ RedisClose) /\ UNCHANGED callVars
  <2>1. CallInv' /\ CallsStill("db") /\ CallsStill("redis") /\ CallsStill("http")
    BY <1>4, CallsUnchanged DEF CallInv, callVars
  <2>2. UNCHANGED <<inUse, attempt, replies>>
    BY <1>4 DEF RedisPing, RedisClose
  <2> QED
    BY <1>1, <1>2, <2>1, <2>2, QueriesStill, CommandsStill, RequestsStill
<1> QED
  BY <1>3, <1>4 DEF RedisStep

LEMMA HTTPStepKeeps ==
  ASSUME RunnersInv, HTTPStep
  PROVE  RunnersInv'
<1> USE DEF RunnersInv
<1>1. UNCHANGED <<sqlVars, redisVars>>
  BY DEF HTTPStep
<1>2. UNCHANGED <<inUse, attempt, replies>>
  BY <1>1 DEF redisVars
<1>3. ASSUME NEW w \in Workers, BeginRequest(w) \/ RequestStep(w)
      PROVE  RunnersInv'
  <2>1. RequestGoesOn(w)
    BY <1>3, RequestStepGoesOn
  <2>2. CallInv' /\ RequestInv' /\ CallsStill("db") /\ CallsStill("redis")
    BY <2>1, RequestInvKept, OthersStill DEF RequestGoesOn
  <2> QED
    BY <1>1, <1>2, <2>2, QueriesStill, CommandsStill
<1>4. ASSUME NEW w \in Workers, DialEnds(w)
      PROVE  RunnersInv'
  <2>1. CallsStill("db") /\ CallsStill("redis")
    BY <1>4, CallsUnchanged DEF DialEnds, callVars
  <2> QED
    BY <1>1, <1>2, <1>4, <2>1, DialEndsStep, QueriesStill, CommandsStill
<1>5. CASE (Preflight \/ Preflighted \/ HTTPClose) /\ UNCHANGED callVars
  <2>1. CallInv' /\ CallsStill("db") /\ CallsStill("redis") /\ CallsStill("http")
    BY <1>5, CallsUnchanged DEF CallInv, callVars
  <2>2. UNCHANGED <<now, traceVars, outcomeVars>>
    BY <1>5 DEF Preflight, Preflighted, HTTPClose
  <2> QED
    BY <1>1, <1>2, <2>1, <2>2, QueriesStill, CommandsStill, RequestsStill
<1> QED
  BY <1>3, <1>4, <1>5 DEF HTTPStep

\* What keeps the runners' variables and the phases of the calls keeps the invariant.
LEMMA StillKeeps ==
  ASSUME RunnersInv, CallInv', UNCHANGED <<runnerOf, phase, unit, err, class>>,
         UNCHANGED <<sqlVars, redisVars, httpVars>>
  PROVE  RunnersInv'
<1>1. CallsStill("db") /\ CallsStill("redis") /\ CallsStill("http")
  BY CallsUnchanged
<1>2. UNCHANGED <<inUse, attempt, replies, now, traceVars, outcomeVars>>
  BY DEF redisVars, httpVars
<1> QED
  BY <1>1, <1>2, QueriesStill, CommandsStill, RequestsStill DEF RunnersInv

LEMMA RunnersStep ==
  ASSUME RunnersInv, [Next]_vars
  PROVE  RunnersInv'
<1>1. CASE ContextStep
  <2>1. CallInv' /\ UNCHANGED <<runnerOf, phase, unit, err, class>>
    BY <1>1, ContextDoes DEF ContextStep, RunnersInv
  <2> QED
    BY <1>1, <2>1, StillKeeps DEF ContextStep
<1>2. CASE UNCHANGED vars
  <2>1. CallInv' /\ UNCHANGED <<runnerOf, phase, unit, err, class>>
    BY <1>2 DEF vars, callVars, CallInv, RunnersInv
  <2> QED
    BY <1>2, <2>1, StillKeeps DEF vars
<1>3. CASE Closed
  BY <1>2, <1>3 DEF Closed
<1> QED
  BY <1>1, <1>2, <1>3, SQLStepKeeps, RedisStepKeeps, HTTPStepKeeps DEF Next

LEMMA RunnersStart ==
  ASSUME Init([Workers -> RunnerNames])
  PROVE  RunnersInv
<1> USE DEF Init
<1>1. \A w \in Workers : /\ phase[w] = "idle" /\ unit[w] = 1 /\ err[w] = "none" /\ class[w] = "none"
                         /\ held[w] = 0 /\ tx[w] = "none" /\ stmt[w] = 1 /\ replies[w] = <<>>
  BY DEF CallInit, SQLInit, RedisInit
<1>2. CallInv
  <2>1. "idle" \in AllPhases /\ "none" \in Errors /\ "live" \in Contexts
    BY DEF AllPhases, Errors, Contexts
  <2>2. \A runner : "idle" \in PhasesOf(runner)
    BY DEF PhasesOf
  <2> QED
    BY <2>1, <2>2 DEF CallInit, CallInv
<1>3. QueryInv
  <2>1. QueryTypes
    BY DEF SQLInit, QueryTypes, TxStates
  <2>2. \A w \in Workers : QueryFacts(w)
    BY <1>1, TheQueries DEF QueryFacts, Done, Query, SQLPhases
  <2> QED
    BY <1>1, <2>1, <2>2 DEF QueryInv
<1>4. PoolInv
  <2>1. pool = EmptyPool
    BY DEF SQLInit
  <2>2. Cardinality(HeldByCalls) = 0 /\ Cardinality(BeingDialled) = 0
    BY <1>1, <1>2, <1>3, NothingHeld DEF Busy
  <2> QED
    BY <1>1, <2>1, <2>2, EmptyPoolIs DEF PoolInv, Out, SQLPhases
<1>5. CommandInv
  <2>1. \A w \in Workers : CommandFacts(w)
    BY <1>1, TheCommands DEF CommandFacts
  <2>2. inUse = {} /\ inUse = {w \in Workers : phase[w] = "io"}
    BY <1>1 DEF RedisInit
  <2>3. RedisPoolSize \in Nat
    BY CommandAssumption, CallAssumption, FS_CardinalityType DEF RedisPoolSize
  <2>4. <<>> \in Seq(Replies)
    OBVIOUS
  <2> QED
    BY <2>1, <2>2, <2>3, <2>4, FS_EmptySet DEF CommandInv, RedisInit
<1>6. RequestInv
  <2> USE DEF HTTPInit, ForAll
  <2>1. HTTPTypes
    BY DEF HTTPTypes, NoPhases, PhasesType
  <2>2. ASSUME NEW w \in Workers
        PROVE  RequestFacts(w) /\ StampFacts(w)
    <3>1. status[w] = 0 /\ overLimit[w] = FALSE /\ firstByte[w] = 0 /\ started[w] = 0 /\ now = 1
      OBVIOUS
    <3>2. \A s \in Stamps : trace[w][s] = 0
      OBVIOUS
    <3> HIDE DEF HTTPInit, ForAll
    <3>3. RequestFacts(w)
      BY <1>1, <3>1, TheRequests DEF RequestFacts, HTTPPhases
    <3>4. StampFacts(w)
      BY <1>1, <3>1, <3>2 DEF StampFacts
    <3> QED
      BY <3>3, <3>4
  <2> QED
    BY <2>1, <2>2 DEF RequestInv
<1> QED
  BY <1>2, <1>3, <1>4, <1>5, <1>6 DEF RunnersInv

THEOREM RunnersInvariant == Spec => []RunnersInv
<1>1. Init([Workers -> RunnerNames]) => RunnersInv
  BY RunnersStart
<1>2. RunnersInv /\ [Next]_vars => RunnersInv'
  BY RunnersStep
<1> QED
  BY <1>1, <1>2, PTL DEF Spec

-----------------------------------------------------------------------------
(* The promises. *)

\* No connection is lost and none is used twice, whatever errors, deadlines and late
\* grants meet (the paths of sqlrun's Do, execute and runStatement, and redisrun's Do).
THEOREM NoConnectionIsLost == Spec => []ConnectionsConserved
<1>1. ASSUME RunnersInv
      PROVE  ConnectionsConserved
  <2>1. pool.open = pool.idle + Cardinality(HeldByCalls) + Cardinality(pool.granted)
                    + Cardinality(BeingDialled) + pool.opening
    <3>1. /\ pool.open \in Int /\ pool.idle \in Nat /\ pool.opening \in Nat
          /\ Cardinality(pool.granted) \in Nat
      BY <1>1, PoolNumbers DEF RunnersInv, PoolInv, PoolOK, PoolType
    <3>2. Cardinality(HeldByCalls) \in Nat
      <4>1. held \in [Workers -> 0 .. 2]
        BY <1>1 DEF RunnersInv, QueryInv, QueryTypes
      <4>2. \A u \in Workers : 1 .. held[u] \subseteq 1 .. 2
        BY <4>1
      <4>3. HeldByCalls \subseteq Workers \X (1 .. 2)
        BY <4>2 DEF HeldByCalls
      <4> QED
        BY <4>3, AtMostTwo, FS_Subset, FS_CardinalityType
    <3>3. BeingDialled \in SUBSET Workers
      BY DEF BeingDialled
    <3>4. Cardinality(BeingDialled) \in Nat
      BY <3>3, WorkersFinite
    <3> QED
      BY <1>1, <3>1, <3>2, <3>4 DEF RunnersInv, PoolInv, Loose
  <2>2. \A w \in Workers : phase[w] = "idle" => held[w] = 0 /\ tx[w] # "open"
    BY <1>1 DEF RunnersInv, QueryInv, QueryFacts
  <2>3. pool.waiting \cup pool.granted \cup pool.refused \subseteq {w \in Workers : phase[w] = "wait"}
    BY <1>1 DEF RunnersInv, PoolInv, Callers
  <2>4. inUse = {w \in Workers : phase[w] = "io"}
    BY <1>1 DEF RunnersInv, CommandInv
  <2> QED
    BY <2>1, <2>2, <2>3, <2>4 DEF ConnectionsConserved
<1> QED
  BY <1>1, RunnersInvariant, PTL

\* A success is a success of everything the unit asked for, and nothing that took effect
\* is reported as a failure (the classification at the end of each runner's Do).
THEOREM SuccessIsEarned == Spec => []OkIsEarned
<1>1. ASSUME RunnersInv
      PROVE  OkIsEarned
  <2> SUFFICES ASSUME NEW w \in Workers, phase[w] = "record"
               PROVE  CASE runnerOf[w] = "db" ->
                             class[w] = "ok" <=> Done(w)
                        [] runnerOf[w] = "redis" ->
                             class[w] = "ok" <=> /\ replies[w] # <<>>
                                                 /\ \A i \in DOMAIN replies[w] : replies[w][i] # "refusal"
                        [] runnerOf[w] = "http" ->
                             class[w] = "ok" <=> /\ err[w] = "none" /\ ~overLimit[w]
                                                 /\ status[w] \in IF Request(w).expect = {} THEN 200 .. 399
                                                                  ELSE Request(w).expect
    BY DEF OkIsEarned, Done
  <2>1. runnerOf[w] \in {"db", "redis", "http"}
    BY <1>1 DEF RunnersInv, CallInv, RunnerNames
  <2>2. runnerOf[w] = "db" => (class[w] = "ok" <=> Done(w))
    BY <1>1 DEF RunnersInv, QueryInv, QueryFacts
  <2>3. runnerOf[w] = "redis" =>
          (class[w] = "ok" <=> /\ replies[w] # <<>>
                               /\ \A i \in DOMAIN replies[w] : replies[w][i] # "refusal")
    BY <1>1 DEF RunnersInv, CommandInv, CommandFacts
  <2>4. runnerOf[w] = "http" =>
          (class[w] = "ok" <=> /\ err[w] = "none" /\ ~overLimit[w]
                               /\ status[w] \in IF Request(w).expect = {} THEN 200 .. 399
                                                ELSE Request(w).expect)
    BY <1>1 DEF RunnersInv, RequestInv, RequestFacts
  <2> QED
    BY <2>1, <2>2, <2>3, <2>4
<1> QED
  BY <1>1, RunnersInvariant, PTL

\* The phases of a request account for its time, through redirects, retried idle
\* connections and the callbacks of dials that lost (trace.go, phases; the stamps of
\* httprun's Do).
THEOREM TimesAddUp == Spec => []PhasesAddUp
<1>1. ASSUME RunnersInv
      PROVE  PhasesAddUp
  <2> SUFFICES ASSUME NEW w \in Workers,
                      runnerOf[w] = "http", phase[w] = "record", firstByte[w] > 0
               PROVE  LET p == phases[w]
                      IN  /\ p.connWait + p.ttfb + p.transfer = ended[w] - trace[w].getConn
                          /\ p.ttfb + p.transfer = ended[w] - connAcquired[w]
                          /\ started[w] <= connAcquired[w] /\ connAcquired[w] <= firstByte[w]
                          /\ firstByte[w] <= ended[w]
    BY DEF PhasesAddUp
  <2> DEFINE g == trace[w].getConn
             c == trace[w].gotConn
             b == trace[w].firstByte
             e == ended[w]
  <2>1. g \in Nat /\ c \in Nat /\ b \in Nat /\ e \in Nat /\ started[w] \in Nat
    BY <1>1 DEF RunnersInv, RequestInv, HTTPTypes, Stamps
  <2>2. StampFacts(w)
    BY <1>1 DEF RunnersInv, RequestInv
  <2>3. /\ haveConn[w] /\ g <= c /\ c <= b /\ b <= e /\ b > 0 /\ started[w] <= c
        /\ connAcquired[w] = c /\ firstByte[w] = b /\ phases[w] = Phases(w, e)
    BY <2>2 DEF StampFacts
  <2>4. /\ phases[w].connWait = Since(g, c) /\ phases[w].ttfb = Since(c, b)
        /\ phases[w].transfer = Since(b, e)
    BY <2>3 DEF Phases
  <2> HIDE DEF g, c, b, e
  <2>5. Since(g, c) = c - g /\ Since(c, b) = b - c /\ Since(b, e) = e - b
    BY <2>1, <2>3 DEF Since
  <2>6. /\ phases[w].connWait + phases[w].ttfb + phases[w].transfer = e - g
        /\ phases[w].ttfb + phases[w].transfer = e - c
    BY <2>1, <2>4, <2>5
  <2> QED
    BY <2>3, <2>6 DEF g, c, b, e
<1> QED
  BY <1>1, RunnersInvariant, PTL

\* The pools are limits: neither database/sql nor the Redis client ever has more
\* connections than configured, or than there are workers when nothing is (configurePool,
\* clientOptions).
THEOREM PoolsAreLimits ==
  Spec => [](pool.open <= PoolSize /\ Cardinality(inUse) <= RedisPoolSize)
<1>1. RunnersInv => pool.open <= PoolSize /\ Cardinality(inUse) <= RedisPoolSize
  BY DEF RunnersInv, PoolInv, PoolOK, CommandInv
<1> QED
  BY <1>1, RunnersInvariant, PTL
=============================================================================
