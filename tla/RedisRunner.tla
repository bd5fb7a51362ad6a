---------------------------- MODULE RedisRunner ----------------------------
(***************************************************************************)
(* The Redis runner (internal/runner/redisrun): Prepare, and Do with its   *)
(* command or pipeline and its two counters.                               *)
(*                                                                         *)
(* The client owns the pool.  It queues for a turn until the context ends  *)
(* or its own pool timeout passes, exchanges the bytes without looking at  *)
(* the context again, and sends everything once more, up to MaxRetries     *)
(* times, when the exchange broke; between two attempts it sleeps under    *)
(* the context.                                                            *)
(***************************************************************************)
EXTENDS RunnerCall

CONSTANTS
  Commands,     \* the configured units, see CommandType
  RedisPool,    \* redis.pool.size, 0 when it is not set
  MaxRetries    \* the client's retries after the first attempt

\* A unit: its declared type, its weight, whether it is a pipeline, and for each of its
\* commands what the classifier says and whether an argument cannot be rendered.
CommandType == [type : {"", "read", "write"}, weight : Int, isPipeline : BOOLEAN,
                parts : Seq([op : {"read", "write"}, unbound : BOOLEAN])]

ASSUME CommandAssumption ==
  /\ Commands \in Seq(CommandType) /\ Commands # <<>>
  /\ \A i \in DOMAIN Commands :
       Commands[i].parts # <<>> /\ (Commands[i].isPipeline \/ Len(Commands[i].parts) = 1)
  /\ RedisPool \in Int /\ MaxRetries \in Nat

\* What one command of a unit was answered with.
Replies == {"value", "nil", "refusal"}

VARIABLES
  client,       \* "new", "ready", "failed" or "closed"
  inUse,        \* the workers that hold one of the client's connections
  attempt,      \* how many times each call has sent its unit again
  replies,      \* what the commands of its unit were answered with
  redisCounts,  \* the reads and writes of Counts
  redisLoaded   \* the value each worker has read of the counter it raises

redisVars == <<client, inUse, attempt, replies, redisCounts, redisLoaded>>

RedisWeights == [i \in DOMAIN Commands |-> Commands[i].weight]
Command(w)   == Commands[unit[w]]

\* clientOptions
RedisPoolSize == IF RedisPool > 0 THEN RedisPool ELSE Cardinality(Workers)

CommandOp(command) ==
  IF command.type # "" THEN command.type
  ELSE IF \E i \in DOMAIN command.parts : command.parts[i].op = "write" THEN "write" ELSE "read"

RedisInit ==
  /\ client = "new"
  /\ inUse = {}
  /\ attempt = [w \in Workers |-> 0]
  /\ replies = [w \in Workers |-> <<>>]
  /\ redisCounts = [op \in {"read", "write"} |-> 0]
  /\ redisLoaded = [w \in Workers |-> 0]

\* Prepare, and Close after the run.
RedisPing ==
  /\ client = "new"
  /\ client' \in {"ready", "failed"}
  /\ UNCHANGED <<inUse, attempt, replies, redisCounts, redisLoaded>>

RedisClose ==
  /\ client \in {"ready", "failed"} /\ \A w \in Workers : ~Busy(w)
  /\ client' = "closed"
  /\ UNCHANGED <<inUse, attempt, replies, redisCounts, redisLoaded>>

BeginCommand(w) ==
  /\ client = "ready"
  /\ Begin(w, "redis", RedisWeights, "render")
  /\ UNCHANGED redisVars

\* Arguments that do not render end the call: the outcome is filed, nothing counted.
Render(w) ==
  /\ phase[w] = "render"
  /\ IF \E i \in DOMAIN Command(w).parts : Command(w).parts[i].unbound
     THEN Decide(w, "extract_failed", "record")
     ELSE GoTo(w, "turn")
  /\ UNCHANGED redisVars

\* The client waits for its turn in the pool.
Turn(w) ==
  /\ phase[w] = "turn"
  /\ \/ /\ ctx[w] = "live" /\ Cardinality(inUse) < RedisPoolSize
        /\ inUse' = inUse \cup {w}
        /\ GoTo(w, "io")
     \/ /\ ctx[w] # "live"
        /\ FailTo(w, ctx[w], "sent") /\ UNCHANGED inUse
     \/ /\ Cardinality(inUse) >= RedisPoolSize     \* the client's pool timeout
        /\ FailTo(w, "pool timeout", "broken") /\ UNCHANGED inUse
  /\ UNCHANGED <<client, attempt, replies, redisCounts, redisLoaded>>

\* The exchange ends: with one reply per command, or broken off with some of the
\* commands perhaps executed.  The first reply that is not a value is the error.
FirstError(rs) ==
  LET bad == {i \in DOMAIN rs : rs[i] # "value"}
  IN  IF bad = {} THEN "none" ELSE rs[CHOOSE i \in bad : \A j \in bad : i <= j]

Exchange(w) ==
  /\ phase[w] = "io"
  /\ inUse' = inUse \ {w}
  /\ \/ \E rs \in [DOMAIN Command(w).parts -> Replies] :
          /\ replies' = [replies EXCEPT ![w] = rs]
          /\ FailTo(w, FirstError(rs), "sent")
     \/ \E e \in {"eof", "i/o timeout"} : FailTo(w, e, "broken") /\ UNCHANGED replies
  /\ UNCHANGED <<client, attempt, redisCounts, redisLoaded>>

\* The client tries again, after a sleep that the end of the context cuts short.
Retry(w) ==
  /\ phase[w] = "broken"
  /\ IF attempt[w] = MaxRetries THEN GoTo(w, "sent") /\ UNCHANGED attempt
     ELSE IF ctx[w] # "live" THEN FailTo(w, ctx[w], "sent") /\ UNCHANGED attempt
     ELSE /\ attempt' = [attempt EXCEPT ![w] = @ + 1]
          /\ FailTo(w, "none", "turn")
  /\ UNCHANGED <<client, inUse, replies, redisCounts, redisLoaded>>

\* Mutant of Executed: the error of the pipeline is taken for the error of all of it.
ExecutedFirst(w) == IF err[w] \notin {"none", "nil"} THEN err[w] ELSE "none"

\* execute, once the client has answered: an absent key is no error, and in a pipeline
\* it must not hide the refusal of a later command.
Executed(w) ==
  IF err[w] \notin {"none", "nil"} THEN err[w]
  ELSE IF Command(w).isPipeline /\ \E i \in DOMAIN replies[w] : replies[w][i] = "refusal"
  THEN "refusal" ELSE "none"

ClassifyRedisError(context, e) ==
  CASE e = "deadline" -> "timeout"
    [] e = "canceled" -> "canceled"
    [] OTHER -> IF context # "live" THEN "canceled"
                ELSE CASE e = "eof" -> "connection"
                       [] e = "pool timeout" -> "pool_timeout"
                       [] e = "i/o timeout" -> "timeout"
                       [] OTHER -> "query_error"

ClassifyCommand(w) ==
  /\ phase[w] = "sent"
  /\ Decide(w, IF Executed(w) = "none" THEN "ok" ELSE ClassifyRedisError(ctx[w], Executed(w)),
            "loadRedis")
  /\ UNCHANGED redisVars

\* r.writes++ or r.reads++, without a lock.
LoadRedisCount(w) ==
  /\ phase[w] = "loadRedis"
  /\ redisLoaded' = [redisLoaded EXCEPT ![w] = redisCounts[CommandOp(Command(w))]]
  /\ GoTo(w, "storeRedis")
  /\ UNCHANGED <<client, inUse, attempt, replies, redisCounts>>

StoreRedisCount(w) ==
  /\ phase[w] = "storeRedis"
  /\ redisCounts' = [redisCounts EXCEPT ![CommandOp(Command(w))] = redisLoaded[w] + 1]
  /\ GoTo(w, "record")
  /\ UNCHANGED <<client, inUse, attempt, replies, redisLoaded>>

RecordCommand(w) ==
  /\ runnerOf[w] = "redis" /\ Record(w)
  /\ attempt' = [attempt EXCEPT ![w] = 0] /\ replies' = [replies EXCEPT ![w] = <<>>]
  /\ redisLoaded' = [redisLoaded EXCEPT ![w] = 0]
  /\ UNCHANGED <<client, inUse, redisCounts>>

CommandStep(w) ==
  \/ Render(w) \/ Turn(w) \/ Exchange(w) \/ Retry(w)
  \/ ClassifyCommand(w) \/ LoadRedisCount(w) \/ StoreRedisCount(w) \/ RecordCommand(w)

=============================================================================
