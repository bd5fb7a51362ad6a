------------------------------- MODULE Config -------------------------------
(***************************************************************************)
(* internal/config: what becomes of a document between the file and the    *)
(* run.  It is loaded, overridden, defaulted, validated and judged against *)
(* the policy, in this order.                                              *)
(*                                                                         *)
(* A configuration has the source's shape: run, slo, safety and the three  *)
(* runner sections, a section being a set of at most one record.  A field  *)
(* the document leaves out has the zero of its type: 0, "", <<>> or {}.    *)
(* Durations are in seconds.  A host stands for an address with its port.  *)
(***************************************************************************)
EXTENDS Policy, SequencesExt, FiniteSetsExt

Only(S) == CHOOSE x \in S : TRUE
Or(value, zero, default) == IF value = zero THEN default ELSE value

Listed(cfg, name) == IF cfg[name] = {} THEN <<>> ELSE <<name>>
RunnersOf(cfg) == Listed(cfg, "http") \o Listed(cfg, "db") \o Listed(cfg, "redis")
Configured(cfg) == ToSet(RunnersOf(cfg))
Section(cfg, name) == Only(cfg[name])
ExecutorOf(cfg, name) == Section(cfg, name).executor

-----------------------------------------------------------------------------
(* Loading *)

\* A source is a file or standard input: whether it is found and read, whether every
\* reference to the environment has a value, whether the text parses, which fields it
\* has, whether they decode, its version, and the configuration it says.
ReadProblems(src) ==
  When(~src.found, "CONFIG_NOT_FOUND") \cup When(src.found /\ ~src.readable, "IO_READ_FAILED")

LoadSteps(src) ==
  <<ReadProblems(src), When(~src.interpolates, "CONFIG_ENV_UNSET"),
    When(~src.parses, "CONFIG_PARSE"), When(~src.known, "CONFIG_UNKNOWN_FIELD"),
    When(~src.decodes, "CONFIG_INVALID_VALUE"),
    When(src.version # Version, "CONFIG_VERSION_UNSUPPORTED")>>

\* The first step that finds a problem ends the load.
FirstProblems(steps) ==
  LET failing == {i \in DOMAIN steps : steps[i] # {}}
  IN IF failing = {} THEN {} ELSE steps[Min(failing)]

-----------------------------------------------------------------------------
(* Shapes *)

NoExecutor == [type |-> "", rate |-> 0, vus |-> 0, stages |-> <<>>, maxInFlight |-> 0,
               queueDepth |-> {}, pick |-> ""]
EmptyHTTP == [executor |-> NoExecutor, baseHost |-> "", requests |-> <<>>, journeys |-> <<>>,
              feeders |-> <<>>, insecure |-> FALSE]
EmptyDB == [executor |-> NoExecutor, driver |-> "", dsn |-> FALSE, host |-> "", queries |-> <<>>,
            maxOpen |-> 0]
EmptyRedis == [executor |-> NoExecutor, mode |-> "", addr |-> "", addrs |-> <<>>,
               masterName |-> "", commands |-> <<>>, insecure |-> FALSE, poolSize |-> 0]
EmptySection == [http |-> EmptyHTTP, db |-> EmptyDB, redis |-> EmptyRedis]

\* What the Go types make of a document, whatever it says: numbers where numbers are
\* asked for, lists where lists are, and at most one section of a kind.
Stages == [duration : Int, target : Int]
IsExecutor(e) ==
  /\ e = [type |-> e.type, rate |-> e.rate, vus |-> e.vus, stages |-> e.stages,
          maxInFlight |-> e.maxInFlight, queueDepth |-> e.queueDepth, pick |-> e.pick]
  /\ {e.rate, e.vus, e.maxInFlight} \cup e.queueDepth \subseteq Int
  /\ e.stages \in Seq(Stages)
IsRun(run) ==
  /\ run = [duration |-> run.duration, bucket |-> run.bucket, warmup |-> run.warmup,
            grace |-> run.grace, timeout |-> run.timeout, minSamples |-> run.minSamples,
            arrival |-> run.arrival]
  /\ {run.duration, run.bucket, run.warmup, run.grace, run.timeout, run.minSamples} \subseteq Int

\* The list of what a runner does.  An item that cannot be compiled has the code of that;
\* the codes of a result are none of those.
Verdicts == {"SLO_BREACH", "RUN_INVALID"}
ItemsField == [http |-> "requests", db |-> "queries", redis |-> "commands"]
IsItems(list) ==
  /\ DOMAIN list = 1..Len(list) /\ Len(list) \in Nat
  /\ \A i \in DOMAIN list : "flaw" \in DOMAIN list[i] /\ list[i].flaw \cap Verdicts = {}

IsSection(name, s) ==
  /\ DOMAIN s = DOMAIN EmptySection[name]
  /\ IsExecutor(s.executor)
  /\ IsItems(s[ItemsField[name]])

IsConfig(cfg) ==
  /\ DOMAIN cfg = {"run", "slo", "safety"} \cup DOMAIN EmptySection
  /\ IsRun(cfg.run) /\ IsWish(cfg.safety)
  /\ \A name \in DOMAIN EmptySection :
       cfg[name] = {} \/ \E s \in cfg[name] : cfg[name] = {s} /\ IsSection(name, s)

-----------------------------------------------------------------------------
(* Overrides *)

\* An override is [isPair, path, fits, value]: a path of segments, and the value as its
\* destination's type reads it, if it fits that type.  A segment is [name, selector, index];
\* one that picks an item of a list has the item's name or its index, from 0.
Picked(list, seg) ==
  IF seg.index # {} THEN {Only(seg.index) + 1} \cap DOMAIN list
  ELSE {i \in DOMAIN list : "name" \in DOMAIN list[i] /\ list[i].name = Only(seg.selector)}
Picks(seg) == seg.selector \cup seg.index # {}

Blocked(v, seg) ==
  IF seg.name \notin DOMAIN v THEN {"SET_UNKNOWN_PATH"}
  ELSE When(Picks(seg) /\ Picked(v[seg.name], seg) = {}, "SET_INDEX_NOT_FOUND")

\* What a segment leads to; a section that does not exist yet is created on the way.
Inner(v, seg) ==
  LET held == v[seg.name]
  IN IF Picks(seg) THEN held[Min(Picked(held, seg))]
     ELSE IF seg.name \notin DOMAIN EmptySection THEN held
     ELSE IF held = {} THEN EmptySection[seg.name] ELSE Only(held)

Put(v, seg, x) ==
  IF Picks(seg) THEN [v EXCEPT ![seg.name][Min(Picked(v[seg.name], seg))] = x]
  ELSE [v EXCEPT ![seg.name] = IF seg.name \in DOMAIN EmptySection THEN {x} ELSE x]

\* The one way down the path, which ends at the first segment that leads nowhere: where
\* it has come to, and what it has passed.
Below(at, seg) ==
  IF at.problems # {} THEN at
  ELSE IF Blocked(at.here, seg) # {} THEN [at EXCEPT !.problems = Blocked(at.here, seg)]
  ELSE [here |-> Inner(at.here, seg), problems |-> {},
        above |-> Append(at.above, [holder |-> at.here, seg |-> seg])]
Descend(ways, seg) == {Below(at, seg) : at \in ways}

Assign(at, o) ==
  IF at.problems # {} THEN at
  ELSE IF o.fits THEN [at EXCEPT !.here = o.value]
  ELSE [at EXCEPT !.problems = {"SET_TYPE_MISMATCH"}]

\* A section that was created stays, whatever becomes of the rest of the path.
SetPath(v, path, o) ==
  LET down == FoldLeft(Descend, {[here |-> v, problems |-> {}, above |-> <<>>]}, path)
      end  == Assign(Only(down), o)
  IN [value |-> FoldRight(LAMBDA up, x : Put(up.holder, up.seg, x), end.above, end.here),
      problems |-> end.problems]

\* Every override is tried, in order, on what the ones before it left.
ApplyOne(acc, o) ==
  LET set == IF o.isPair THEN SetPath(acc.value, o.path, o)
             ELSE [value |-> acc.value, problems |-> {"SET_PARSE"}]
  IN [value |-> set.value, problems |-> acc.problems \cup set.problems]

ApplySet(cfg, overrides) == FoldLeft(ApplyOne, [value |-> cfg, problems |-> {}], overrides)

-----------------------------------------------------------------------------
(* Defaults *)

DefaultMaxInFlight == 256
DefaultQueueDepth == 64

ExecutorDefaults(e, runDuration) ==
  LET type  == Or(e.type, "", "arrival-rate")
      open  == type = "arrival-rate"
      level == IF open THEN e.rate ELSE e.vus
  IN [e EXCEPT
        !.type = type,
        !.maxInFlight = IF open THEN Or(@, 0, DefaultMaxInFlight) ELSE @,
        !.queueDepth = IF open THEN Or(@, {}, {DefaultQueueDepth}) ELSE @,
        !.pick = IF type = "vus" THEN Or(@, "", "per-iteration") ELSE @,
        !.stages = IF @ = <<>> /\ type \in {"arrival-rate", "vus"} /\ level > 0
                   THEN <<[duration |-> runDuration, target |-> level]>> ELSE @]

StepDefaults(step) ==
  [step EXCEPT !.extracts = [i \in DOMAIN @ |-> [@[i] EXCEPT !.from = Or(@, "", "body")]]]

DriverNames == [postgresql |-> "postgres", pg |-> "postgres", mariadb |-> "mysql",
                sqlite3 |-> "sqlite"]
NormaliseDriver(name) == IF name \in DOMAIN DriverNames THEN DriverNames[name] ELSE name

SectionDefaults(name, s, runDuration) ==
  LET e == [s EXCEPT !.executor = ExecutorDefaults(@, runDuration)]
  IN CASE name = "http" ->
            [e EXCEPT !.requests = [i \in DOMAIN @ |-> StepDefaults(@[i])],
                      !.journeys = [i \in DOMAIN @ |->
                        [@[i] EXCEPT !.steps = [k \in DOMAIN @ |-> StepDefaults(@[k])]]],
                      !.feeders = [i \in DOMAIN @ |->
                        [@[i] EXCEPT !.mode = Or(@, "", "sequential")]]]
       [] name = "db" -> [e EXCEPT !.driver = NormaliseDriver(@)]
       [] name = "redis" -> [e EXCEPT !.mode = Or(@, "", "single")]

ApplyDefaults(cfg) ==
  LET run == [cfg.run EXCEPT !.duration = Or(@, 0, 60), !.bucket = Or(@, 0, 1),
                             !.grace = Or(@, 0, 30), !.timeout = Or(@, 0, 10),
                             !.minSamples = Or(@, 0, 20), !.arrival = Or(@, "", "uniform")]
  IN [key \in DOMAIN cfg |->
        IF key = "run" THEN run
        ELSE IF key \in DOMAIN EmptySection
             THEN {SectionDefaults(key, s, run.duration) : s \in cfg[key]}
             ELSE cfg[key]]

\* `rate: 40` holds 40 from the first instant; a list of stages ramps up from nothing.
StartRate(e) ==
  CASE e.rate > 0 /\ Len(e.stages) = 1 /\ e.stages[1].target = e.rate -> e.rate
    [] e.vus > 0 /\ Len(e.stages) = 1 /\ e.stages[1].target = e.vus -> e.vus
    [] OTHER -> 0

AddDuration(total, s) == total + s.duration
TotalDuration(e) == FoldLeft(AddDuration, 0, e.stages)
=============================================================================
