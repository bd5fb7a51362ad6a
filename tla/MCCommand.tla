------------------------------ MODULE MCCommand ------------------------------
(* Small instances of Command: a dozen documents, each good for one thing, under the
   three commands. *)
EXTENDS Command

Local   == [id |-> "a1", scope |-> "loopback"]
Private == [id |-> "a2", scope |-> "private"]
Public  == [id |-> "a3", scope |-> "public"]
AnswerSets == [self |-> {{Local}}, api |-> {{Private, Local}, {Public}, {}}, store |-> {{Private}, {}}]
LiteralHosts == {"self"}
Limited == [cpus |-> 1, openFiles |-> {700}]

Quick == [lag |-> 0, drops |-> FALSE, fails |-> FALSE, rises |-> FALSE, limited |-> FALSE,
          p95 |-> 80, p99 |-> 100]
Measured == {Quick, [Quick EXCEPT !.lag = 60], [Quick EXCEPT !.drops = TRUE],
             [Quick EXCEPT !.drops = TRUE, !.rises = TRUE, !.p95 = 300],
             [Quick EXCEPT !.fails = TRUE, !.limited = TRUE]}

-----------------------------------------------------------------------------
(* Documents *)

NoBudget == [p95 |-> {}, p99 |-> {}, errorRate |-> {}]
NoSafety == [allowWrites |-> FALSE, allowDangerous |-> FALSE, allowInsecureTLS |-> FALSE,
             allowTargets |-> {}, maxRate |-> {}, maxInFlight |-> {}, maxDuration |-> {}]
Empty == [run |-> [duration |-> 6, bucket |-> 0, warmup |-> 0, grace |-> 0, timeout |-> 0,
                   minSamples |-> 1, arrival |-> ""],
          slo |-> [name \in {"http", "db", "redis"} |-> NoBudget], safety |-> NoSafety,
          http |-> {}, db |-> {}, redis |-> {}]

Stage(duration, target) == [duration |-> duration, target |-> target]
AtRate(rate) == [NoExecutor EXCEPT !.rate = rate]
InStages(stages) == [NoExecutor EXCEPT !.stages = stages]

Get == [name |-> "get", weight |-> {}, url |-> TRUE, host |-> "", bodies |-> {}, timeout |-> {},
        statuses |-> {200}, extracts |-> <<>>, think |-> {}, flaw |-> {}]
Query == [name |-> "by-id", sql |-> <<<<"SELECT", "FROM">>>>, tx |-> <<>>, type |-> "",
          weight |-> {1}, flaw |-> {}]
Insert == [Query EXCEPT !.name = "add", !.sql = <<<<"WITH", "SELECT", "INSERT">>>>]
Ping == [name |-> "ping", cmd |-> <<"PING">>, pipeline |-> <<>>, type |-> "", weight |-> {},
         flaw |-> {}]
Scan == [Ping EXCEPT !.name = "scan", !.cmd = <<>>, !.pipeline = <<<<"KEYS">>, <<"OBJECT">>>>]

Http(e) == {[EmptySection.http EXCEPT !.executor = e, !.baseHost = "api", !.requests = <<Get>>]}
Db(e, queries) == {[EmptySection.db EXCEPT !.executor = e, !.driver = "pg", !.dsn = TRUE,
                                           !.host = "store", !.queries = queries]}
Redis(e, commands) == {[EmptySection.redis EXCEPT !.executor = e, !.addr = "self",
                                                  !.commands = commands]}

\* A budgeted, steady HTTP run over six buckets.
Steady == [Empty EXCEPT !.http = Http(AtRate(2)), !.run.warmup = 0,
             !.slo.http = [p95 |-> {90}, p99 |-> {200}, errorRate |-> {5}]]
\* A database ramped up, held and ramped down.
Ramped == [Empty EXCEPT !.db = Db(InStages(<<Stage(2, 3), Stage(1, 0), Stage(3, 4)>>), <<Query>>)]
\* Two tiers at once.
Tiers == [Empty EXCEPT !.run.duration = 2, !.http = Http(AtRate(1)), !.db = Db(AtRate(1), <<Query>>)]
\* Writes, asked for.
Writing == [Empty EXCEPT !.db = Db(AtRate(1), <<Query, Insert>>), !.safety.allowWrites = TRUE]
\* A closed model on Redis, poisson arrivals.
Closed == [Empty EXCEPT !.redis = Redis([NoExecutor EXCEPT !.type = "vus", !.vus = 1],
                                        <<[Scan EXCEPT !.type = "read"]>>),
                        !.run.arrival = "poisson"]
\* A rate below nothing, which leaves the executor without stages.
Negative == [Empty EXCEPT !.redis = Redis(AtRate(-1), <<Ping>>)]
\* Journeys, which no runner can be built for.
Journey == [Empty EXCEPT !.http = {[EmptySection.http EXCEPT !.executor = AtRate(1),
              !.baseHost = "api",
              !.journeys = <<[name |-> "shop", weight |-> {}, steps |-> <<Get>>]>>]}]
\* A second request whose body is not there.
Flawed == [Steady EXCEPT !.http = {[Only(@) EXCEPT !.requests =
             <<Get, [Get EXCEPT !.name = "post", !.bodies = {"body_file"}, !.flaw = {"IO_READ_FAILED"}]>>]}]

-----------------------------------------------------------------------------
(* Invocations *)

FileOf(c) == [found |-> TRUE, readable |-> TRUE, interpolates |-> TRUE, parses |-> TRUE,
              known |-> TRUE, decodes |-> TRUE, version |-> Version, cfg |-> c]
Grant == [Default EXCEPT !.allowWrites = TRUE, !.allowPublicTargets = TRUE,
                         !.maxRate = {4}, !.maxDuration = {6}]
PolicyOf(grant) == {[readable |-> TRUE, decodes |-> TRUE, version |-> Version,
                     durationParses |-> TRUE, grant |-> grant]}

Run(c) == [command |-> "run", json |-> TRUE, dryRun |-> FALSE, allowInvalid |-> FALSE,
           resultPath |-> FALSE, stdoutFails |-> FALSE, overrides |-> <<>>,
           source |-> FileOf(c), policy |-> {}]
With(i, grant) == [i EXCEPT !.policy = PolicyOf(grant)]

At(name) == [name |-> name, selector |-> {}, index |-> {}]
Named(list, item) == [name |-> list, selector |-> {item}, index |-> {}]
Nth(list, n) == [name |-> list, selector |-> {}, index |-> {n}]
Set(path, value) == [isPair |-> TRUE, path |-> path, fits |-> TRUE, value |-> value]
Longer == Set(<<At("run"), At("duration")>>, 4)
Heavier == Set(<<At("db"), Named("queries", "by-id"), At("weight")>>, {5})
Faster == Set(<<At("db"), At("executor"), Nth("stages", 2), At("target")>>, 9)
Created == Set(<<At("redis"), At("addr")>>, "self")
Overriding(i, overrides) == [i EXCEPT !.overrides = overrides]

\* Runs that reach their targets.
Runs == {
  Run(Steady), [Run(Steady) EXCEPT !.allowInvalid = TRUE, !.resultPath = TRUE],
  [Run(Steady) EXCEPT !.json = FALSE], [Run(Steady) EXCEPT !.stdoutFails = TRUE],
  With(Run(Ramped), Grant), Run(Tiers), With(Run(Writing), Grant), Run(Closed), Run(Negative),
  Overriding(Run(Tiers), <<Longer, Heavier>>)}

\* Runs that are refused.
Refused == {
  Run(Writing), With(Run(Ramped), [Grant EXCEPT !.maxRate = {3}]),
  With(Overriding(Run(Ramped), <<Faster>>), Grant),
  Run(Journey), Run(Flawed), Run(Empty),
  Run([Steady EXCEPT !.safety.maxInFlight = {9}]),
  Overriding(Run(Steady), <<Created>>),
  Overriding(Run(Steady), <<[Heavier EXCEPT !.isPair = FALSE], [Longer EXCEPT !.fits = FALSE]>>),
  [Run(Steady) EXCEPT !.policy = {[Only(PolicyOf(Grant)) EXCEPT !.version = 2]}],
  [Run(Steady) EXCEPT !.source.known = FALSE],
  [Run(Steady) EXCEPT !.source.found = FALSE, !.source.readable = FALSE]}

Previews ==
  {[i EXCEPT !.command = "validate", !.json = json, !.stdoutFails = fails] :
     i \in {Run(Steady)}, json \in BOOLEAN, fails \in BOOLEAN}
    \cup {[i EXCEPT !.command = "doctor"] : i \in {Run(Steady), Run(Tiers), Run(Closed), Run(Negative)}}
    \cup {[i EXCEPT !.dryRun = TRUE] : i \in {With(Run(Ramped), Grant), With(Run(Writing), Grant)}}

InvocationSet == Runs \cup Refused \cup Previews
=============================================================================
