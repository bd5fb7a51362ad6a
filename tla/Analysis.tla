------------------------------ MODULE Analysis ------------------------------
(***************************************************************************)
(* internal/result: the document built from what was recorded, and what is *)
(* concluded from it, a pure function of the document and the budgets.     *)
(*                                                                         *)
(* Latencies and lags are in milliseconds, the bucket width in seconds,    *)
(* budgets of errors in percent.  What was recorded of a runner is         *)
(*   [name, targets, lag, offered, dropped, n, errors, p95, p99, buckets,  *)
(*    http]                                                                *)
(* its percentiles over the measured window, its buckets in order as       *)
(* [warmup, insufficient, n, p99], and for http [insecure, limited] where  *)
(* limited counts the 429s.                                                *)
(***************************************************************************)
EXTENDS Validation

RunnerDocument(name, recorded) ==
  [name |-> name, kind |-> Kind(name), recorded |-> recorded]

Finding(code, severity, about) == [code |-> code, severity |-> severity, about |-> about]
FindingWhen(condition, code, severity, about) ==
  IF condition THEN {Finding(code, severity, about)} ELSE {}

Sum(seq) == FoldLeft(+, 0, seq)

\* The mean p99 of the last third of the buckets that say something is over 1.25 times
\* that of the first third.  The thirds are equally long.
ServiceTimeRose(buckets) ==
  LET said  == SelectSeq(buckets, LAMBDA b : ~b.warmup /\ ~b.insufficient /\ b.n > 0)
      third == Len(said) \div 3
      early == Sum([i \in 1..third |-> said[i].p99])
      late  == Sum([i \in 1..third |-> said[Len(said) - third + i].p99])
  IN Len(said) >= 6 /\ IF early = 0 THEN late > 0 ELSE late * 4 > early * 5

\* Five percent of a bucket, and never less than 5 ms.
LagLimit(bucket) == Max({5, bucket * 50})

RunnerFindings(run, d) ==
  LET rn     == d.recorded
      drops  == rn.dropped * 100 > rn.offered
      rising == ServiceTimeRose(rn.buckets)
      local  == \E t \in rn.targets : t.scope = "loopback"
  IN UNION {FindingWhen(rn.lag > LagLimit(run.bucket), "GENERATOR_BEHIND", "error", d.name),
            FindingWhen(drops /\ rising, "TARGET_SATURATED", "warn", d.name),
            FindingWhen(drops /\ ~rising, "CLIENT_CAPPED", "error", d.name),
            IF local THEN {Finding("SAME_HOST_TARGET", "warn",
                                   (CHOOSE t \in rn.targets : t.scope = "loopback").host)} ELSE {},
            UNION {FindingWhen(h.insecure, "INSECURE_TLS", "warn", "run")
                     \cup FindingWhen(h.limited * 20 > rn.n /\ rn.n > 0, "RATE_LIMITED", "warn", "run")
                   : h \in rn.http}}

\* A set says each thing once.
EvaluateValidity(run, runners) ==
  LET findings == UNION ({RunnerFindings(run, runners[i]) : i \in DOMAIN runners}
                           \cup {FindingWhen(run.status = "aborted", "RUN_ABORTED", "warn", "run")})
      severities == {f.severity : f \in findings}
  IN [findings |-> findings,
      state    |-> IF "error" \in severities THEN "invalid"
                   ELSE IF "warn" \in severities THEN "degraded" ELSE "valid"]

Check(name, metric, budget, actual) ==
  {[runner |-> name, metric |-> metric, pass |-> actual <= most] : most \in budget}

\* A ratio is compared as errors out of n, and is nothing when n is nothing.
RunnerChecks(slo, d) ==
  LET rn == d.recorded
  IN UNION {Check(d.name, "p95", slo[d.name].p95, rn.p95),
            Check(d.name, "p99", slo[d.name].p99, rn.p99),
            {[runner |-> d.name, metric |-> "error_rate", pass |-> rn.errors * 100 <= most * rn.n]
             : most \in slo[d.name].errorRate}}

EvaluateSLO(runners, slo) ==
  LET checks == UNION {RunnerChecks(slo, runners[i]) : i \in DOMAIN runners}
  IN [checks |-> checks, pass |-> \A c \in checks : c.pass]

BuildVerdict(runners, validity, slo) ==
  LET apps  == {i \in DOMAIN runners : runners[i].kind = "app"}
      empty == apps # {} /\ runners[Min(apps)].recorded.n = 0
      Verdict(bottleneck, confidence) ==
        [bottleneck |-> bottleneck,
         confidence |-> IF validity.state = "degraded" THEN "low" ELSE confidence]
  IN CASE validity.state = "invalid" -> Verdict("client", "high")
       [] validity.state # "invalid" /\ ~slo.pass -> Verdict("inconclusive", "medium")
       [] validity.state # "invalid" /\ slo.pass /\ empty -> Verdict("inconclusive", "low")
       [] OTHER -> Verdict("none", "medium")

Analyse(run, runners, slo) ==
  LET validity == EvaluateValidity(run, runners)
      budgets  == EvaluateSLO(runners, slo)
  IN [validity |-> validity, slo |-> budgets, verdict |-> BuildVerdict(runners, validity, budgets)]

\* The whole document.  An abort overrides the status the run had.
Build(cfg, status, warnings, recorded) ==
  LET order   == RunnersOf(cfg)
      runners == [i \in DOMAIN order |-> RunnerDocument(order[i], recorded[order[i]])]
      run     == [status |-> status, duration |-> cfg.run.duration, bucket |-> cfg.run.bucket]
  IN [run |-> run, runners |-> runners, warnings |-> warnings,
      analysis |-> Analyse(run, runners, cfg.slo)]
=============================================================================
