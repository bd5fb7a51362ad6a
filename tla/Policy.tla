------------------------------- MODULE Policy -------------------------------
(***************************************************************************)
(* internal/policy: the envelope a human grants, how a configuration       *)
(* narrows it, and what it makes of statements and of resolved targets.    *)
(*                                                                         *)
(* An optional value is a set of at most one element.  A problem is its    *)
(* error code, and a check returns the set of the problems it finds.       *)
(***************************************************************************)
EXTENDS Integers, Sequences, FiniteSets

When(condition, code) == IF condition THEN {code} ELSE {}

\* A limit that is not set is never exceeded.
Exceeds(n, limit) == \E most \in limit : n > most

Default ==
  [denyTargets |-> {}, allowTargets |-> {}, allowPublicTargets |-> FALSE,
   allowWrites |-> FALSE, allowDangerous |-> FALSE, allowInsecureTLS |-> FALSE,
   maxRate |-> {}, maxInFlight |-> {}, maxDuration |-> {}]

Version == 1

\* A policy file, if any is named: whether it can be read and decoded, its version,
\* whether its max_duration is a duration, and the envelope it grants.
LoadProblems(file) ==
  When(\E f \in file : ~f.readable \/ ~f.decodes \/ f.version # Version \/ ~f.durationParses,
       "POLICY_PARSE")

Load(file) == IF file = {} THEN Default ELSE (CHOOSE f \in file : TRUE).grant

-----------------------------------------------------------------------------
\* Statements.  A statement is a sequence of parts, a part the sequence of its words
\* outside comments and literals; each table keeps the members that behave differently.
SqlReadVerbs      == {"SELECT", "SHOW", "EXPLAIN"}
SqlWriteVerbs     == {"INSERT", "UPDATE", "DELETE"}
SqlDangerousVerbs == {"DROP", "TRUNCATE", "ALTER"}
SessionVerbs      == {"BEGIN", "START", "COMMIT", "ROLLBACK", "SAVEPOINT", "SET"}

Judged(op, dangerous, certain) ==
  [op |-> op, dangerous |-> dangerous, blocking |-> {}, certain |-> certain]
Read  == Judged("read", {}, TRUE)
Write == Judged("write", {}, TRUE)
Destroys(verb) == Judged("write", {verb}, TRUE)
Unrecognised == Judged("write", {}, FALSE)

Words(part) == {part[i] : i \in DOMAIN part}

\* Behind a WITH clause the first verb that writes or destroys decides.
ClassifyWith(part) ==
  LET verbs == {i \in 2..Len(part) : part[i] \in SqlWriteVerbs \cup SqlDangerousVerbs}
  IN IF verbs = {} THEN Read
     ELSE LET verb == part[CHOOSE i \in verbs : \A j \in verbs : i <= j]
          IN IF verb \in SqlWriteVerbs THEN Write ELSE Destroys(verb)

ClassifyOneSQL(part) ==
  IF part = <<>> THEN Read
  ELSE LET verb == Head(part)
       IN CASE verb = "WITH" -> ClassifyWith(part)
            [] verb \in SqlDangerousVerbs -> Destroys(verb)
            [] verb \in SqlWriteVerbs -> Write
            [] verb = "SELECT" /\ "INTO" \in Words(part) -> Write
            [] verb \in SqlReadVerbs \cup SessionVerbs -> Read
            [] OTHER -> Unrecognised

\* A statement is judged on its most serious part, and names the first it would destroy with.
ClassifySQL(statement) ==
  LET judged  == [i \in DOMAIN statement |-> ClassifyOneSQL(statement[i])]
      serious == {i \in DOMAIN judged : judged[i].dangerous # {}}
  IN [op        |-> IF \E i \in DOMAIN judged : judged[i].op = "write" THEN "write" ELSE "read",
      dangerous |-> IF serious = {} THEN {}
                    ELSE judged[CHOOSE i \in serious : \A j \in serious : i <= j].dangerous,
      blocking  |-> {},
      certain   |-> \A i \in DOMAIN judged : judged[i].certain]

RedisReads        == {"GET", "KEYS", "HGETALL", "PING"}
RedisWrites       == {"SET", "DEL", "SUNIONSTORE"}
RedisDangerous    == {"FLUSHALL", "SHUTDOWN"}
RedisDangerousSub == [CONFIG |-> {"SET", "REWRITE"}, CLIENT |-> {"KILL", "PAUSE"}]
RedisBlocking     == {"KEYS", "HGETALL", "SORT", "SUNIONSTORE"}

ClassifyRedis(args) ==
  IF args = <<>> THEN Read
  ELSE LET cmd == Head(args)
           sub == IF Len(args) > 1 THEN args[2] ELSE ""
           judged ==
             CASE cmd = "SORT" -> IF "STORE" \in Words(Tail(args)) THEN Write ELSE Read
               [] cmd \in RedisDangerous -> Destroys(cmd)
               [] cmd \in DOMAIN RedisDangerousSub ->
                    IF sub \in RedisDangerousSub[cmd] THEN Destroys(cmd) ELSE Read
               [] cmd \in RedisReads -> Read
               [] cmd \in RedisWrites -> Write
               [] OTHER -> Unrecognised
       IN [judged EXCEPT !.blocking = When(cmd \in RedisBlocking, cmd)]

-----------------------------------------------------------------------------
\* Targets.  An address is [id, scope]; an entry of a list names a host or covers
\* addresses: [kind |-> "host" | "ip" | "cidr", host, covers].
Rank == [loopback |-> 0, linkLocal |-> 1, private |-> 2, public |-> 3]

\* The widest scope among a host's addresses.
ClassifyAddrs(addrs) ==
  LET scopes == {"loopback"} \cup {a.scope : a \in addrs}
  IN CHOOSE widest \in scopes : \A s \in scopes : Rank[s] <= Rank[widest]

\* A literal address needs no lookup and is its own only address.
Target(host, addrs) == [host |-> host, addrs |-> addrs, scope |-> ClassifyAddrs(addrs)]

Matches(entry, target) ==
  IF entry.kind = "host" THEN entry.host = target.host
  ELSE entry.host = target.host \/ \E a \in target.addrs : a \in entry.covers

TargetPermitted(p, target) ==
  /\ ~\E entry \in p.denyTargets : Matches(entry, target)
  /\ \/ target.scope # "public"
     \/ p.allowPublicTargets
     \/ \E entry \in p.allowTargets : Matches(entry, target)

CheckTarget(p, target) == When(~TargetPermitted(p, target), "POLICY_TARGET_NOT_ALLOWED")

\* Whether the policy lets a configuration keep an entry of its own allowlist.
AllowlistPermits(p, entry) ==
  \/ p.allowPublicTargets
  \/ \E permitted \in p.allowTargets :
       \/ permitted = entry
       \/ /\ permitted.kind = "cidr"
          /\ entry.kind = "ip"
          /\ entry.covers \subseteq permitted.covers
  \/ entry.kind = "ip" /\ ClassifyAddrs(entry.covers) # "public"

-----------------------------------------------------------------------------
\* The values a policy and a safety section are made of, as their Go types have them.
Scopes == DOMAIN Rank
Entries == [kind : {"host", "ip", "cidr"}, host : STRING,
            covers : SUBSET [id : STRING, scope : Scopes]]

IsGrant(p) ==
  /\ p = [denyTargets |-> p.denyTargets, allowTargets |-> p.allowTargets,
          allowPublicTargets |-> p.allowPublicTargets, allowWrites |-> p.allowWrites,
          allowDangerous |-> p.allowDangerous, allowInsecureTLS |-> p.allowInsecureTLS,
          maxRate |-> p.maxRate, maxInFlight |-> p.maxInFlight, maxDuration |-> p.maxDuration]
  /\ p.denyTargets \subseteq Entries /\ p.allowTargets \subseteq Entries
  /\ p.maxRate \subseteq Int /\ p.maxInFlight \subseteq Int /\ p.maxDuration \subseteq Int

IsWish(want) ==
  /\ want.allowTargets \subseteq Entries
  /\ want.maxRate \subseteq Int /\ want.maxInFlight \subseteq Int /\ want.maxDuration \subseteq Int

-----------------------------------------------------------------------------
\* What a configuration's safety section asks for beyond the grant is refused, each
\* thing by its own code.
TightenProblems(p, want) ==
  UNION {When(want.allowWrites /\ ~p.allowWrites, "POLICY_WRITES_NOT_ALLOWED"),
         When(want.allowDangerous /\ ~p.allowDangerous, "POLICY_DANGEROUS_NOT_ALLOWED"),
         When(want.allowInsecureTLS /\ ~p.allowInsecureTLS, "POLICY_INSECURE_TLS_NOT_ALLOWED"),
         When(\E entry \in want.allowTargets : ~AllowlistPermits(p, entry),
              "POLICY_TARGET_NOT_ALLOWED"),
         When(\E n \in want.maxRate : Exceeds(n, p.maxRate), "POLICY_DENIED"),
         When(\E n \in want.maxInFlight : Exceeds(n, p.maxInFlight), "POLICY_DENIED"),
         When(\E n \in want.maxDuration : Exceeds(n, p.maxDuration), "POLICY_DENIED")}

Narrowed(granted, want) == IF want = {} THEN granted ELSE want

\* A capability needs both to ask for it; a limit or an allowlist is the narrower one.
Tighten(p, want) ==
  [p EXCEPT !.allowWrites      = @ /\ want.allowWrites,
            !.allowDangerous   = @ /\ want.allowDangerous,
            !.allowInsecureTLS = @ /\ want.allowInsecureTLS,
            !.allowTargets     = Narrowed(@, want.allowTargets),
            !.maxRate          = Narrowed(@, want.maxRate),
            !.maxInFlight      = Narrowed(@, want.maxInFlight),
            !.maxDuration      = Narrowed(@, want.maxDuration)]

CheckRate(p, rate) == When(Exceeds(rate, p.maxRate), "POLICY_RATE_EXCEEDED")
CheckInFlight(p, n) == When(Exceeds(n, p.maxInFlight), "POLICY_DENIED")
CheckDuration(p, d) == When(Exceeds(d, p.maxDuration), "POLICY_DURATION_EXCEEDED")
CheckWrites(p, labels) ==
  When(~p.allowWrites /\ labels # {}, "POLICY_WRITES_NOT_ALLOWED")
CheckDangerous(p, found) ==
  When(~p.allowDangerous /\ found # {}, "POLICY_DANGEROUS_NOT_ALLOWED")
=============================================================================
