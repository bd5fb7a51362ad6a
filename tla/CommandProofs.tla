---------------------------- MODULE CommandProofs ----------------------------
(***************************************************************************)
(* What the command promises, for every policy, document, override, answer *)
(* of a resolver and failure it may meet: no load outside the policy, no   *)
(* target contacted before every address is permitted, no run that differs *)
(* from its plan, and an exit code that says what the document says.       *)
(*                                                                         *)
(* First come the pieces: a policy only ever gets narrower, a document     *)
(* that loads has the shape its types give it, and no check reports a code *)
(* that is kept for the verdict on a result (NoVerdict), so that a refusal *)
(* and a failed run cannot be taken for each other.  Then the invariants,  *)
(* each inductive relative to the ones before it:                          *)
(*   DocumentInv  how far the document has come, and that an envelope in   *)
(*                force is the tightened policy and lets the document      *)
(*                pass;                                                    *)
(*   LoadInv      what is contacted is what is prepared, and every         *)
(*                runner's schedule follows its stages;                    *)
(*   TargetInv    what is resolved when something is contacted is every    *)
(*                target, and each is permitted;                           *)
(*   EndInv       what the command has written and what it has failed with *)
(*                belong together.                                         *)
(* For the last every step is one of four: it goes on, it fails, it        *)
(* delivers a document, or the process is killed.                          *)
(***************************************************************************)
EXTENDS Command, ScheduleProofs, TLAPS

Setting == INSTANCE LeftFolds WITH Op <- ApplyOne
Descending == INSTANCE LeftFolds WITH Op <- Descend

-----------------------------------------------------------------------------
(* Narrowing a policy: what a configuration's safety section can do to the policy it runs *)
(* under is to narrow it, which is why the tightened policy alone has to be checked       *)
(* (apply_policy.go, and the preflight of engine.go).                                     *)

\* The configuration asks for nothing beyond the grant.
Permitted(p, want) == IsGrant(p) /\ IsWish(want) /\ TightenProblems(p, want) = {}

-----------------------------------------------------------------------------
\* A limit that was narrowed to a wish within it refuses whatever it refused before.
LEMMA NarrowedLimit ==
  ASSUME NEW granted \in SUBSET Int, NEW want \in SUBSET Int, NEW n \in Int,
         \A m \in want : ~Exceeds(m, granted),
         Exceeds(n, granted)
  PROVE  Exceeds(n, Narrowed(granted, want))
<1>1. CASE want = {}
  BY <1>1 DEF Narrowed
<1>2. CASE want # {}
  <2>1. PICK most \in granted : n > most
    BY DEF Exceeds
  <2>2. PICK m \in want : TRUE
    BY <1>2
  <2>3. ~(m > most)
    BY <2>1, <2>2 DEF Exceeds
  <2>4. n > m
    BY <2>1, <2>2, <2>3
  <2> QED
    BY <1>2, <2>2, <2>4 DEF Narrowed, Exceeds
<1> QED
  BY <1>1, <1>2

\* What follows for each wish from there being no problem with any.
LEMMA NothingRefused ==
  ASSUME NEW p, NEW want, TightenProblems(p, want) = {}
  PROVE  /\ ~(want.allowWrites /\ ~p.allowWrites)
         /\ ~(want.allowDangerous /\ ~p.allowDangerous)
         /\ ~(want.allowInsecureTLS /\ ~p.allowInsecureTLS)
         /\ \A entry \in want.allowTargets : AllowlistPermits(p, entry)
         /\ \A n \in want.maxRate : ~Exceeds(n, p.maxRate)
         /\ \A n \in want.maxInFlight : ~Exceeds(n, p.maxInFlight)
         /\ \A n \in want.maxDuration : ~Exceeds(n, p.maxDuration)
<1> USE DEF TightenProblems
<1>1. ~(want.allowWrites /\ ~p.allowWrites)
  BY DEF When
<1>2. ~(want.allowDangerous /\ ~p.allowDangerous)
  BY DEF When
<1>3. ~(want.allowInsecureTLS /\ ~p.allowInsecureTLS)
  BY DEF When
<1>4. ~(\E entry \in want.allowTargets : ~AllowlistPermits(p, entry))
  BY DEF When
<1>5. ~(\E n \in want.maxRate : Exceeds(n, p.maxRate))
  BY DEF When
<1>6. ~(\E n \in want.maxInFlight : Exceeds(n, p.maxInFlight))
  BY DEF When
<1>7. ~(\E n \in want.maxDuration : Exceeds(n, p.maxDuration))
  BY DEF When
<1> QED
  BY <1>1, <1>2, <1>3, <1>4, <1>5, <1>6, <1>7

\* The fields of a tightened policy.
LEMMA TightenedFields ==
  ASSUME NEW p, IsGrant(p), NEW want
  PROVE  /\ Tighten(p, want).allowWrites = (p.allowWrites /\ want.allowWrites)
         /\ Tighten(p, want).allowDangerous = (p.allowDangerous /\ want.allowDangerous)
         /\ Tighten(p, want).allowInsecureTLS = (p.allowInsecureTLS /\ want.allowInsecureTLS)
         /\ Tighten(p, want).denyTargets = p.denyTargets
         /\ Tighten(p, want).allowPublicTargets = p.allowPublicTargets
         /\ Tighten(p, want).allowTargets = Narrowed(p.allowTargets, want.allowTargets)
         /\ Tighten(p, want).maxRate = Narrowed(p.maxRate, want.maxRate)
         /\ Tighten(p, want).maxInFlight = Narrowed(p.maxInFlight, want.maxInFlight)
         /\ Tighten(p, want).maxDuration = Narrowed(p.maxDuration, want.maxDuration)
BY DEF Tighten, IsGrant

-----------------------------------------------------------------------------
\* What a tightened policy lets through the grant alone lets through: a rate, a number
\* in flight, a duration (Policy.CheckRate, CheckInFlight, CheckDuration).
THEOREM TightenNeverRaisesALimit ==
  ASSUME NEW p, NEW want, Permitted(p, want), NEW n \in Int
  PROVE  /\ CheckRate(Tighten(p, want), n) = {} => CheckRate(p, n) = {}
         /\ CheckInFlight(Tighten(p, want), n) = {} => CheckInFlight(p, n) = {}
         /\ CheckDuration(Tighten(p, want), n) = {} => CheckDuration(p, n) = {}
<1> DEFINE q == Tighten(p, want)
<1>1. IsGrant(p) /\ IsWish(want)
  BY DEF Permitted
<1>2. /\ \A m \in want.maxRate : ~Exceeds(m, p.maxRate)
      /\ \A m \in want.maxInFlight : ~Exceeds(m, p.maxInFlight)
      /\ \A m \in want.maxDuration : ~Exceeds(m, p.maxDuration)
  BY NothingRefused DEF Permitted
<1>3. /\ q.maxRate = Narrowed(p.maxRate, want.maxRate)
      /\ q.maxInFlight = Narrowed(p.maxInFlight, want.maxInFlight)
      /\ q.maxDuration = Narrowed(p.maxDuration, want.maxDuration)
  BY <1>1, TightenedFields
<1> HIDE DEF q
<1>4. /\ Exceeds(n, p.maxRate) => Exceeds(n, q.maxRate)
      /\ Exceeds(n, p.maxInFlight) => Exceeds(n, q.maxInFlight)
      /\ Exceeds(n, p.maxDuration) => Exceeds(n, q.maxDuration)
  BY <1>1, <1>2, <1>3, NarrowedLimit DEF IsGrant, IsWish
<1> QED
  BY <1>4 DEF q, CheckRate, CheckInFlight, CheckDuration, When

\* A capability needs both to ask for it: writes, destructive statements and unverified
\* TLS are let through by a tightened policy only if the grant lets them through
\* (Policy.CheckWrites, CheckDangerous).
THEOREM TightenNeverGrantsACapability ==
  ASSUME NEW p, NEW want, Permitted(p, want), NEW labels, NEW found
  PROVE  /\ CheckWrites(Tighten(p, want), labels) = {} => CheckWrites(p, labels) = {}
         /\ CheckDangerous(Tighten(p, want), found) = {} => CheckDangerous(p, found) = {}
         /\ Tighten(p, want).allowInsecureTLS => p.allowInsecureTLS
<1> DEFINE q == Tighten(p, want)
<1>1. /\ q.allowWrites => p.allowWrites
      /\ q.allowDangerous => p.allowDangerous
      /\ q.allowInsecureTLS => p.allowInsecureTLS
  BY TightenedFields DEF Permitted
<1> HIDE DEF q
<1> QED
  BY <1>1 DEF q, CheckWrites, CheckDangerous, When

-----------------------------------------------------------------------------
\* The widest scope is a scope of one of the addresses or loopback, and none is wider.
LEMMA WidestScope ==
  ASSUME NEW addrs, \A a \in addrs : a.scope \in Scopes
  PROVE  /\ ClassifyAddrs(addrs) \in {"loopback"} \cup {a.scope : a \in addrs}
         /\ \A a \in addrs : Rank[a.scope] <= Rank[ClassifyAddrs(addrs)]
<1> DEFINE scopes == {"loopback"} \cup {a.scope : a \in addrs}
           Widest(w) == \A s \in scopes : Rank[s] <= Rank[w]
<1>1. \A s \in scopes : s \in {"loopback", "linkLocal", "private", "public"}
  BY DEF Scopes, Rank
<1>2. \E w \in scopes : Widest(w)
  <2>1. CASE "public" \in scopes
    BY <1>1, <2>1 DEF Rank
  <2>2. CASE "public" \notin scopes /\ "private" \in scopes
    BY <1>1, <2>2 DEF Rank
  <2>3. CASE "public" \notin scopes /\ "private" \notin scopes /\ "linkLocal" \in scopes
    BY <1>1, <2>3 DEF Rank
  <2>4. CASE "public" \notin scopes /\ "private" \notin scopes /\ "linkLocal" \notin scopes
    BY <1>1, <2>4 DEF Rank
  <2> QED
    BY <2>1, <2>2, <2>3, <2>4
<1>3. ClassifyAddrs(addrs) = CHOOSE w \in scopes : Widest(w)
  BY DEF ClassifyAddrs
<1>4. ClassifyAddrs(addrs) \in scopes /\ Widest(ClassifyAddrs(addrs))
  BY <1>2, <1>3
<1> QED
  BY <1>4

\* A host is public exactly when one of its addresses is.
LEMMA PublicScope ==
  ASSUME NEW addrs, \A a \in addrs : a.scope \in Scopes
  PROVE  ClassifyAddrs(addrs) = "public" <=> \E a \in addrs : a.scope = "public"
<1>1. ASSUME ClassifyAddrs(addrs) = "public"
      PROVE  \E a \in addrs : a.scope = "public"
  BY <1>1, WidestScope
<1>2. ASSUME NEW a \in addrs, a.scope = "public"
      PROVE  ClassifyAddrs(addrs) = "public"
  <2>1. ClassifyAddrs(addrs) \in {"loopback", "linkLocal", "private", "public"}
    BY WidestScope DEF Scopes, Rank
  <2>2. Rank["public"] <= Rank[ClassifyAddrs(addrs)]
    BY <1>2, WidestScope
  <2> QED
    BY <2>1, <2>2 DEF Rank
<1> QED
  BY <1>1, <1>2

\* A resolved host whose addresses are of one kind, public or not, and whose name, when
\* it is an address, is its only one.
Uniform(target) ==
  /\ target = Target(target.host, target.addrs)
  /\ \A a \in target.addrs : a.scope \in Scopes
  /\ (\E a \in target.addrs : a.scope = "public") => \A a \in target.addrs : a.scope = "public"

LiteralEntry(entry, target) ==
  entry.kind = "ip" /\ entry.host = target.host => entry.covers = target.addrs

\* An entry that the grant lets a configuration keep opens no public host to it which the
\* grant does not.
LEMMA KeptEntry ==
  ASSUME NEW p, IsGrant(p), NEW entry \in Entries, AllowlistPermits(p, entry),
         NEW target, Uniform(target), LiteralEntry(entry, target),
         target.scope = "public", Matches(entry, target)
  PROVE  p.allowPublicTargets \/ \E granted \in p.allowTargets : Matches(granted, target)
<1>1. /\ target.scope = ClassifyAddrs(target.addrs)
      /\ \A a \in target.addrs : a.scope \in Scopes
  BY DEF Uniform, Target
<1>2. /\ \E a \in target.addrs : a.scope = "public"
      /\ \A a \in target.addrs : a.scope = "public"
  BY <1>1, PublicScope DEF Uniform
<1>3. CASE p.allowPublicTargets
  BY <1>3
<1>4. CASE entry \in p.allowTargets
  BY <1>4
<1>5. entry.kind = "ip" => \E a \in target.addrs : a \in entry.covers
  BY <1>2 DEF Matches, LiteralEntry
<1>6. ASSUME NEW granted \in p.allowTargets, granted.kind = "cidr", entry.kind = "ip",
             entry.covers \subseteq granted.covers
      PROVE  Matches(granted, target)
  BY <1>5, <1>6 DEF Matches
<1>7. ~(entry.kind = "ip" /\ ClassifyAddrs(entry.covers) # "public")
  <2> SUFFICES ASSUME entry.kind = "ip" PROVE ClassifyAddrs(entry.covers) = "public"
    OBVIOUS
  <2>1. \E a \in entry.covers : a.scope = "public"
    BY <1>2, <1>5
  <2>2. \A a \in entry.covers : a.scope \in Scopes
    BY DEF Entries
  <2> QED
    BY <2>1, <2>2, PublicScope
<1> QED
  BY <1>3, <1>4, <1>6, <1>7 DEF AllowlistPermits

\* A host that the tightened policy lets a run contact is one the grant lets it contact,
\* for hosts whose addresses are all public or none of them (Policy.CheckTarget in
\* preflight, with the allowlist that Tighten took over from the configuration).
THEOREM TightenOpensNoTarget ==
  ASSUME NEW p, NEW want, Permitted(p, want), NEW target, Uniform(target),
         \A entry \in want.allowTargets : LiteralEntry(entry, target)
  PROVE  CheckTarget(Tighten(p, want), target) = {} => CheckTarget(p, target) = {}
<1> DEFINE q == Tighten(p, want)
<1>1. IsGrant(p) /\ IsWish(want)
  BY DEF Permitted
<1>2. \A entry \in want.allowTargets : AllowlistPermits(p, entry)
  BY NothingRefused DEF Permitted
<1>3. /\ q.denyTargets = p.denyTargets
      /\ q.allowPublicTargets = p.allowPublicTargets
      /\ q.allowTargets = Narrowed(p.allowTargets, want.allowTargets)
  BY <1>1, TightenedFields
<1> HIDE DEF q
<1>4. ASSUME TargetPermitted(q, target)
      PROVE  TargetPermitted(p, target)
  <2>1. ~\E entry \in p.denyTargets : Matches(entry, target)
    BY <1>3, <1>4 DEF TargetPermitted
  <2>2. CASE target.scope # "public" \/ p.allowPublicTargets
    BY <2>1, <2>2 DEF TargetPermitted
  <2>3. CASE target.scope = "public" /\ ~p.allowPublicTargets
    <3>1. PICK entry \in Narrowed(p.allowTargets, want.allowTargets) : Matches(entry, target)
      BY <1>3, <1>4, <2>3 DEF TargetPermitted
    <3>2. CASE entry \in p.allowTargets
      BY <2>1, <3>1, <3>2 DEF TargetPermitted
    <3>3. CASE entry \in want.allowTargets
      <4>1. entry \in Entries /\ AllowlistPermits(p, entry) /\ LiteralEntry(entry, target)
        BY <1>1, <1>2, <3>3 DEF IsWish
      <4>2. \E granted \in p.allowTargets : Matches(granted, target)
        BY <1>1, <2>3, <3>1, <4>1, KeptEntry
      <4> QED
        BY <2>1, <4>2 DEF TargetPermitted
    <3> QED
      BY <3>1, <3>2, <3>3 DEF Narrowed
  <2> QED
    BY <2>2, <2>3
<1> QED
  BY <1>4 DEF q, CheckTarget, When

-----------------------------------------------------------------------------
(* Documents *)

Names == {"http", "db", "redis"}

\* The runners a document has sections for.
LEMMA SectionNames == DOMAIN EmptySection = Names /\ DOMAIN ItemsField = Names
BY DEF EmptySection, ItemsField, Names

\* A section that is there is listed once.
LEMMA ListedIs ==
  ASSUME NEW c, NEW name \in Names
  PROVE  /\ Listed(c, name) \in Seq(Names)
         /\ ToSet(Listed(c, name)) = IF c[name] = {} THEN {} ELSE {name}
<1> HIDE DEF Names
<1>1. CASE c[name] = {}
  BY <1>1 DEF Listed, ToSet
<1>2. CASE c[name] # {}
  <2>1. Listed(c, name) = <<name>>
    BY <1>2 DEF Listed
  <2>2. <<name>> \in Seq(Names) /\ DOMAIN <<name>> = {1} /\ <<name>>[1] = name
    OBVIOUS
  <2>3. ToSet(<<name>>) = {name}
    BY <2>2 DEF ToSet
  <2> QED
    BY <1>2, <2>1, <2>2, <2>3
<1> QED
  BY <1>1, <1>2

\* Lists one after the other list what both do.
LEMMA BothListed ==
  ASSUME NEW S, NEW a \in Seq(S), NEW b \in Seq(S)
  PROVE  a \o b \in Seq(S) /\ ToSet(a \o b) = ToSet(a) \cup ToSet(b)
<1>1. Len(a) \in Nat /\ Len(b) \in Nat /\ DOMAIN a = 1..Len(a) /\ DOMAIN b = 1..Len(b)
  OBVIOUS
<1>2. a \o b \in Seq(S) /\ Len(a \o b) = Len(a) + Len(b)
  OBVIOUS
<1>3. DOMAIN (a \o b) = 1..(Len(a) + Len(b))
  BY <1>2
<1>4. \A i \in 1..(Len(a) + Len(b)) : (a \o b)[i] = IF i <= Len(a) THEN a[i] ELSE b[i - Len(a)]
  OBVIOUS
<1> DEFINE both == a \o b
<1> HIDE DEF both
<1>5. ToSet(both) \subseteq ToSet(a) \cup ToSet(b)
  <2>1. ASSUME NEW i \in 1..(Len(a) + Len(b))
        PROVE  both[i] \in ToSet(a) \cup ToSet(b)
    <3>1. CASE i <= Len(a)
      <4>1. i \in DOMAIN a /\ both[i] = a[i]
        BY <1>1, <1>4, <3>1 DEF both
      <4> QED
        BY <4>1 DEF ToSet
    <3>2. CASE ~(i <= Len(a))
      <4>1. i - Len(a) \in DOMAIN b /\ both[i] = b[i - Len(a)]
        BY <1>1, <1>4, <3>2 DEF both
      <4> QED
        BY <4>1 DEF ToSet
    <3> QED
      BY <3>1, <3>2
  <2> QED
    BY <1>3, <2>1 DEF ToSet, both
<1>6. ToSet(a) \subseteq ToSet(both)
  <2>1. \A i \in 1..Len(a) : i \in 1..(Len(a) + Len(b)) /\ both[i] = a[i]
    BY <1>1, <1>4 DEF both
  <2> QED
    BY <1>1, <1>3, <2>1 DEF ToSet, both
<1>7. ToSet(b) \subseteq ToSet(both)
  <2>1. ASSUME NEW i \in 1..Len(b)
        PROVE  i + Len(a) \in 1..(Len(a) + Len(b)) /\ both[i + Len(a)] = b[i]
    BY <1>1, <1>4 DEF both
  <2> QED
    BY <1>1, <1>3, <2>1 DEF ToSet, both
<1> QED
  BY <1>2, <1>5, <1>6, <1>7 DEF both

\* The configured runners are those with a section, each listed in its place.
LEMMA RunnersAre ==
  ASSUME NEW c
  PROVE  /\ Configured(c) = {name \in Names : c[name] # {}}
         /\ DOMAIN RunnersOf(c) = 1..Len(RunnersOf(c)) /\ Len(RunnersOf(c)) \in Nat
         /\ \A i \in DOMAIN RunnersOf(c) : RunnersOf(c)[i] \in Configured(c)
<1> DEFINE h == Listed(c, "http")
           d == Listed(c, "db")
           r == Listed(c, "redis")
<1>1. /\ "http" \in Names /\ "db" \in Names /\ "redis" \in Names
  BY DEF Names
<1>2. /\ h \in Seq(Names) /\ ToSet(h) = IF c["http"] = {} THEN {} ELSE {"http"}
      /\ d \in Seq(Names) /\ ToSet(d) = IF c["db"] = {} THEN {} ELSE {"db"}
      /\ r \in Seq(Names) /\ ToSet(r) = IF c["redis"] = {} THEN {} ELSE {"redis"}
  BY <1>1, ListedIs
<1> HIDE DEF h, d, r
<1>3. /\ (h \o d) \o r \in Seq(Names)
      /\ ToSet((h \o d) \o r) = ToSet(h) \cup ToSet(d) \cup ToSet(r)
  <2> DEFINE hd == h \o d
  <2>1. hd \in Seq(Names) /\ ToSet(hd) = ToSet(h) \cup ToSet(d)
    BY <1>2, BothListed
  <2> HIDE DEF hd, Names
  <2>2. hd \o r \in Seq(Names) /\ ToSet(hd \o r) = ToSet(hd) \cup ToSet(r)
    BY <1>2, <2>1, BothListed
  <2> QED
    BY <2>1, <2>2 DEF hd
<1>4. RunnersOf(c) = (h \o d) \o r
  BY DEF RunnersOf, h, d, r
<1>5. Configured(c) = ToSet(h) \cup ToSet(d) \cup ToSet(r)
  BY <1>3, <1>4 DEF Configured
<1>6. Configured(c) = {name \in Names : c[name] # {}}
  BY <1>2, <1>5 DEF Names
<1>7. \A i \in DOMAIN RunnersOf(c) : RunnersOf(c)[i] \in Configured(c)
  BY DEF Configured, ToSet
<1>8. DOMAIN RunnersOf(c) = 1..Len(RunnersOf(c)) /\ Len(RunnersOf(c)) \in Nat
  <2>1. RunnersOf(c) \in Seq(Names)
    BY <1>3, <1>4
  <2> HIDE DEF Names
  <2> QED
    BY <2>1
<1> QED
  BY <1>6, <1>7, <1>8

\* A configured runner has its section, and it is of its shape.
LEMMA SectionIs ==
  ASSUME NEW c, IsConfig(c), NEW name \in Configured(c)
  PROVE  /\ name \in Names /\ c[name] = {Section(c, name)} /\ IsSection(name, Section(c, name))
<1>1. name \in Names /\ c[name] # {}
  BY RunnersAre
<1>2. PICK s : c[name] = {s} /\ IsSection(name, s)
  BY <1>1, SectionNames DEF IsConfig
<1>3. Section(c, name) = s
  BY <1>2 DEF Section, Only
<1> QED
  BY <1>1, <1>2, <1>3

\* A default keeps a value in its set, and a default that is not zero leaves none zero.
LEMMA OrIs ==
  ASSUME NEW S, NEW value \in S, NEW default \in S, NEW zero
  PROVE  Or(value, zero, default) \in S /\ (default # zero => Or(value, zero, default) # zero)
<1>1. CASE value = zero
  BY <1>1 DEF Or
<1>2. CASE value # zero
  BY <1>2 DEF Or
<1> QED
  BY <1>1, <1>2

\* Defaults keep the shape of an executor, and give an open model a limit of operations.
LEMMA ExecutorDefaultsAre ==
  ASSUME NEW e, IsExecutor(e), NEW d \in Int
  PROVE  /\ IsExecutor(ExecutorDefaults(e, d))
         /\ ExecutorDefaults(e, d).type = "arrival-rate" => ExecutorDefaults(e, d).maxInFlight # 0
<1> DEFINE type == Or(e.type, "", "arrival-rate")
           open == type = "arrival-rate"
           level == IF open THEN e.rate ELSE e.vus
           limit == IF open THEN Or(e.maxInFlight, 0, DefaultMaxInFlight) ELSE e.maxInFlight
           depth == IF open THEN Or(e.queueDepth, {}, {DefaultQueueDepth}) ELSE e.queueDepth
           pick == IF type = "vus" THEN Or(e.pick, "", "per-iteration") ELSE e.pick
           stages == IF e.stages = <<>> /\ type \in {"arrival-rate", "vus"} /\ level > 0
                     THEN <<[duration |-> d, target |-> level]>> ELSE e.stages
           x == ExecutorDefaults(e, d)
<1>1. /\ e = [type |-> e.type, rate |-> e.rate, vus |-> e.vus, stages |-> e.stages,
              maxInFlight |-> e.maxInFlight, queueDepth |-> e.queueDepth, pick |-> e.pick]
      /\ e.rate \in Int /\ e.vus \in Int /\ e.stages \in Seq(Stages)
      /\ e.maxInFlight \in Int /\ e.queueDepth \in SUBSET Int
  BY DEF IsExecutor
<1>2. limit \in Int /\ depth \in SUBSET Int /\ level \in Int
  <2>1. Or(e.maxInFlight, 0, DefaultMaxInFlight) \in Int
    <3>1. DefaultMaxInFlight \in Int
      BY DEF DefaultMaxInFlight
    <3> QED
      BY <1>1, <3>1, OrIs
  <2>2. Or(e.queueDepth, {}, {DefaultQueueDepth}) \in SUBSET Int
    <3>1. {DefaultQueueDepth} \in SUBSET Int
      BY DEF DefaultQueueDepth
    <3> QED
      BY <1>1, <3>1, OrIs
  <2> HIDE DEF type
  <2> QED
    BY <1>1, <2>1, <2>2
<1>3. open => limit # 0
  <2>1. DefaultMaxInFlight \in Int /\ DefaultMaxInFlight # 0
    BY DEF DefaultMaxInFlight
  <2>2. Or(e.maxInFlight, 0, DefaultMaxInFlight) # 0
    BY <1>1, <2>1, OrIs
  <2> QED
    BY <2>2
<1>4. stages \in Seq(Stages)
  <2>1. [duration |-> d, target |-> level] \in Stages
    BY <1>2 DEF Stages
  <2> HIDE DEF level, type
  <2>2. <<[duration |-> d, target |-> level]>> \in Seq(Stages)
    BY <2>1
  <2> QED
    BY <1>1, <2>2
<1>5. x = [[[[[e EXCEPT !.type = type] EXCEPT !.maxInFlight = limit] EXCEPT !.queueDepth = depth]
              EXCEPT !.pick = pick] EXCEPT !.stages = stages]
  BY <1>1 DEF ExecutorDefaults
<1> HIDE DEF x, type, level, limit, depth, pick, stages
<1>6. x = [type |-> type, rate |-> e.rate, vus |-> e.vus, stages |-> stages,
           maxInFlight |-> limit, queueDepth |-> depth, pick |-> pick]
  BY <1>1, <1>5
<1>7. /\ x.type = type /\ x.rate = e.rate /\ x.vus = e.vus /\ x.stages = stages
      /\ x.maxInFlight = limit /\ x.queueDepth = depth /\ x.pick = pick
  BY <1>6
<1>8. IsExecutor(x)
  BY <1>1, <1>2, <1>4, <1>6, <1>7 DEF IsExecutor
<1> QED
  BY <1>3, <1>7, <1>8 DEF x

\* Defaults leave the flaw of a step alone.
LEMMA StepDefaultsAre ==
  ASSUME NEW step, "flaw" \in DOMAIN step
  PROVE  "flaw" \in DOMAIN StepDefaults(step) /\ StepDefaults(step).flaw = step.flaw
BY DEF StepDefaults

\* Defaults keep the shape of a section.
LEMMA SectionDefaultsAre ==
  ASSUME NEW name \in Names, NEW s, IsSection(name, s), NEW d \in Int
  PROVE  /\ IsSection(name, SectionDefaults(name, s, d))
         /\ SectionDefaults(name, s, d).executor = ExecutorDefaults(s.executor, d)
<1> DEFINE e == [s EXCEPT !.executor = ExecutorDefaults(s.executor, d)]
<1>1. IsExecutor(ExecutorDefaults(s.executor, d))
  BY ExecutorDefaultsAre DEF IsSection
<1>2. DOMAIN s = DOMAIN EmptySection[name] /\ IsItems(s[ItemsField[name]])
  BY DEF IsSection
<1>3. CASE name = "http"
  <2>1. DOMAIN s = {"executor", "baseHost", "requests", "journeys", "feeders", "insecure"}
    BY <1>2, <1>3 DEF EmptySection, EmptyHTTP
  <2> DEFINE requests == [i \in DOMAIN s.requests |-> StepDefaults(s.requests[i])]
             t == SectionDefaults(name, s, d)
  <2>2. t = [e EXCEPT !.requests = [i \in DOMAIN @ |-> StepDefaults(@[i])],
                      !.journeys = [i \in DOMAIN @ |->
                        [@[i] EXCEPT !.steps = [k \in DOMAIN @ |-> StepDefaults(@[k])]]],
                      !.feeders = [i \in DOMAIN @ |->
                        [@[i] EXCEPT !.mode = Or(@, "", "sequential")]]]
    BY <1>3 DEF SectionDefaults
  <2>3. DOMAIN e = DOMAIN s /\ e.requests = s.requests /\ e.executor = ExecutorDefaults(s.executor, d)
    BY <2>1
  <2>4. /\ DOMAIN t = DOMAIN e /\ t.executor = e.executor
        /\ t.requests = [i \in DOMAIN e.requests |-> StepDefaults(e.requests[i])]
    BY <2>1, <2>2, <2>3
  <2>5. IsItems(s.requests)
    BY <1>2, <1>3 DEF ItemsField
  <2>6. IsItems(t.requests)
    <3>1. t.requests = requests
      BY <2>3, <2>4
    <3>2. /\ DOMAIN s.requests = 1..Len(s.requests) /\ Len(s.requests) \in Nat
          /\ \A i \in DOMAIN s.requests :
               "flaw" \in DOMAIN s.requests[i] /\ s.requests[i].flaw \cap Verdicts = {}
      BY <2>5 DEF IsItems
    <3>3. Len(requests) = Len(s.requests)
      BY <3>2
    <3>4. \A i \in DOMAIN s.requests :
            "flaw" \in DOMAIN requests[i] /\ requests[i].flaw \cap Verdicts = {}
      BY <3>2, StepDefaultsAre
    <3> QED
      BY <3>1, <3>2, <3>3, <3>4 DEF IsItems
  <2> QED
    BY <1>1, <1>2, <1>3, <2>3, <2>4, <2>6 DEF IsSection, ItemsField
<1>4. CASE name = "db"
  <2>1. DOMAIN s = {"executor", "driver", "dsn", "host", "queries", "maxOpen"}
    BY <1>2, <1>4 DEF EmptySection, EmptyDB
  <2>2. SectionDefaults(name, s, d) = [e EXCEPT !.driver = NormaliseDriver(@)]
    BY <1>4 DEF SectionDefaults
  <2> DEFINE t == SectionDefaults(name, s, d)
  <2>3. /\ DOMAIN t = DOMAIN s
        /\ t.executor = ExecutorDefaults(s.executor, d) /\ t.queries = s.queries
    BY <2>1, <2>2
  <2> QED
    BY <1>1, <1>2, <1>4, <2>3 DEF IsSection, ItemsField
<1>5. CASE name = "redis"
  <2>1. DOMAIN s = {"executor", "mode", "addr", "addrs", "masterName", "commands", "insecure", "poolSize"}
    BY <1>2, <1>5 DEF EmptySection, EmptyRedis
  <2>2. SectionDefaults(name, s, d) = [e EXCEPT !.mode = Or(@, "", "single")]
    BY <1>5 DEF SectionDefaults
  <2> DEFINE t == SectionDefaults(name, s, d)
  <2>3. /\ DOMAIN t = DOMAIN s
        /\ t.executor = ExecutorDefaults(s.executor, d) /\ t.commands = s.commands
    BY <2>1, <2>2
  <2> QED
    BY <1>1, <1>2, <1>5, <2>3 DEF IsSection, ItemsField
<1> QED
  BY <1>3, <1>4, <1>5 DEF Names

\* An open model has a limit of operations, once defaults are applied.
HasLimit(e) == e.type = "arrival-rate" => e.maxInFlight # 0
Limited(c) == \A name \in Configured(c) : HasLimit(ExecutorOf(c, name))

\* Defaults keep a document in shape, limit every executor and leave the safety section alone.
LEMMA DefaultsAre ==
  ASSUME NEW c, IsConfig(c)
  PROVE  /\ IsConfig(ApplyDefaults(c)) /\ Limited(ApplyDefaults(c))
         /\ ApplyDefaults(c).safety = c.safety
<1> DEFINE x == ApplyDefaults(c)
           d == Or(c.run.duration, 0, 60)
<1>1. /\ DOMAIN c = {"run", "slo", "safety"} \cup Names /\ IsRun(c.run) /\ IsWish(c.safety)
      /\ \A name \in Names : c[name] = {} \/ \E s \in c[name] : c[name] = {s} /\ IsSection(name, s)
  BY SectionNames DEF IsConfig
<1>2. /\ d \in Int
      /\ Or(c.run.bucket, 0, 1) \in Int /\ Or(c.run.grace, 0, 30) \in Int
      /\ Or(c.run.timeout, 0, 10) \in Int /\ Or(c.run.minSamples, 0, 20) \in Int
      /\ c.run.warmup \in Int
  <2>1. /\ c.run.duration \in Int /\ c.run.bucket \in Int /\ c.run.warmup \in Int
        /\ c.run.grace \in Int /\ c.run.timeout \in Int /\ c.run.minSamples \in Int
    BY <1>1 DEF IsRun
  <2>2. 0 \in Int /\ 1 \in Int /\ 10 \in Int /\ 20 \in Int /\ 30 \in Int /\ 60 \in Int
    OBVIOUS
  <2> QED
    BY ONLY <2>1, <2>2, OrIs
<1> DEFINE run == [c.run EXCEPT !.duration = Or(@, 0, 60), !.bucket = Or(@, 0, 1),
                                !.grace = Or(@, 0, 30), !.timeout = Or(@, 0, 10),
                                !.minSamples = Or(@, 0, 20), !.arrival = Or(@, "", "uniform")]
<1>3. run = [duration |-> d, bucket |-> Or(c.run.bucket, 0, 1), warmup |-> c.run.warmup,
             grace |-> Or(c.run.grace, 0, 30), timeout |-> Or(c.run.timeout, 0, 10),
             minSamples |-> Or(c.run.minSamples, 0, 20),
             arrival |-> Or(c.run.arrival, "", "uniform")]
  <2> HIDE DEF d
  <2>1. run = [[[[[[c.run EXCEPT !.duration = d] EXCEPT !.bucket = Or(c.run.bucket, 0, 1)]
                   EXCEPT !.grace = Or(c.run.grace, 0, 30)]
                   EXCEPT !.timeout = Or(c.run.timeout, 0, 10)]
                   EXCEPT !.minSamples = Or(c.run.minSamples, 0, 20)]
                   EXCEPT !.arrival = Or(c.run.arrival, "", "uniform")]
    BY <1>1 DEF IsRun, d
  <2> HIDE DEF run
  <2> QED
    BY <1>1, <2>1 DEF IsRun
<1>4. IsRun(run) /\ run.duration = d
  <2> HIDE DEF run, d
  <2> QED
    BY <1>2, <1>3 DEF IsRun
<1> HIDE DEF d
<1>5. x = [key \in DOMAIN c |->
             IF key = "run" THEN run
             ELSE IF key \in Names THEN {SectionDefaults(key, s, d) : s \in c[key]} ELSE c[key]]
  BY <1>4, SectionNames DEF ApplyDefaults
<1> HIDE DEF x, run
<1>6. /\ DOMAIN x = DOMAIN c /\ x.run = run /\ x.safety = c.safety
      /\ \A name \in Names : x[name] = {SectionDefaults(name, s, d) : s \in c[name]}
  BY <1>1, <1>5 DEF Names
<1>7. ASSUME NEW name \in Names, c[name] # {}
      PROVE  \E s \in x[name] : x[name] = {s} /\ IsSection(name, s) /\ HasLimit(s.executor)
  <2>1. PICK s \in c[name] : c[name] = {s} /\ IsSection(name, s)
    BY <1>1, <1>7
  <2>2. x[name] = {SectionDefaults(name, s, d)}
    BY <1>6, <2>1
  <2>3. /\ IsSection(name, SectionDefaults(name, s, d))
        /\ SectionDefaults(name, s, d).executor = ExecutorDefaults(s.executor, d)
    BY <1>2, <2>1, SectionDefaultsAre
  <2>4. HasLimit(ExecutorDefaults(s.executor, d))
    BY <1>2, <2>1, ExecutorDefaultsAre DEF IsSection, HasLimit
  <2> QED
    BY <2>2, <2>3, <2>4
<1>8. \A name \in Names : c[name] = {} => x[name] = {}
  BY <1>6
<1>9. IsConfig(x)
  <2>1. \A name \in Names : x[name] = {} \/ \E s \in x[name] : x[name] = {s} /\ IsSection(name, s)
    BY <1>7, <1>8
  <2> QED
    BY <1>1, <1>4, <1>6, <2>1, SectionNames DEF IsConfig
<1>10. Limited(x)
  <2>1. ASSUME NEW name \in Configured(x)
        PROVE  HasLimit(ExecutorOf(x, name))
    <3>1. name \in Names /\ c[name] # {}
      BY <1>8, RunnersAre
    <3>2. PICK s \in x[name] : x[name] = {s} /\ HasLimit(s.executor)
      BY <1>7, <3>1
    <3>3. Section(x, name) = s
      BY <3>2 DEF Section, Only
    <3> QED
      BY <3>2, <3>3 DEF ExecutorOf
  <2> QED
    BY <2>1 DEF Limited
<1> QED
  BY <1>6, <1>9, <1>10 DEF x

-----------------------------------------------------------------------------
(* Problems *)

\* None of these codes is what an exit says of a result.
NoVerdict(codes) == codes \cap Verdicts = {}

\* No problem is no verdict.
LEMMA NoneIs ==
  NoVerdict({})
BY DEF NoVerdict

\* Neither are the problems of several checks none of which is,
LEMMA UnionHasNone ==
  ASSUME NEW SS, \A S \in SS : NoVerdict(S)
  PROVE  NoVerdict(UNION SS)
BY DEF NoVerdict

\* nor those of two,
LEMMA BothHaveNone ==
  ASSUME NEW S, NEW T, NoVerdict(S), NoVerdict(T)
  PROVE  NoVerdict(S \cup T)
BY DEF NoVerdict

\* nor one that is reported on a condition,
LEMMA WhenHasNone ==
  ASSUME NEW condition, NEW code, code \notin Verdicts
  PROVE  NoVerdict(When(condition, code))
BY DEF NoVerdict, When

\* nor one of an invalid document.
LEMMA InvalidHasNone ==
  ASSUME NEW condition
  PROVE  NoVerdict(Invalid(condition)) /\ NoVerdict(Missing(condition))
BY WhenHasNone DEF Invalid, Missing, Verdicts

\* No check of validate.go reports a verdict: not of names,
LEMMA NamesHaveNone ==
  ASSUME NEW list, NEW unnamedToo
  PROVE  NoVerdict(Repeats(list, unnamedToo)) /\ NoVerdict(NameProblems(list))
<1>1. \A all : NoVerdict(Repeats(list, all))
  BY WhenHasNone DEF Repeats, Verdicts
<1> QED
  BY <1>1, InvalidHasNone, BothHaveNone DEF NameProblems

\* nor of the run section,
LEMMA RunHasNone ==
  ASSUME NEW run, NEW slo, NEW think
  PROVE  NoVerdict(RunProblems(run)) /\ NoVerdict(SLOProblems(slo)) /\ NoVerdict(ThinkProblems(think))
<1>1. NoVerdict(RunProblems(run)) /\ NoVerdict(SLOProblems(slo))
  BY InvalidHasNone DEF RunProblems, SLOProblems
<1>2. NoVerdict(ThinkProblems(think))
  BY InvalidHasNone, BothHaveNone DEF ThinkProblems
<1> QED
  BY <1>1, <1>2

\* nor of a step,
LEMMA StepHasNone ==
  ASSUME NEW step, NEW weighted
  PROVE  NoVerdict(StepProblems(step, weighted))
<1> DEFINE url == Missing(~step.url)
           weight == IF weighted THEN CheckWeight(step) ELSE Invalid(step.weight # {})
           body == Invalid({"body", "body_file"} \subseteq step.bodies)
           timeout == Invalid(\E t \in step.timeout : t <= 0)
           statuses == Invalid(\E code \in step.statuses : code \notin 100..599)
           extracts == Missing(\E x \in Items(step.extracts) :
                                 x.name = "" \/ (~x.path /\ x.from # "status"))
           from == Invalid(\E x \in Items(step.extracts) :
                             x.from \notin {"", "body", "header", "status"})
           thinks == UNION {ThinkProblems(think) : think \in step.think}
<1>1. StepProblems(step, weighted)
        = UNION {url, weight, body, timeout, statuses, extracts, from, thinks}
  BY DEF StepProblems
<1>2. /\ NoVerdict(url) /\ NoVerdict(weight) /\ NoVerdict(body) /\ NoVerdict(timeout)
      /\ NoVerdict(statuses) /\ NoVerdict(extracts) /\ NoVerdict(from)
  <2>1. NoVerdict(CheckWeight(step))
    BY InvalidHasNone DEF CheckWeight
  <2> QED
    BY <2>1, InvalidHasNone
<1>3. NoVerdict(thinks)
  BY RunHasNone, UnionHasNone
<1> HIDE DEF url, weight, body, timeout, statuses, extracts, from, thinks
<1>4. \A S \in {url, weight, body, timeout, statuses, extracts, from, thinks} : NoVerdict(S)
  BY <1>2, <1>3
<1> QED
  BY <1>1, <1>4, UnionHasNone

\* nor of the steps of a journey,
LEMMA StepsHaveNone ==
  ASSUME NEW steps, NEW weighted
  PROVE  NoVerdict(StepsProblems(steps, weighted))
<1>1. \A S \in {StepProblems(step, weighted) : step \in Items(steps)} \cup {NameProblems(steps)} :
        NoVerdict(S)
  BY StepHasNone, NamesHaveNone
<1> QED
  BY <1>1, UnionHasNone DEF StepsProblems

\* nor of a journey,
LEMMA JourneyHasNone ==
  ASSUME NEW j
  PROVE  NoVerdict(JourneyProblems(j))
<1>1. NoVerdict(Missing(j.name = "" \/ j.steps = <<>>)) /\ NoVerdict(CheckWeight(j))
  BY InvalidHasNone DEF CheckWeight
<1> QED
  BY <1>1, StepsHaveNone, BothHaveNone DEF JourneyProblems

\* nor of an executor,
LEMMA ExecutorHasNone ==
  ASSUME NEW e, NEW run
  PROVE  NoVerdict(ExecutorProblems(e, run))
<1> DEFINE type == CASE e.type \in {"", "arrival-rate"} -> Invalid(e.vus > 0 \/ e.maxInFlight < 0)
                     [] e.type = "vus" -> Invalid(e.rate > 0 \/ e.pick \notin {"", "per-iteration", "per-vu"})
                     [] OTHER -> Invalid(TRUE)
           both == Invalid(e.rate > 0 /\ Len(e.stages) > 1)
           none == Missing(e.stages = <<>> /\ e.rate = 0 /\ e.vus = 0)
           stages == Invalid(\E s \in Items(e.stages) : s.duration <= 0 \/ s.target < 0)
           long == When(e.stages # <<>> /\ run.duration > 0 /\ TotalDuration(e) # run.duration,
                        "CONFIG_STAGES_MISMATCH")
<1>1. ExecutorProblems(e, run) = UNION {type, both, none, stages, long}
  BY DEF ExecutorProblems
<1>2. NoVerdict(type) /\ NoVerdict(both) /\ NoVerdict(none) /\ NoVerdict(stages)
  BY InvalidHasNone
<1>3. NoVerdict(long)
  BY WhenHasNone DEF Verdicts
<1> HIDE DEF type, both, none, stages, long
<1>4. \A S \in {type, both, none, stages, long} : NoVerdict(S)
  BY <1>2, <1>3
<1> QED
  BY <1>1, <1>4, UnionHasNone

\* nor of the HTTP section,
LEMMA HTTPHasNone ==
  ASSUME NEW h
  PROVE  NoVerdict(HTTPProblems(h))
<1> DEFINE either == When(h.requests # <<>> /\ h.journeys # <<>>, "CONFIG_REQUESTS_AND_JOURNEYS")
           neither == Missing(h.requests = <<>> /\ h.journeys = <<>>)
           steps == StepsProblems(h.requests, TRUE)
           journeys == UNION {JourneyProblems(j) : j \in Items(h.journeys)}
           twice == Repeats(h.journeys, TRUE)
           shared == When(\E r \in Items(h.requests), j \in Items(h.journeys) : r.name = j.name,
                          "CONFIG_DUPLICATE_NAME")
           feeders == Missing(\E f \in Items(h.feeders) : f.name = "" \/ ~f.file)
           again == Repeats(h.feeders, TRUE)
           modes == Invalid(\E f \in Items(h.feeders) :
                              f.mode \notin {"", "sequential", "random", "unique"})
<1>1. HTTPProblems(h)
        = UNION {either, neither, steps, journeys, twice, shared, feeders, again, modes}
  BY DEF HTTPProblems
<1>2. NoVerdict(either) /\ NoVerdict(shared)
  BY WhenHasNone DEF Verdicts
<1>3. NoVerdict(neither) /\ NoVerdict(feeders) /\ NoVerdict(modes)
  BY InvalidHasNone
<1>4. NoVerdict(steps) /\ NoVerdict(twice) /\ NoVerdict(again)
  BY StepsHaveNone, NamesHaveNone
<1>5. NoVerdict(journeys)
  BY JourneyHasNone, UnionHasNone
<1> HIDE DEF either, neither, steps, journeys, twice, shared, feeders, again, modes
<1>6. \A S \in {either, neither, steps, journeys, twice, shared, feeders, again, modes} : NoVerdict(S)
  BY <1>2, <1>3, <1>4, <1>5
<1> QED
  BY <1>1, <1>6, UnionHasNone

\* nor of queries and commands,
LEMMA ItemsHaveNone ==
  ASSUME NEW items, NEW one, NEW many
  PROVE  NoVerdict(ItemsProblems(items, one, many))
<1> DEFINE names == NameProblems(items)
           none == Missing(items = <<>> \/ \E i \in Items(items) : i[one] = <<>> /\ i[many] = <<>>)
           both == Invalid(\E i \in Items(items) : i[one] # <<>> /\ i[many] # <<>>)
           weights == UNION {CheckWeight(i) : i \in Items(items)}
<1>1. ItemsProblems(items, one, many) = UNION {names, none, both, weights}
  BY DEF ItemsProblems
<1>2. NoVerdict(names) /\ NoVerdict(none) /\ NoVerdict(both)
  BY InvalidHasNone, NamesHaveNone
<1>3. NoVerdict(weights)
  <2>1. \A i : NoVerdict(CheckWeight(i))
    BY InvalidHasNone DEF CheckWeight
  <2> QED
    BY <2>1, UnionHasNone
<1> HIDE DEF names, none, both, weights
<1>4. \A S \in {names, none, both, weights} : NoVerdict(S)
  BY <1>2, <1>3
<1> QED
  BY <1>1, <1>4, UnionHasNone

\* nor of a section that holds them,
LEMMA StorageHasNone ==
  ASSUME NEW s
  PROVE  NoVerdict(DBProblems(s)) /\ NoVerdict(RedisProblems(s))
<1>1. NoVerdict(DBProblems(s))
  <2> DEFINE driver == Missing(s.driver = "")
             known == Invalid(NormaliseDriver(s.driver) \notin {"", "postgres", "mysql", "sqlite"})
             dsn == Missing(~s.dsn)
             items == ItemsProblems(s.queries, "sql", "tx")
             types == Invalid(\E q \in Items(s.queries) : q.type \notin {"", "read", "write"})
             open == Invalid(s.maxOpen < 0)
  <2>1. DBProblems(s) = UNION {driver, known, dsn, items, types, open}
    BY DEF DBProblems
  <2>2. /\ NoVerdict(driver) /\ NoVerdict(known) /\ NoVerdict(dsn) /\ NoVerdict(items)
        /\ NoVerdict(types) /\ NoVerdict(open)
    BY InvalidHasNone, ItemsHaveNone
  <2> HIDE DEF driver, known, dsn, items, types, open
  <2>3. \A S \in {driver, known, dsn, items, types, open} : NoVerdict(S)
    BY <2>2
  <2> QED
    BY <2>1, <2>3, UnionHasNone
<1>2. NoVerdict(RedisProblems(s))
  <2> DEFINE mode == CASE s.mode \in {"", "single"} -> Missing(s.addr = "" /\ s.addrs = <<>>)
                       [] s.mode = "cluster" -> Missing(s.addrs = <<>>)
                       [] s.mode = "sentinel" -> Missing(s.addrs = <<>> \/ s.masterName = "")
                       [] OTHER -> Invalid(TRUE)
             both == Invalid(s.addr # "" /\ s.addrs # <<>>)
             items == ItemsProblems(s.commands, "cmd", "pipeline")
  <2>1. RedisProblems(s) = UNION {mode, both, items}
    BY DEF RedisProblems
  <2>2. NoVerdict(mode) /\ NoVerdict(both) /\ NoVerdict(items)
    BY InvalidHasNone, ItemsHaveNone
  <2> HIDE DEF mode, both, items
  <2>3. \A S \in {mode, both, items} : NoVerdict(S)
    BY <2>2
  <2> QED
    BY <2>1, <2>3, UnionHasNone
<1> QED
  BY <1>1, <1>2

\* nor of the whole document.
LEMMA ValidateHasNone ==
  ASSUME NEW c
  PROVE  NoVerdict(Validate(c))
<1> DEFINE none == When(Configured(c) = {}, "CONFIG_NO_RUNNER")
           parts == UNION {SectionProblems(name, Section(c, name))
                             \cup ExecutorProblems(ExecutorOf(c, name), c.run) : name \in Configured(c)}
<1>1. Validate(c) = UNION {RunProblems(c.run), SLOProblems(c.slo), none, parts}
  BY DEF Validate
<1>2. NoVerdict(none)
  BY WhenHasNone DEF Verdicts
<1>3. ASSUME NEW name \in Configured(c)
      PROVE  NoVerdict(SectionProblems(name, Section(c, name))
                         \cup ExecutorProblems(ExecutorOf(c, name), c.run))
  <2>1. name \in Names
    BY RunnersAre
  <2>2. NoVerdict(SectionProblems(name, Section(c, name)))
    BY <2>1, HTTPHasNone, StorageHasNone DEF SectionProblems, Names
  <2> QED
    BY <2>2, ExecutorHasNone, BothHaveNone
<1>4. NoVerdict(parts)
  BY <1>3, UnionHasNone
<1> HIDE DEF none, parts
<1>5. \A S \in {RunProblems(c.run), SLOProblems(c.slo), none, parts} : NoVerdict(S)
  BY <1>2, <1>4, RunHasNone
<1> QED
  BY <1>1, <1>5, UnionHasNone

\* The first of the problems is one of the steps'.
LEMMA FirstIs ==
  ASSUME NEW n \in Nat, NEW steps, DOMAIN steps = 1..n, \A i \in 1..n : NoVerdict(steps[i])
  PROVE  NoVerdict(FirstProblems(steps))
<1> DEFINE failing == {i \in DOMAIN steps : steps[i] # {}}
<1>1. CASE failing = {}
  BY <1>1, NoneIs DEF FirstProblems
<1>2. CASE failing # {}
  <2>1. failing \in SUBSET Nat
    OBVIOUS
  <2> HIDE DEF failing
  <2>2. \E x \in failing : \A y \in failing : x <= y
    BY <1>2, <2>1, Setting!LeastNumber
  <2>3. Min(failing) \in failing
    BY <2>2 DEF Min
  <2>4. FirstProblems(steps) = steps[Min(failing)]
    BY <1>2 DEF FirstProblems, failing
  <2> QED
    BY <2>3, <2>4 DEF failing
<1> QED
  BY <1>1, <1>2

\* Loading a policy or a document fails with no verdict.
LEMMA LoadHasNone ==
  ASSUME NEW file, NEW src
  PROVE  NoVerdict(LoadProblems(file)) /\ NoVerdict(FirstProblems(LoadSteps(src)))
<1>1. NoVerdict(LoadProblems(file))
  BY WhenHasNone DEF LoadProblems, Verdicts
<1>2. NoVerdict(ReadProblems(src))
  <2>1. NoVerdict(When(~src.found, "CONFIG_NOT_FOUND"))
    BY WhenHasNone DEF Verdicts
  <2>2. NoVerdict(When(src.found /\ ~src.readable, "IO_READ_FAILED"))
    BY WhenHasNone DEF Verdicts
  <2> QED
    BY <2>1, <2>2, BothHaveNone DEF ReadProblems
<1> DEFINE unset == When(~src.interpolates, "CONFIG_ENV_UNSET")
           parse == When(~src.parses, "CONFIG_PARSE")
           unknown == When(~src.known, "CONFIG_UNKNOWN_FIELD")
           decode == When(~src.decodes, "CONFIG_INVALID_VALUE")
           version == When(src.version # Version, "CONFIG_VERSION_UNSUPPORTED")
<1>3. LoadSteps(src) = <<ReadProblems(src), unset, parse, unknown, decode, version>>
  BY DEF LoadSteps
<1>4. /\ NoVerdict(unset) /\ NoVerdict(parse) /\ NoVerdict(unknown) /\ NoVerdict(decode)
      /\ NoVerdict(version)
  BY WhenHasNone DEF Verdicts
<1> HIDE DEF unset, parse, unknown, decode, version
<1>5. DOMAIN LoadSteps(src) = 1..6
  BY <1>3
<1>6. \A i \in 1..6 : NoVerdict(LoadSteps(src)[i])
  <2> DEFINE steps == <<ReadProblems(src), unset, parse, unknown, decode, version>>
  <2>1. /\ steps[1] = ReadProblems(src) /\ steps[2] = unset /\ steps[3] = parse
        /\ steps[4] = unknown /\ steps[5] = decode /\ steps[6] = version
    OBVIOUS
  <2> HIDE DEF steps
  <2>2. \A i \in 1..6 : i = 1 \/ i = 2 \/ i = 3 \/ i = 4 \/ i = 5 \/ i = 6
    OBVIOUS
  <2>3. \A i \in 1..6 : NoVerdict(steps[i])
    BY <1>2, <1>4, <2>1, <2>2
  <2> QED
    BY <1>3, <2>3 DEF steps
<1>7. 6 \in Nat
  OBVIOUS
<1> QED
  BY <1>1, <1>5, <1>6, <1>7, FirstIs

-----------------------------------------------------------------------------
(* Overrides *)

\* Where an override has come to on its way down.
OnTheWay(at) ==
  /\ at = [here |-> at.here, problems |-> at.problems, above |-> at.above]
  /\ NoVerdict(at.problems)

\* Descending into a document keeps to the way or reports a problem that is no verdict.
LEMMA BelowIs ==
  ASSUME NEW at, OnTheWay(at), NEW seg
  PROVE  OnTheWay(Below(at, seg))
<1>1. CASE at.problems # {}
  BY <1>1 DEF Below
<1>2. CASE at.problems = {} /\ Blocked(at.here, seg) # {}
  <2>1. NoVerdict(Blocked(at.here, seg))
    <3>1. NoVerdict({"SET_UNKNOWN_PATH"})
      BY DEF NoVerdict, Verdicts
    <3>2. NoVerdict(When(Picks(seg) /\ Picked(at.here[seg.name], seg) = {}, "SET_INDEX_NOT_FOUND"))
      BY WhenHasNone DEF Verdicts
    <3> QED
      BY <3>1, <3>2 DEF Blocked
  <2>2. Below(at, seg) = [at EXCEPT !.problems = Blocked(at.here, seg)]
    BY <1>2 DEF Below
  <2>3. Below(at, seg)
          = [here |-> at.here, problems |-> Blocked(at.here, seg), above |-> at.above]
    BY <2>2 DEF OnTheWay
  <2> QED
    BY <2>1, <2>3 DEF OnTheWay
<1>3. CASE at.problems = {} /\ Blocked(at.here, seg) = {}
  <2>1. Below(at, seg)
          = [here |-> Inner(at.here, seg), problems |-> {},
             above |-> Append(at.above, [holder |-> at.here, seg |-> seg])]
    BY <1>3 DEF Below
  <2> QED
    BY <2>1, NoneIs DEF OnTheWay
<1> QED
  BY <1>1, <1>2, <1>3

\* An override of a path is refused with no verdict,
LEMMA SetPathHasNone ==
  ASSUME NEW v, NEW path, path \in Seq(ToSet(path)), NEW o
  PROVE  NoVerdict(SetPath(v, path, o).problems)
<1> DEFINE start == {[here |-> v, problems |-> {}, above |-> <<>>]}
           down == FoldLeft(Descend, start, path)
           end == Assign(Only(down), o)
           n == Len(path)
<1>1. n \in Nat /\ DOMAIN path = 1..n
  OBVIOUS
<1>2. down = Descending!Fold(start, path)
  BY DEF Descending!Fold, FoldLeft, Descending!FoldLeft, MapThenFoldSet,
         Descending!MapThenFoldSet, Max, Descending!Max
<1>3. PICK acc : Descending!GoesThrough(acc, start, path, n)
  <2> HIDE DEF n, start
  <2> QED
    BY <1>1, Descending!FoldGoesThrough
<1>4. /\ acc[0] = start /\ \A k \in 1..n : acc[k] = {Below(at, path[k]) : at \in acc[k - 1]}
      /\ down = acc[n]
  BY <1>2, <1>3 DEF Descending!GoesThrough, Descend
<1> HIDE DEF n
<1> DEFINE Good == {k \in 0..n : acc[k] # {} /\ \A at \in acc[k] : OnTheWay(at)}
<1>5. 0 \in Good
  <2>1. OnTheWay([here |-> v, problems |-> {}, above |-> <<>>])
    BY NoneIs DEF OnTheWay
  <2>2. start # {} /\ \A at \in start : OnTheWay(at)
    BY <2>1
  <2> HIDE DEF start
  <2> QED
    BY <1>1, <1>4, <2>2
<1>6. ASSUME NEW k \in 1..n, k - 1 \in Good
      PROVE  k \in Good
  <2>1. acc[k] = {Below(at, path[k]) : at \in acc[k - 1]}
    BY <1>4
  <2>2. acc[k - 1] # {} /\ \A at \in acc[k - 1] : OnTheWay(at)
    BY <1>6
  <2>3. acc[k] # {} /\ \A at \in acc[k] : OnTheWay(at)
    BY <2>1, <2>2, BelowIs
  <2> QED
    BY <1>1, <2>3
<1>7. n \in Good
  <2> HIDE DEF Good
  <2>1. \A k \in 0..n : k \in Good
    BY <1>1, <1>5, <1>6, Descending!UpTo
  <2> QED
    BY <1>1, <2>1
<1>8. OnTheWay(Only(down))
  BY <1>4, <1>7 DEF Only
<1>9. NoVerdict(end.problems)
  <2> DEFINE at == Only(down)
  <2> HIDE DEF down
  <2>1. CASE at.problems # {}
    BY <1>8, <2>1 DEF Assign, OnTheWay
  <2>2. CASE at.problems = {} /\ o.fits
    <3>1. end = [at EXCEPT !.here = o.value]
      BY <2>2 DEF Assign
    <3> HIDE DEF end, at
    <3>2. end.problems = at.problems
      BY <1>8, <3>1 DEF OnTheWay, at
    <3> QED
      BY <1>8, <3>2 DEF OnTheWay, at
  <2>3. CASE at.problems = {} /\ ~o.fits
    <3>1. end = [at EXCEPT !.problems = {"SET_TYPE_MISMATCH"}]
      BY <2>3 DEF Assign
    <3> HIDE DEF end, at
    <3>2. end.problems = {"SET_TYPE_MISMATCH"}
      BY <1>8, <3>1 DEF OnTheWay, at
    <3> QED
      BY <3>2 DEF NoVerdict, Verdicts
  <2> QED
    BY <2>1, <2>2, <2>3
<1>10. SetPath(v, path, o).problems = end.problems
  BY DEF SetPath
<1> QED
  BY <1>9, <1>10

\* and so are all of them together.
LEMMA ApplySetHasNone ==
  ASSUME NEW c, NEW overrides, overrides \in Seq(ToSet(overrides)),
         \A o \in ToSet(overrides) : o.path \in Seq(ToSet(o.path))
  PROVE  NoVerdict(ApplySet(c, overrides).problems)
<1> DEFINE start == [value |-> c, problems |-> {}]
           n == Len(overrides)
<1>1. n \in Nat /\ DOMAIN overrides = 1..n /\ \A i \in 1..n : overrides[i] \in ToSet(overrides)
  BY DEF ToSet
<1>2. ApplySet(c, overrides) = Setting!Fold(start, overrides)
  BY DEF ApplySet, Setting!Fold, FoldLeft, Setting!FoldLeft, MapThenFoldSet,
         Setting!MapThenFoldSet, Max, Setting!Max
<1>3. PICK acc : Setting!GoesThrough(acc, start, overrides, n)
  <2> HIDE DEF n, start
  <2> QED
    BY <1>1, Setting!FoldGoesThrough
<1>4. /\ acc[0] = start /\ \A k \in 1..n : acc[k] = ApplyOne(acc[k - 1], overrides[k])
      /\ ApplySet(c, overrides) = acc[n]
  BY <1>2, <1>3 DEF Setting!GoesThrough
<1> HIDE DEF n
<1> DEFINE Good == {k \in 0..n : NoVerdict(acc[k].problems)}
<1>5. 0 \in Good
  <2>1. NoVerdict(start.problems)
    BY NoneIs
  <2> HIDE DEF start
  <2> QED
    BY <1>1, <1>4, <2>1
<1>6. ASSUME NEW k \in 1..n, k - 1 \in Good
      PROVE  k \in Good
  <2> DEFINE o == overrides[k]
             set == IF o.isPair THEN SetPath(acc[k - 1].value, o.path, o)
                    ELSE [value |-> acc[k - 1].value, problems |-> {"SET_PARSE"}]
  <2>1. NoVerdict(set.problems)
    <3>1. CASE o.isPair
      BY <1>1, <3>1, SetPathHasNone
    <3>2. CASE ~o.isPair
      BY <3>2 DEF NoVerdict, Verdicts
    <3> QED
      BY <3>1, <3>2
  <2>2. acc[k].problems = acc[k - 1].problems \cup set.problems
    <3>1. acc[k] = ApplyOne(acc[k - 1], o)
      BY <1>4
    <3>2. ApplyOne(acc[k - 1], o)
            = [value |-> set.value, problems |-> acc[k - 1].problems \cup set.problems]
      BY DEF ApplyOne
    <3> HIDE DEF set, o
    <3> QED
      BY <3>1, <3>2
  <2> HIDE DEF set
  <2>3. NoVerdict(acc[k - 1].problems)
    BY <1>6
  <2>4. NoVerdict(acc[k].problems)
    BY <2>1, <2>2, <2>3, BothHaveNone
  <2> QED
    BY <1>1, <2>4
<1>7. n \in Good
  <2> HIDE DEF Good
  <2>1. \A k \in 0..n : k \in Good
    BY <1>1, <1>5, <1>6, Setting!UpTo
  <2> QED
    BY <1>1, <2>1
<1> QED
  BY <1>4, <1>7

-----------------------------------------------------------------------------
(* The policy *)

\* A policy refuses a document with no verdict.
LEMMA PolicyHasNone ==
  ASSUME NEW c, NEW granted
  PROVE  NoVerdict(ApplyPolicy(c, granted).problems)
<1> DEFINE want == c.safety
<1>1. NoVerdict(TightenProblems(granted, want))
  <2> DEFINE writes == When(want.allowWrites /\ ~granted.allowWrites, "POLICY_WRITES_NOT_ALLOWED")
             dangerous == When(want.allowDangerous /\ ~granted.allowDangerous,
                               "POLICY_DANGEROUS_NOT_ALLOWED")
             tls == When(want.allowInsecureTLS /\ ~granted.allowInsecureTLS,
                         "POLICY_INSECURE_TLS_NOT_ALLOWED")
             targets == When(\E entry \in want.allowTargets : ~AllowlistPermits(granted, entry),
                             "POLICY_TARGET_NOT_ALLOWED")
             rate == When(\E n \in want.maxRate : Exceeds(n, granted.maxRate), "POLICY_DENIED")
             flight == When(\E n \in want.maxInFlight : Exceeds(n, granted.maxInFlight), "POLICY_DENIED")
             long == When(\E n \in want.maxDuration : Exceeds(n, granted.maxDuration), "POLICY_DENIED")
  <2>1. TightenProblems(granted, want)
          = UNION {writes, dangerous, tls, targets, rate, flight, long}
    BY DEF TightenProblems
  <2>2. /\ NoVerdict(writes) /\ NoVerdict(dangerous) /\ NoVerdict(tls) /\ NoVerdict(targets)
        /\ NoVerdict(rate) /\ NoVerdict(flight) /\ NoVerdict(long)
    BY WhenHasNone DEF Verdicts
  <2> HIDE DEF writes, dangerous, tls, targets, rate, flight, long
  <2>3. \A S \in {writes, dangerous, tls, targets, rate, flight, long} : NoVerdict(S)
    BY <2>2
  <2> QED
    BY <2>1, <2>3, UnionHasNone
<1>2. ASSUME NEW p
      PROVE  NoVerdict(EnvelopeProblems(c, p))
  <2> DEFINE Storage(name) == CheckWrites(p, Writes(c, name)) \cup CheckDangerous(p, Dangerous(c, name))
             Asked(name) == CheckRate(p, PeakRate(ExecutorOf(c, name)))
                             \cup (IF ExecutorOf(c, name).maxInFlight > 0
                                   THEN CheckInFlight(p, ExecutorOf(c, name).maxInFlight) ELSE {})
             storage == UNION {Storage(name) : name \in {"db", "redis"}}
             load == UNION {Asked(name) : name \in Configured(c)}
             long == CheckDuration(p, c.run.duration)
             tls == When(InsecureTLS(c) /\ ~p.allowInsecureTLS, "POLICY_INSECURE_TLS_NOT_ALLOWED")
  <2>1. EnvelopeProblems(c, p) = UNION {storage, long, load, tls}
    BY DEF EnvelopeProblems
  <2>2. \A name : NoVerdict(Storage(name))
    <3>1. ASSUME NEW name
          PROVE  /\ NoVerdict(CheckWrites(p, Writes(c, name)))
                 /\ NoVerdict(CheckDangerous(p, Dangerous(c, name)))
      BY WhenHasNone DEF CheckWrites, CheckDangerous, Verdicts
    <3> QED
      BY <3>1, BothHaveNone
  <2>3. \A name : NoVerdict(Asked(name))
    <3>1. \A n : NoVerdict(CheckRate(p, n)) /\ NoVerdict(CheckInFlight(p, n))
      BY WhenHasNone DEF CheckRate, CheckInFlight, Verdicts
    <3> QED
      BY <3>1, BothHaveNone, NoneIs
  <2>4. NoVerdict(long) /\ NoVerdict(tls)
    BY WhenHasNone DEF CheckDuration, Verdicts
  <2> HIDE DEF Storage, Asked
  <2>5. NoVerdict(storage) /\ NoVerdict(load)
    BY <2>2, <2>3, UnionHasNone
  <2> HIDE DEF storage, load, long, tls
  <2>6. \A S \in {storage, long, load, tls} : NoVerdict(S)
    BY <2>4, <2>5
  <2> QED
    BY <2>1, <2>6, UnionHasNone
<1>3. CASE TightenProblems(granted, want) # {}
  BY <1>1, <1>3 DEF ApplyPolicy
<1>4. CASE TightenProblems(granted, want) = {}
  BY <1>2, <1>4 DEF ApplyPolicy
<1> QED
  BY <1>3, <1>4

\* What it means that the policy finds nothing.
LEMMA GrantedIs ==
  ASSUME NEW c, NEW p, ApplyPolicy(c, p).problems = {}
  PROVE  /\ ApplyPolicy(c, p).effective = Tighten(p, c.safety)
         /\ TightenProblems(p, c.safety) = {}
         /\ EnvelopeProblems(c, Tighten(p, c.safety)) = {}
BY DEF ApplyPolicy

\* A document without envelope problems has passed every check of the envelope.
LEMMA EnvelopeSays ==
  ASSUME NEW c, NEW p, EnvelopeProblems(c, p) = {}
  PROVE  /\ CheckDuration(p, c.run.duration) = {}
         /\ \A name \in Configured(c) :
              /\ CheckRate(p, PeakRate(ExecutorOf(c, name))) = {}
              /\ ExecutorOf(c, name).maxInFlight > 0
                   => CheckInFlight(p, ExecutorOf(c, name).maxInFlight) = {}
         /\ \A name \in {"db", "redis"} :
              CheckWrites(p, Writes(c, name)) = {} /\ CheckDangerous(p, Dangerous(c, name)) = {}
<1> DEFINE Storage(name) == CheckWrites(p, Writes(c, name)) \cup CheckDangerous(p, Dangerous(c, name))
           Asked(name) == CheckRate(p, PeakRate(ExecutorOf(c, name)))
                           \cup (IF ExecutorOf(c, name).maxInFlight > 0
                                 THEN CheckInFlight(p, ExecutorOf(c, name).maxInFlight) ELSE {})
           storage == UNION {Storage(name) : name \in {"db", "redis"}}
           load == UNION {Asked(name) : name \in Configured(c)}
           long == CheckDuration(p, c.run.duration)
           tls == When(InsecureTLS(c) /\ ~p.allowInsecureTLS, "POLICY_INSECURE_TLS_NOT_ALLOWED")
<1>1. EnvelopeProblems(c, p) = UNION {storage, long, load, tls}
  BY DEF EnvelopeProblems
<1> HIDE DEF storage, load, long, tls
<1>2. storage = {} /\ long = {} /\ load = {}
  BY <1>1
<1> HIDE DEF Storage, Asked
<1>3. (\A name \in {"db", "redis"} : Storage(name) = {}) /\ \A name \in Configured(c) : Asked(name) = {}
  BY <1>2 DEF storage, load
<1>4. \A name \in {"db", "redis"} :
        CheckWrites(p, Writes(c, name)) = {} /\ CheckDangerous(p, Dangerous(c, name)) = {}
  BY <1>3 DEF Storage
<1>5. ASSUME NEW name \in Configured(c)
      PROVE  /\ CheckRate(p, PeakRate(ExecutorOf(c, name))) = {}
             /\ ExecutorOf(c, name).maxInFlight > 0
                  => CheckInFlight(p, ExecutorOf(c, name).maxInFlight) = {}
  BY <1>3 DEF Asked
<1> QED
  BY <1>2, <1>4, <1>5 DEF long

-----------------------------------------------------------------------------
(* Building the runners *)

\* A runner that cannot be built has a problem of its configuration, never a verdict.
LEMMA BuildHasNone ==
  ASSUME IsConfig(cfg)
  PROVE  NoVerdict(FirstProblems([i \in DOMAIN RunnersOf(cfg) |-> BuildProblems(RunnersOf(cfg)[i])]))
<1> DEFINE order == RunnersOf(cfg)
           problems == [i \in DOMAIN order |-> BuildProblems(order[i])]
<1>1. DOMAIN order = 1..Len(order) /\ Len(order) \in Nat /\ \A i \in DOMAIN order : order[i] \in Configured(cfg)
  BY RunnersAre
<1>2. ASSUME NEW name \in Configured(cfg)
      PROVE  NoVerdict(BuildProblems(name))
  <2> DEFINE items == ItemsOf(name)
             flaws == [i \in DOMAIN items |-> items[i].flaw]
             section == Section(cfg, name)
  <2>1. name \in Names /\ cfg[name] # {} /\ IsSection(name, section)
    BY SectionIs, RunnersAre
  <2>2. CASE name = "http" /\ section.journeys # <<>>
    <3>1. BuildProblems(name) = {"CONFIG_INVALID_VALUE"}
      BY <2>2 DEF BuildProblems
    <3> QED
      BY <3>1 DEF NoVerdict, Verdicts
  <2>3. CASE ~(name = "http" /\ section.journeys # <<>>)
    <3>1. BuildProblems(name) = FirstProblems(flaws)
      BY <2>3 DEF BuildProblems
    <3>2. IsItems(items)
      <4>1. IsItems(section[ItemsField[name]])
        BY <2>1 DEF IsSection
      <4>2. items = section[ItemsField[name]]
        <5> HIDE DEF section
        <5>1. CASE name = "http"
          BY <5>1 DEF ItemsOf, ItemsField, section
        <5>2. CASE name = "db"
          BY <2>1, <5>2 DEF ItemsOf, StorageItems, ItemsField, section
        <5>3. CASE name = "redis"
          BY <2>1, <5>3 DEF ItemsOf, StorageItems, ItemsField, section
        <5> QED
          BY <2>1, <5>1, <5>2, <5>3 DEF Names
      <4> QED
        BY <4>1, <4>2
    <3> HIDE DEF items
    <3>3. DOMAIN flaws = 1..Len(items) /\ Len(items) \in Nat /\ \A i \in 1..Len(items) : NoVerdict(flaws[i])
      BY <3>2 DEF IsItems, NoVerdict
    <3> HIDE DEF flaws
    <3>4. NoVerdict(FirstProblems(flaws))
      BY <3>3, FirstIs
    <3> QED
      BY <3>1, <3>4
  <2> QED
    BY <2>2, <2>3
<1>3. DOMAIN problems = 1..Len(order) /\ \A i \in 1..Len(order) : NoVerdict(problems[i])
  BY <1>1, <1>2
<1> HIDE DEF problems, order
<1>4. NoVerdict(FirstProblems(problems))
  BY <1>1, <1>3, FirstIs
<1> QED
  BY <1>4 DEF problems, order

\* What validation makes sure of.
LEMMA ValidIs ==
  ASSUME NEW c, IsConfig(c), Validate(c) = {}, NEW name \in Configured(c)
  PROVE  LET e == ExecutorOf(c, name)
         IN /\ c.run.duration \in Nat \ {0} /\ IsExecutor(e)
            /\ e.type = "arrival-rate" => e.maxInFlight >= 0
            /\ \A i \in DOMAIN e.stages : ~(e.stages[i].duration <= 0) /\ ~(e.stages[i].target < 0)
            /\ e.stages # <<>> => TotalDuration(e) = c.run.duration
<1> DEFINE e == ExecutorOf(c, name)
           none == When(Configured(c) = {}, "CONFIG_NO_RUNNER")
           parts == UNION {SectionProblems(n, Section(c, n))
                             \cup ExecutorProblems(ExecutorOf(c, n), c.run) : n \in Configured(c)}
<1>1. IsExecutor(e) /\ IsRun(c.run)
  BY SectionIs DEF IsSection, IsConfig, ExecutorOf
<1>2. Validate(c) = UNION {RunProblems(c.run), SLOProblems(c.slo), none, parts}
  BY DEF Validate
<1> HIDE DEF none
<1>3. RunProblems(c.run) = {} /\ parts = {}
  <2> HIDE DEF parts
  <2> QED
    BY <1>2
<1>4. ExecutorProblems(e, c.run) = {}
  BY <1>3
<1> HIDE DEF parts
<1>5. c.run.duration \in Nat \ {0}
  <2>1. ~(c.run.duration <= 0)
    BY <1>3 DEF RunProblems, Invalid, When
  <2> QED
    BY <1>1, <2>1 DEF IsRun
<1> DEFINE type == CASE e.type \in {"", "arrival-rate"} -> Invalid(e.vus > 0 \/ e.maxInFlight < 0)
                     [] e.type = "vus" -> Invalid(e.rate > 0 \/ e.pick \notin {"", "per-iteration", "per-vu"})
                     [] OTHER -> Invalid(TRUE)
           stages == Invalid(\E s \in Items(e.stages) : s.duration <= 0 \/ s.target < 0)
           long == When(e.stages # <<>> /\ c.run.duration > 0 /\ TotalDuration(e) # c.run.duration,
                        "CONFIG_STAGES_MISMATCH")
<1>6. type = {} /\ stages = {} /\ long = {}
  <2> DEFINE both == Invalid(e.rate > 0 /\ Len(e.stages) > 1)
             missing == Missing(e.stages = <<>> /\ e.rate = 0 /\ e.vus = 0)
  <2>1. ExecutorProblems(e, c.run) = UNION {type, both, missing, stages, long}
    BY DEF ExecutorProblems
  <2> HIDE DEF type, both, missing, stages, long
  <2> QED
    BY <1>4, <2>1
<1>7. ASSUME e.type = "arrival-rate"
      PROVE  e.maxInFlight >= 0
  <2>1. type = Invalid(e.vus > 0 \/ e.maxInFlight < 0)
    BY <1>7
  <2>2. ~(e.maxInFlight < 0)
    BY <1>6, <2>1 DEF Invalid, When
  <2>3. e.maxInFlight \in Int
    BY <1>1 DEF IsExecutor
  <2> HIDE DEF e
  <2> QED
    BY <2>2, <2>3
<1>8. \A s \in Items(e.stages) : ~(s.duration <= 0) /\ ~(s.target < 0)
  BY <1>6 DEF Invalid, When
<1>9. \A i \in DOMAIN e.stages : ~(e.stages[i].duration <= 0) /\ ~(e.stages[i].target < 0)
  BY <1>8 DEF Items, ToSet
<1>10. ASSUME e.stages # <<>>
       PROVE  TotalDuration(e) = c.run.duration
  <2>1. ~(e.stages # <<>> /\ c.run.duration > 0 /\ TotalDuration(e) # c.run.duration)
    BY <1>6 DEF When
  <2> HIDE DEF e, type, stages, long
  <2>2. c.run.duration > 0
    BY <1>5
  <2> QED
    BY <1>10, <2>1, <2>2
<1> QED
  BY <1>1, <1>5, <1>7, <1>9, <1>10

-----------------------------------------------------------------------------
(* The load a configuration asks for *)

\* Among finitely many numbers one is the greatest.
LEMMA GreatestValue ==
  ASSUME NEW n \in Nat, NEW f, \A i \in 0..n : f[i] \in Int
  PROVE  \E k \in 0..n : \A i \in 0..n : f[k] >= f[i]
<1> DEFINE Good == {k \in 0..n : \E j \in 0..k : \A i \in 0..k : f[j] >= f[i]}
<1>1. 0 \in Good
  OBVIOUS
<1>2. ASSUME NEW k \in 1..n, k - 1 \in Good
      PROVE  k \in Good
  <2>1. PICK j \in 0..(k - 1) : \A i \in 0..(k - 1) : f[j] >= f[i]
    BY <1>2
  <2>2. f[j] \in Int /\ f[k] \in Int /\ \A i \in 0..k : f[i] \in Int
    OBVIOUS
  <2>3. \A i \in 0..k : i \in 0..(k - 1) \/ i = k
    OBVIOUS
  <2>4. CASE f[j] >= f[k]
    <3>1. \A i \in 0..k : f[j] >= f[i]
      BY <2>1, <2>3, <2>4
    <3> QED
      BY <3>1
  <2>5. CASE f[k] > f[j]
    <3>1. \A i \in 0..k : f[k] >= f[i]
      BY <2>1, <2>2, <2>3, <2>5
    <3> QED
      BY <3>1
  <2> QED
    BY <2>2, <2>4, <2>5
<1> HIDE DEF Good
<1>3. n \in Good
  BY <1>1, <1>2, Setting!UpTo
<1> QED
  BY <1>3 DEF Good

\* The peak of an executor is a bound of everything it is the peak of.
LEMMA PeakIs ==
  ASSUME NEW e, IsExecutor(e)
  PROVE  /\ PeakRate(e) \in Int /\ e.rate <= PeakRate(e)
         /\ \A i \in DOMAIN e.stages : e.stages[i].target <= PeakRate(e)
<1> DEFINE n == Len(e.stages)
           target(i) == IF i = 0 THEN e.rate ELSE e.stages[i].target
           rates == {e.rate} \cup {e.stages[i].target : i \in DOMAIN e.stages}
<1>1. e.stages \in Seq(Stages) /\ e.rate \in Int
  BY DEF IsExecutor
<1>2. n \in Nat /\ DOMAIN e.stages = 1..n /\ \A i \in 1..n : e.stages[i].target \in Int
  <2>1. n \in Nat /\ DOMAIN e.stages = 1..n /\ \A i \in 1..n : e.stages[i] \in Stages
    BY <1>1
  <2> QED
    BY <2>1 DEF Stages
<1>3. \A i \in 0..n : target(i) \in Int
  BY <1>1, <1>2
<1>4. rates = {target(i) : i \in 0..n}
  BY <1>2
<1> HIDE DEF n, target, rates
<1>5. \E x \in rates : \A y \in rates : x >= y
  <2> DEFINE top == [i \in 0..n |-> target(i)]
  <2>1. \A i \in 0..n : top[i] = target(i)
    OBVIOUS
  <2> HIDE DEF top
  <2>2. PICK k \in 0..n : \A i \in 0..n : top[k] >= top[i]
    BY <1>2, <1>3, <2>1, GreatestValue
  <2> QED
    BY <1>4, <2>1, <2>2
<1>6. Max(rates) \in rates /\ \A y \in rates : Max(rates) >= y
  BY <1>5 DEF Max
<1>7. rates \subseteq Int /\ PeakRate(e) = Max(rates)
  BY <1>3, <1>4 DEF PeakRate, rates
<1>8. \A y \in rates : y <= PeakRate(e)
  BY <1>6, <1>7
<1>9. PeakRate(e) \in Int
  BY <1>6, <1>7
<1> QED
  BY <1>8, <1>9 DEF rates

\* A load starts from its rate, its number of users, or nothing; never below nothing, nor
\* above the peak, if it is an arrival rate.
LEMMA StartIs ==
  ASSUME NEW e, IsExecutor(e), e.stages # <<>>,
         \A i \in DOMAIN e.stages : ~(e.stages[i].duration <= 0) /\ ~(e.stages[i].target < 0)
  PROVE  /\ StartRate(e) \in Nat /\ StartRate(e) <= PeakRate(e)
         /\ Acceptable(StartRate(e), e.stages)
<1>1. e.stages \in Seq(Stages) /\ e.rate \in Int /\ e.vus \in Int
  BY DEF IsExecutor
<1>2. 1 \in DOMAIN e.stages /\ e.stages[1] \in Stages
  BY <1>1
<1>3. /\ e.stages[1].target \in Nat
      /\ e.stages[1].target <= PeakRate(e) /\ PeakRate(e) \in Int
  BY <1>2, PeakIs DEF Stages
<1>4. StartRate(e) \in Nat /\ StartRate(e) <= PeakRate(e)
  <2>1. CASE e.rate > 0 /\ Len(e.stages) = 1 /\ e.stages[1].target = e.rate
    <3>1. StartRate(e) = e.rate
      BY <2>1 DEF StartRate
    <3> QED
      BY <1>3, <2>1, <3>1
  <2>2. CASE /\ ~(e.rate > 0 /\ Len(e.stages) = 1 /\ e.stages[1].target = e.rate)
             /\ e.vus > 0 /\ Len(e.stages) = 1 /\ e.stages[1].target = e.vus
    <3>1. StartRate(e) = e.vus
      BY <2>2 DEF StartRate
    <3> QED
      BY <1>3, <2>2, <3>1
  <2>3. CASE /\ ~(e.rate > 0 /\ Len(e.stages) = 1 /\ e.stages[1].target = e.rate)
             /\ ~(e.vus > 0 /\ Len(e.stages) = 1 /\ e.stages[1].target = e.vus)
    <3>1. StartRate(e) = 0
      BY <2>3 DEF StartRate
    <3> QED
      BY <1>3, <3>1
  <2> QED
    BY <2>1, <2>2, <2>3
<1> QED
  BY <1>1, <1>4 DEF Acceptable, ProfileRefused

\* A classifier says of a statement that it reads or that it writes.
Ops == {"read", "write"}

\* Whatever a statement is taken for is an operation.
LEMMA ClassifiedIs ==
  ASSUME NEW name, NEW item, NEW got \in Judgements(name, item)
  PROVE  got.op \in Ops
<1>1. ASSUME NEW statement
      PROVE  ClassifySQL(statement).op \in Ops
  BY DEF ClassifySQL, Ops
<1>2. ASSUME NEW args
      PROVE  ClassifyRedis(args).op \in Ops
  <2>1. CASE args = <<>>
    BY <2>1 DEF ClassifyRedis, Read, Judged, Ops
  <2>2. CASE args # <<>>
    <3> DEFINE cmd == Head(args)
               sub == IF Len(args) > 1 THEN args[2] ELSE ""
               judged == CASE cmd = "SORT" -> IF "STORE" \in Words(Tail(args)) THEN Write ELSE Read
                           [] cmd \in RedisDangerous -> Destroys(cmd)
                           [] cmd \in DOMAIN RedisDangerousSub ->
                                IF sub \in RedisDangerousSub[cmd] THEN Destroys(cmd) ELSE Read
                           [] cmd \in RedisReads -> Read
                           [] cmd \in RedisWrites -> Write
                           [] OTHER -> Unrecognised
    <3>1. ClassifyRedis(args) = [judged EXCEPT !.blocking = When(cmd \in RedisBlocking, cmd)]
      BY <2>2 DEF ClassifyRedis
    <3>2. \A j \in {Read, Write, Unrecognised, Destroys(cmd)} :
            j = [op |-> j.op, dangerous |-> j.dangerous, blocking |-> j.blocking, certain |-> j.certain]
              /\ j.op \in Ops
      BY DEF Read, Write, Unrecognised, Destroys, Judged, Ops
    <3>3. judged \in {Read, Write, Unrecognised, Destroys(cmd)}
      <4> HIDE DEF cmd, sub
      <4> QED
        OBVIOUS
    <3> HIDE DEF judged, cmd
    <3> QED
      BY <3>1, <3>2, <3>3
  <2> QED
    BY <2>1, <2>2
<1> QED
  BY <1>1, <1>2 DEF Judgements

\* What a grant lets through, of a storage section: unless writes are granted, nothing that
\* is declared to write, or may.
LEMMA GrantedStatements ==
  ASSUME NEW c, NEW name, NEW p, CheckWrites(p, Writes(c, name)) = {},
         CheckDangerous(p, Dangerous(c, name)) = {}
  PROVE  /\ Dangerous(c, name) = {} \/ p.allowDangerous
         /\ p.allowWrites \/ \A item \in ToSet(StorageItems(c, name)) :
              /\ item.type # "write"
              /\ item.type = "" => \A got \in Judgements(name, item) : got.op = "read"
<1>1. Dangerous(c, name) = {} \/ p.allowDangerous
  BY DEF CheckDangerous, When
<1>2. ASSUME ~p.allowWrites, NEW item \in ToSet(StorageItems(c, name))
      PROVE  ~IsWrite(name, item)
  <2>1. Writes(c, name) = {}
    BY <1>2 DEF CheckWrites, When
  <2>2. item \notin {i \in ToSet(StorageItems(c, name)) : IsWrite(name, i)}
    BY <2>1 DEF Writes
  <2> QED
    BY <2>2
<1>3. ASSUME ~p.allowWrites, NEW item \in ToSet(StorageItems(c, name))
      PROVE  /\ item.type # "write"
             /\ item.type = "" => \A got \in Judgements(name, item) : got.op = "read"
  <2>1. /\ item.type # "write"
        /\ item.type = "" => \A got \in Judgements(name, item) : got.op # "write"
    BY <1>2, <1>3 DEF IsWrite
  <2>2. \A got \in Judgements(name, item) : got.op \in {"read", "write"}
    BY ClassifiedIs DEF Ops
  <2> QED
    BY <2>1, <2>2
<1> QED
  BY <1>1, <1>3

-----------------------------------------------------------------------------
(* The envelope *)

\* What a document must have passed before a policy is asked about it.
Sound(c) == IsConfig(c) /\ Validate(c) = {} /\ Limited(c)

\* What a policy lets through, of a configuration.
Lets(p, c) ==
  /\ p.maxRate \subseteq Int /\ p.maxInFlight \subseteq Int /\ p.maxDuration \subseteq Int
  /\ CheckDuration(p, c.run.duration) = {}
  /\ \A name \in Configured(c) :
       /\ CheckRate(p, PeakRate(ExecutorOf(c, name))) = {}
       /\ ExecutorOf(c, name).maxInFlight > 0
            => CheckInFlight(p, ExecutorOf(c, name).maxInFlight) = {}
  /\ \A name \in {"db", "redis"} :
       CheckWrites(p, Writes(c, name)) = {} /\ CheckDangerous(p, Dangerous(c, name)) = {}

\* The policy of an invocation is a grant, the default one included.
LEMMA GrantIs ==
  ASSUME NEW i \in Invocations
  PROVE  IsGrant(Load(i.policy))
<1>1. CASE i.policy = {}
  <2>1. Load(i.policy) = Default
    BY <1>1 DEF Load
  <2> QED
    BY <2>1 DEF IsGrant, Default
<1>2. CASE i.policy # {}
  <2> DEFINE f == CHOOSE f \in i.policy : TRUE
  <2>1. f \in i.policy
    BY <1>2
  <2>2. Load(i.policy) = f.grant
    BY <1>2 DEF Load
  <2> QED
    BY <2>1, <2>2, CommandAssumption
<1> QED
  BY <1>1, <1>2

\* What is checked against the tightened envelope holds of the policy too.
LEMMA BothLet ==
  ASSUME NEW granted, IsGrant(granted), NEW c, Sound(c), ApplyPolicy(c, granted).problems = {}
  PROVE  Lets(granted, c) /\ Lets(Tighten(granted, c.safety), c)
<1> DEFINE p == Tighten(granted, c.safety)
<1>1. TightenProblems(granted, c.safety) = {} /\ EnvelopeProblems(c, p) = {}
  BY GrantedIs
<1>2. Permitted(granted, c.safety)
  BY <1>1 DEF Permitted, Sound, IsConfig
<1>3. /\ CheckDuration(p, c.run.duration) = {}
      /\ \A name \in Configured(c) :
           /\ CheckRate(p, PeakRate(ExecutorOf(c, name))) = {}
           /\ ExecutorOf(c, name).maxInFlight > 0
                => CheckInFlight(p, ExecutorOf(c, name).maxInFlight) = {}
      /\ \A name \in {"db", "redis"} :
           CheckWrites(p, Writes(c, name)) = {} /\ CheckDangerous(p, Dangerous(c, name)) = {}
  <2> HIDE DEF p
  <2> QED
    BY <1>1, EnvelopeSays DEF p
<1>4. /\ p.maxRate \subseteq Int /\ p.maxInFlight \subseteq Int /\ p.maxDuration \subseteq Int
      /\ granted.maxRate \subseteq Int /\ granted.maxInFlight \subseteq Int
      /\ granted.maxDuration \subseteq Int
  BY <1>2, TightenedFields DEF Permitted, IsGrant, IsWish, Narrowed
<1>5. c.run.duration \in Int
  BY DEF Sound, IsConfig, IsRun
<1>6. ASSUME NEW name \in Configured(c)
      PROVE  PeakRate(ExecutorOf(c, name)) \in Int /\ ExecutorOf(c, name).maxInFlight \in Int
  <2>1. IsExecutor(ExecutorOf(c, name))
    BY SectionIs DEF Sound, IsSection, ExecutorOf
  <2>2. ExecutorOf(c, name).maxInFlight \in Int
    BY <2>1 DEF IsExecutor
  <2> QED
    BY <2>1, <2>2, PeakIs
<1>7. \A n \in Int : /\ CheckRate(p, n) = {} => CheckRate(granted, n) = {}
                     /\ CheckInFlight(p, n) = {} => CheckInFlight(granted, n) = {}
                     /\ CheckDuration(p, n) = {} => CheckDuration(granted, n) = {}
  BY <1>2, TightenNeverRaisesALimit
<1>8. \A found : /\ CheckWrites(p, found) = {} => CheckWrites(granted, found) = {}
                 /\ CheckDangerous(p, found) = {} => CheckDangerous(granted, found) = {}
  BY <1>2, TightenNeverGrantsACapability
<1> HIDE DEF p
<1>9. Lets(p, c)
  BY <1>3, <1>4 DEF Lets
<1>10. Lets(granted, c)
  BY <1>3, <1>4, <1>5, <1>6, <1>7, <1>8 DEF Lets
<1> QED
  BY <1>9, <1>10 DEF p

\* A number that passes a check is no greater than the limit it was checked against.
LEMMA NeverExceeded ==
  ASSUME NEW p, NEW n \in Int
  PROVE  /\ CheckRate(p, n) = {} /\ p.maxRate \subseteq Int => \A most \in p.maxRate : n <= most
         /\ CheckInFlight(p, n) = {} /\ p.maxInFlight \subseteq Int
              => \A most \in p.maxInFlight : n <= most
         /\ CheckDuration(p, n) = {} /\ p.maxDuration \subseteq Int
              => \A most \in p.maxDuration : n <= most
<1>1. ASSUME NEW limit, limit \subseteq Int, ~Exceeds(n, limit)
      PROVE  \A most \in limit : n <= most
  <2>1. \A most \in limit : ~(n > most) /\ most \in Int
    BY <1>1 DEF Exceeds
  <2> QED
    BY <2>1
<1>2. /\ CheckRate(p, n) = {} => ~Exceeds(n, p.maxRate)
      /\ CheckInFlight(p, n) = {} => ~Exceeds(n, p.maxInFlight)
      /\ CheckDuration(p, n) = {} => ~Exceeds(n, p.maxDuration)
  BY DEF CheckRate, CheckInFlight, CheckDuration, When
<1> QED
  BY <1>1, <1>2

\* A schedule of a runner of the configuration, not refused and under way.
Follows(c, name, s) ==
  LET e == ExecutorOf(c, name)
  IN /\ ~ProfileRefused(StartRate(e), e.stages)
     /\ s.profile = NewProfile(StartRate(e), e.stages)
     /\ UnderWay(s, c.run.arrival # "poisson")

\* The profile such a schedule follows has the shape of its stages and the length of the run.
LEMMA FollowsIs ==
  ASSUME NEW c, Sound(c), NEW name \in Configured(c), NEW s, Follows(c, name, s)
  PROVE  LET e == ExecutorOf(c, name)
         IN /\ IsExecutor(e) /\ e.stages # <<>> /\ Acceptable(StartRate(e), e.stages)
            /\ StartRate(e) <= PeakRate(e)
            /\ Shape(s.profile, Len(e.stages), StartRate(e), e.stages)
            /\ s.profile.duration = c.run.duration /\ c.run.duration \in Nat
<1> DEFINE e == ExecutorOf(c, name)
<1>1. /\ c.run.duration \in Nat \ {0} /\ IsExecutor(e)
      /\ \A i \in DOMAIN e.stages : ~(e.stages[i].duration <= 0) /\ ~(e.stages[i].target < 0)
      /\ e.stages # <<>> => TotalDuration(e) = c.run.duration
  BY ValidIs DEF Sound
<1>2. s.profile = NewProfile(StartRate(e), e.stages) /\ e.stages # <<>>
  BY DEF Follows, ProfileRefused
<1> HIDE DEF e
<1>3. Acceptable(StartRate(e), e.stages) /\ StartRate(e) <= PeakRate(e)
  BY <1>1, <1>2, StartIs
<1>4. Shape(s.profile, Len(e.stages), StartRate(e), e.stages)
  BY <1>2, <1>3, ProfileShape
<1>5. TotalDuration(e) = s.profile.duration
  BY <1>3, <1>4, LastsAsLong
<1> QED
  BY <1>1, <1>2, <1>3, <1>4, <1>5 DEF e

\* The load of one runner stays in the envelope of a policy that lets its configuration
\* through.
LEMMA LoadIsLet ==
  ASSUME NEW c, Sound(c), NEW name \in Configured(c), NEW s, Follows(c, name, s),
         NEW p, Lets(p, c)
  PROVE  LET e == ExecutorOf(c, name)
             profile == s.profile
         IN /\ \A t \in 0..profile.duration :
                 Within(RateAt(profile, t)[1], RateAt(profile, t)[2], p.maxRate)
            /\ Within(profile.duration, 1, p.maxDuration)
            /\ c.run.arrival # "poisson" => Within(s.count, s.last, p.maxRate)
            /\ e.type = "arrival-rate" => Within(e.maxInFlight, 1, p.maxInFlight)
            /\ name # "http" =>
                 /\ Dangerous(c, name) = {} \/ p.allowDangerous
                 /\ p.allowWrites \/ \A item \in ToSet(StorageItems(c, name)) :
                      item.type # "write"
                        /\ (item.type = "" => \A got \in Judgements(name, item) : got.op = "read")
<1> DEFINE e == ExecutorOf(c, name)
           profile == s.profile
           n == Len(e.stages)
<1>1. /\ IsExecutor(e) /\ e.stages # <<>> /\ Acceptable(StartRate(e), e.stages)
      /\ StartRate(e) <= PeakRate(e) /\ Shape(profile, n, StartRate(e), e.stages)
      /\ profile.duration = c.run.duration /\ c.run.duration \in Nat
  BY FollowsIs
<1>2. UnderWay(s, c.run.arrival # "poisson")
  BY DEF Follows
<1>3. e.type = "arrival-rate" => e.maxInFlight > 0 /\ e.maxInFlight \in Int
  <2>1. e.type = "arrival-rate" => e.maxInFlight # 0
    BY DEF Sound, Limited, HasLimit
  <2>2. e.type = "arrival-rate" => e.maxInFlight >= 0
    BY ValidIs DEF Sound
  <2>3. e.maxInFlight \in Int
    BY <1>1 DEF IsExecutor
  <2> HIDE DEF e
  <2> QED
    BY <2>1, <2>2, <2>3
<1>4. /\ p.maxRate \subseteq Int /\ p.maxInFlight \subseteq Int /\ p.maxDuration \subseteq Int
      /\ CheckDuration(p, c.run.duration) = {} /\ CheckRate(p, PeakRate(e)) = {}
      /\ e.maxInFlight > 0 => CheckInFlight(p, e.maxInFlight) = {}
  BY DEF Lets
<1>5. name # "http" => /\ CheckWrites(p, Writes(c, name)) = {}
                       /\ CheckDangerous(p, Dangerous(c, name)) = {}
  BY SectionIs DEF Lets, Sound, Names
<1>6. name # "http" =>
        /\ Dangerous(c, name) = {} \/ p.allowDangerous
        /\ p.allowWrites \/ \A item \in ToSet(StorageItems(c, name)) :
             item.type # "write"
               /\ (item.type = "" => \A got \in Judgements(name, item) : got.op = "read")
  BY <1>5, GrantedStatements
<1> HIDE DEF e, profile
<1>7. /\ StartRate(e) \in Nat /\ PeakRate(e) \in Int /\ n \in Nat /\ DOMAIN e.stages = 1..n
      /\ \A i \in 1..n : e.stages[i].target <= PeakRate(e) /\ e.stages[i].target \in Int
  <2>1. e.stages \in Seq(Stages) /\ n \in Nat /\ DOMAIN e.stages = 1..n
    BY <1>1 DEF Acceptable
  <2>2. StartRate(e) \in Nat
    BY <1>1 DEF Acceptable, ProfileRefused
  <2>3. \A i \in 1..n : e.stages[i].target \in Int
    <3>1. \A i \in 1..n : e.stages[i] \in Stages
      BY <2>1
    <3> QED
      BY <3>1 DEF Stages
  <2> QED
    BY <1>1, <2>1, <2>2, <2>3, PeakIs
<1>8. ASSUME NEW most \in p.maxRate
      PROVE  Bounded(profile, n, StartRate(e), e.stages, most)
  <2>1. PeakRate(e) <= most /\ most \in Int
    BY <1>4, <1>7, NeverExceeded
  <2>2. most \in Nat /\ StartRate(e) <= most /\ \A i \in 1..n : e.stages[i].target <= most
    BY <1>1, <1>7, <2>1
  <2> QED
    BY <1>1, <2>2 DEF Bounded
<1>9. \A t \in 0..profile.duration :
        Within(RateAt(profile, t)[1], RateAt(profile, t)[2], p.maxRate)
  BY <1>8, RateIsBounded DEF Within
<1>10. Within(profile.duration, 1, p.maxDuration)
  <2>1. c.run.duration \in Int
    BY <1>1
  <2>2. \A most \in p.maxDuration : c.run.duration <= most
    BY <1>4, <2>1, NeverExceeded
  <2>3. \A most \in p.maxDuration : profile.duration <= most * 1
    BY <1>1, <1>4, <2>2
  <2> QED
    BY <2>3 DEF Within
<1>11. ASSUME c.run.arrival # "poisson"
       PROVE  Within(s.count, s.last, p.maxRate)
  <2>1. UnderWay(s, TRUE)
    BY <1>2, <1>11
  <2>2. \A most \in p.maxRate : s.count <= most * s.last
    BY <1>8, <2>1, ScheduleKeepsUp DEF profile
  <2> QED
    BY <2>2 DEF Within
<1>12. ASSUME e.type = "arrival-rate"
       PROVE  Within(e.maxInFlight, 1, p.maxInFlight)
  <2>1. \A most \in p.maxInFlight : e.maxInFlight <= most /\ most \in Int
    BY <1>3, <1>4, <1>12, NeverExceeded
  <2>2. \A most \in p.maxInFlight : e.maxInFlight <= most * 1
    BY <2>1
  <2> QED
    BY <2>2 DEF Within
<1>13. c.run.arrival # "poisson" => Within(s.count, s.last, p.maxRate)
  BY <1>11
<1>14. e.type = "arrival-rate" => Within(e.maxInFlight, 1, p.maxInFlight)
  BY <1>12
<1> QED
  BY <1>6, <1>9, <1>10, <1>13, <1>14 DEF e, profile

\* What a schedule that is done has offered is what the plan says, to the last whole one.
LEMMA OffersThePlan ==
  ASSUME NEW c, Sound(c), NEW name \in Configured(c), NEW s, Follows(c, name, s), s.done
  PROVE  /\ s.last <= c.run.duration
         /\ c.run.arrival # "poisson" /\ ExecutorOf(c, name).type = "arrival-rate" =>
              /\ 2 * s.count <= OfferedOperations(ExecutorOf(c, name))
              /\ OfferedOperations(ExecutorOf(c, name)) < 2 * (s.count + 1)
<1> DEFINE e == ExecutorOf(c, name)
           profile == s.profile
<1>1. /\ Acceptable(StartRate(e), e.stages)
      /\ Shape(profile, Len(e.stages), StartRate(e), e.stages)
      /\ profile.duration = c.run.duration /\ c.run.duration \in Nat
  BY FollowsIs
<1>2. UnderWay(s, c.run.arrival # "poisson")
  BY DEF Follows
<1>3. s.last <= c.run.duration
  BY <1>1, <1>2 DEF UnderWay
<1>4. ASSUME c.run.arrival # "poisson", e.type = "arrival-rate"
      PROVE  /\ 2 * s.count <= OfferedOperations(e)
             /\ OfferedOperations(e) < 2 * (s.count + 1)
  <2>1. /\ s.count \in Nat /\ Offers(profile, s.count) /\ ~Offers(profile, s.count + 1)
    BY <1>2, <1>4 DEF UnderWay
  <2>2. profile.total \in Nat
    BY <1>1 DEF Shape
  <2>3. OfferedOperations(e) = profile.total
    <3> HIDE DEF e, profile
    <3> QED
      BY <1>1, <1>4, PlanOffersAsMuch
  <2> HIDE DEF e, profile
  <2> QED
    BY <2>1, <2>2, <2>3 DEF Offers
<1> QED
  BY <1>3, <1>4

\* The one configuration that is only refused once its load is compiled has no stages.
LEMMA RefusedLate ==
  ASSUME NEW c, Sound(c), NEW name \in Configured(c),
         ProfileRefused(StartRate(ExecutorOf(c, name)), ExecutorOf(c, name).stages)
  PROVE  ExecutorOf(c, name).stages = <<>>
<1> DEFINE e == ExecutorOf(c, name)
<1>1. /\ IsExecutor(e)
      /\ \A i \in DOMAIN e.stages : ~(e.stages[i].duration <= 0) /\ ~(e.stages[i].target < 0)
  BY ValidIs DEF Sound
<1>2. ProfileRefused(StartRate(e), e.stages)
  OBVIOUS
<1> HIDE DEF e
<1>3. e.stages = <<>>
  BY <1>1, <1>2, StartIs DEF Acceptable
<1> QED
  BY <1>3 DEF e

-----------------------------------------------------------------------------
(* The command *)

\* Where nothing has been judged yet, and where the command has nothing left but to end.
Reading == {"policy", "load", "override"}
Unjudged == Reading \cup {"finalise", "apply"}
Closing == {"unwind", "report", "ended", "forced", "killed"}

\* What is known of the document, as far as it has come.  An envelope in force is the
\* policy's, tightened, and lets the document through.
Allowed ==
  /\ Sound(cfg)
  /\ ApplyPolicy(cfg, Load(inv.policy)).problems = {}
  /\ effective = {Tighten(Load(inv.policy), cfg.safety)}

DocumentInv ==
  /\ inv \in Invocations
  /\ phase \in Reading => cfg = inv.source.cfg
  /\ phase = "finalise" => IsConfig(cfg)
  /\ phase = "apply" => Sound(cfg)
  /\ effective # {} => Allowed
  /\ phase \in Unjudged => effective = {}
  /\ phase \notin Unjudged \cup Closing => effective # {}

\* What has been contacted is what has been prepared, and every runner that has a schedule
\* follows it.
Scheduled ==
  /\ effective # {} /\ prepared = Configured(cfg) /\ DOMAIN arrivals = Configured(cfg)
  /\ \A name \in Configured(cfg) : Follows(cfg, name, arrivals[name])

LoadInv ==
  /\ contacted = UNION {HostsFor(cfg, name) : name \in prepared}
  /\ phase \in Unjudged \cup {"describe", "diagnose", "listen", "build", "resolve"}
       => prepared = {} /\ arrivals = <<>>
  /\ phase = "prepare" => arrivals = <<>>
  /\ phase = "profile" => prepared = Configured(cfg) /\ arrivals = <<>>
  /\ phase = "run" \/ arrivals # <<>> => Scheduled

\* What has been resolved before anything is contacted is permitted.
HostPermitted(host) == TargetPermitted(Only(effective), Target(host, looked[host]))
Cleared == Targets(cfg) \subseteq DOMAIN looked /\ \A host \in DOMAIN looked : HostPermitted(host)

TargetInv ==
  /\ phase \in Unjudged \cup {"listen", "build"} => looked = <<>>
  /\ phase = "resolve" => \A host \in DOMAIN looked : HostPermitted(host)
  /\ phase = "prepare" \/ contacted # {} => Cleared

\* A command that has contacted something can only fail to reach a target, to write, or
\* to meet its budgets, but for the load without stages.
Late(codes) ==
  \/ codes = {} \/ codes \subseteq ExitRuntimeCodes \/ codes \subseteq Verdicts
  \/ \E name \in Configured(cfg) : ExecutorOf(cfg, name).stages = <<>>

\* What the output tells, of a command in JSON mode whose output works: nothing yet of an
\* error, or the one document that goes with what the exit will say.
Consistent(analysis) ==
  analysis.validity.state # "invalid" => analysis.verdict.bottleneck # "client"

Says(d) ==
  \/ d.kind \in {"validation", "plan"} /\ failure = NoFailure
  \/ d.kind = "diagnosis" /\ failure = IF d.ok THEN NoFailure ELSE Documented("PREFLIGHT_CONNECT")
  \/ d.kind = "result" /\ failure = OutcomeExit(d.analysis) /\ Consistent(d.analysis)

Untold ==
  stdout = <<>> /\ ~failure.documented /\ failure.codes # {} /\ NoVerdict(failure.codes)
Told == stdout = <<stdout[1]>> /\ Says(stdout[1])

Heard == inv.json /\ ~inv.stdoutFails

EndInv ==
  /\ phase \notin Closing => failure = NoFailure /\ stdout = <<>>
  /\ phase \in {"file", "render"} => Consistent(Only(result).analysis)
  /\ contacted # {} => Late(failure.codes)
  /\ phase \in {"unwind", "report"} /\ Heard => Untold \/ Told
  /\ exit = {} <=> phase \notin {"ended", "forced", "killed"}
  /\ exit \in {{}, {3}, {-1}, {ExitCodeOf(failure)}}
  /\ ExitMatchesDocument

-----------------------------------------------------------------------------
(* Steps *)

\* The watcher and the signals leave everything alone but the end of the process.
LEMMA WatcherIs ==
  ASSUME Watcher \/ Signal
  PROVE  /\ Running
         /\ inv' = inv /\ cfg' = cfg /\ effective' = effective /\ failure' = failure
         /\ looked' = looked /\ prepared' = prepared /\ contacted' = contacted
         /\ arrivals' = arrivals /\ result' = result /\ stdout' = stdout
         /\ \/ phase' = phase /\ exit' = exit
            \/ phase' = "forced" /\ exit' = {3}
            \/ phase' = "killed" /\ exit' = {-1}
<1>1. CASE Watcher
  BY <1>1 DEF Watcher, WatchFirst, WatchArm, WatchSecond, engine
<1>2. CASE Signal
  BY <1>2 DEF Signal, engine
<1> QED
  BY <1>1, <1>2

\* Once the policy has been asked the document and the envelope stay, and nothing is
\* judged again.
Later ==
  \/ Describe \/ DoctorLookup \/ DoctorReport \/ Listen \/ BuildRunners \/ Resolve \/ Resolved
  \/ BuildExecutors \/ Abort \/ EndLoad \/ FinishRun \/ WriteResultFile \/ Render
  \/ Unwind \/ ReportExit
  \/ \E name \in {"http", "db", "redis"} : Prepare(name) \/ Arrive(name) \/ Collect(name)
  \/ Watcher \/ Signal

\* A step of the command is one of those before the answer of the policy, or a later one.
LEMMA NextIs ==
  Next = (LoadPolicy \/ LoadConfig \/ Override \/ Finalise \/ Apply \/ Later)
BY DEF Next, Process, Later

\* A step with problems fails with them, and one without goes on.
LEMMA StepOrIs ==
  ASSUME NEW problems, NEW next, StepOr(problems, next)
  PROVE  \/ problems # {} /\ failure' = Failed(problems) /\ phase' \in {"unwind", "report"}
         \/ problems = {} /\ failure' = failure /\ phase' = next
BY DEF StepOr, Returns

\* Compiling the load profiles ends the command, or gives every runner its schedule.
LEMMA BuildExecutorsIs ==
  ASSUME BuildExecutors
  PROVE  /\ Running /\ phase = "profile"
         /\ inv' = inv /\ cfg' = cfg /\ effective' = effective /\ looked' = looked
         /\ prepared' = prepared /\ contacted' = contacted /\ result' = result
         /\ stdout' = stdout /\ exit' = exit
         /\ \/ /\ failure' = Failed({"CONFIG_INVALID_VALUE"}) /\ phase' \in {"unwind", "report"}
               /\ arrivals' = arrivals
               /\ \E name \in Configured(cfg) :
                    ProfileRefused(StartRate(ExecutorOf(cfg, name)), ExecutorOf(cfg, name).stages)
            \/ /\ failure' = failure /\ phase' = "run"
               /\ arrivals' = [name \in Configured(cfg) |->
                    NewSchedule(NewProfile(StartRate(ExecutorOf(cfg, name)),
                                           ExecutorOf(cfg, name).stages))]
               /\ \A name \in Configured(cfg) :
                    ~ProfileRefused(StartRate(ExecutorOf(cfg, name)), ExecutorOf(cfg, name).stages)
<1> DEFINE refused == \E name \in Configured(cfg) :
                        ProfileRefused(StartRate(ExecutorOf(cfg, name)), ExecutorOf(cfg, name).stages)
           schedules == [name \in Configured(cfg) |->
                          NewSchedule(NewProfile(StartRate(ExecutorOf(cfg, name)),
                                                 ExecutorOf(cfg, name).stages))]
<1>1. /\ Running /\ phase = "profile" /\ StepOr(Invalid(refused), "run")
      /\ arrivals' = IF phase' # "run" THEN arrivals ELSE schedules
      /\ inv' = inv /\ cfg' = cfg /\ effective' = effective /\ looked' = looked
      /\ prepared' = prepared /\ contacted' = contacted /\ result' = result
      /\ stdout' = stdout /\ exit' = exit
  BY DEF BuildExecutors
<1> HIDE DEF schedules
<1>2. refused => Invalid(refused) = {"CONFIG_INVALID_VALUE"}
  BY DEF Invalid, When
<1>3. ~refused => Invalid(refused) = {}
  BY DEF Invalid, When
<1>4. CASE refused
  <2>1. failure' = Failed({"CONFIG_INVALID_VALUE"}) /\ phase' \in {"unwind", "report"}
    <3> HIDE DEF refused
    <3> QED
      BY <1>1, <1>2, <1>4, StepOrIs
  <2> QED
    BY <1>1, <1>4, <2>1
<1>5. CASE ~refused
  <2>1. failure' = failure /\ phase' = "run"
    <3> HIDE DEF refused
    <3> QED
      BY <1>1, <1>3, <1>5, StepOrIs
  <2> QED
    BY <1>1, <1>5, <2>1 DEF schedules
<1> QED
  BY <1>4, <1>5

\* A later step leaves the document and the envelope alone, and does not go back.
LEMMA LaterIs ==
  ASSUME Later
  PROVE  /\ inv' = inv /\ cfg' = cfg /\ effective' = effective
         /\ phase' \in Unjudged => phase' = phase
         /\ phase' \notin Unjudged \cup Closing => phase \notin Unjudged \cup Closing
<1> USE DEF Unjudged, Reading, Closing
<1>1. CASE Describe \/ DoctorLookup \/ DoctorReport \/ Listen
  BY <1>1 DEF Describe, DoctorLookup, DoctorReport, Listen
<1>2. CASE BuildRunners
  BY <1>2, StepOrIs DEF BuildRunners
<1>3. CASE Resolve
  BY <1>3, StepOrIs DEF Resolve
<1>4. CASE Resolved \/ Abort \/ EndLoad
  BY <1>4 DEF Resolved, Abort, EndLoad
<1>5. CASE BuildExecutors
  BY <1>5, BuildExecutorsIs
<1>6. CASE FinishRun
  BY <1>6 DEF FinishRun
<1>7. CASE WriteResultFile
  BY <1>7, StepOrIs DEF WriteResultFile
<1>8. CASE Render \/ Unwind \/ ReportExit
  BY <1>8 DEF Render, Unwind, ReportExit
<1>9. ASSUME NEW name \in {"http", "db", "redis"}, Prepare(name)
      PROVE  /\ inv' = inv /\ cfg' = cfg /\ effective' = effective
             /\ phase' \in {"prepare", "profile", "unwind", "report"} /\ phase = "prepare"
  BY <1>9, StepOrIs DEF Prepare
<1>10. ASSUME NEW name \in {"http", "db", "redis"}, Arrive(name) \/ Collect(name)
       PROVE  inv' = inv /\ cfg' = cfg /\ effective' = effective /\ phase' = phase
  BY <1>10 DEF Arrive, Collect
<1>11. CASE Watcher \/ Signal
  BY <1>11, WatcherIs
<1> QED
  BY <1>1, <1>2, <1>3, <1>4, <1>5, <1>6, <1>7, <1>8, <1>9, <1>10, <1>11 DEF Later

-----------------------------------------------------------------------------
(* The document *)

\* DocumentInv holds of a command that begins,
LEMMA DocumentInit == Init => DocumentInv
BY DEF Init, DocumentInv, Unjudged, Reading, Closing

\* and no step breaks it.
LEMMA DocumentStep == DocumentInv /\ [Next]_vars => DocumentInv'
<1> SUFFICES ASSUME DocumentInv, [Next]_vars
             PROVE  DocumentInv'
  OBVIOUS
<1>1. CASE LoadPolicy
  <2>1. /\ inv' = inv /\ cfg' = cfg /\ effective' = effective /\ phase = "policy"
        /\ phase' \in {"unwind", "report", "load"}
    BY <1>1, StepOrIs DEF LoadPolicy
  <2> QED
    BY <2>1 DEF DocumentInv, Unjudged, Reading, Closing
<1>2. CASE LoadConfig
  <2>1. /\ inv' = inv /\ cfg' = inv.source.cfg /\ effective' = effective /\ phase = "load"
        /\ phase' \in {"unwind", "report", "finalise", "override"}
    BY <1>2, StepOrIs DEF LoadConfig
  <2>2. inv \in Invocations /\ effective = {}
    BY <2>1 DEF DocumentInv, Unjudged, Reading
  <2>3. IsConfig(cfg')
    BY <2>1, <2>2, CommandAssumption
  <2> QED
    BY <2>1, <2>2, <2>3 DEF DocumentInv, Unjudged, Reading, Closing
<1>3. CASE Override
  <2>1. /\ inv' = inv /\ cfg' = ApplySet(cfg, inv.overrides).value /\ effective' = effective
        /\ phase = "override" /\ phase' \in {"unwind", "report", "finalise"}
    BY <1>3, StepOrIs DEF Override
  <2>2. inv \in Invocations /\ effective = {} /\ cfg = inv.source.cfg
    BY <2>1 DEF DocumentInv, Unjudged, Reading
  <2>3. IsConfig(cfg')
    BY <2>1, <2>2, CommandAssumption
  <2> QED
    BY <2>1, <2>2, <2>3 DEF DocumentInv, Unjudged, Reading, Closing
<1>4. CASE Finalise
  <2>1. /\ inv' = inv /\ cfg' = ApplyDefaults(cfg) /\ effective' = effective
        /\ phase = "finalise" /\ phase' \in {"unwind", "report", "apply"}
        /\ phase' = "apply" => Validate(cfg') = {}
    BY <1>4, StepOrIs DEF Finalise
  <2>2. inv \in Invocations /\ effective = {} /\ IsConfig(cfg)
    BY <2>1 DEF DocumentInv, Unjudged, Reading
  <2>3. IsConfig(cfg') /\ Limited(cfg')
    BY <2>1, <2>2, DefaultsAre
  <2>4. phase' = "apply" => Sound(cfg')
    BY <2>1, <2>3 DEF Sound
  <2> QED
    BY <2>1, <2>2, <2>4 DEF DocumentInv, Unjudged, Reading, Closing
<1>5. CASE Apply
  <2> DEFINE granted == Load(inv.policy)
             applied == ApplyPolicy(cfg, granted)
  <2>1. /\ inv' = inv /\ cfg' = cfg /\ phase = "apply"
        /\ effective' = IF applied.problems = {} THEN {applied.effective} ELSE {}
        /\ \/ applied.problems # {} /\ phase' \in {"unwind", "report"}
           \/ applied.problems = {} /\ phase' \in {"diagnose", "listen", "describe"}
    BY <1>5, StepOrIs DEF Apply
  <2>2. inv \in Invocations /\ Sound(cfg)
    BY <2>1 DEF DocumentInv
  <2>3. applied.problems = {} => applied.effective = Tighten(granted, cfg.safety)
    BY GrantedIs
  <2> HIDE DEF applied
  <2>4. CASE applied.problems # {}
    BY <2>1, <2>2, <2>4 DEF DocumentInv, Unjudged, Reading, Closing
  <2>5. CASE applied.problems = {}
    <3>1. effective' = {Tighten(granted, cfg.safety)}
      BY <2>1, <2>3, <2>5
    <3>2. Allowed'
      BY <2>1, <2>2, <2>5, <3>1 DEF Allowed, applied
    <3> QED
      BY <2>1, <2>2, <2>5, <3>1, <3>2 DEF DocumentInv, Unjudged, Reading, Closing
  <2> QED
    BY <2>4, <2>5
<1>6. CASE Later
  <2>1. /\ inv' = inv /\ cfg' = cfg /\ effective' = effective
        /\ phase' \in Unjudged => phase' = phase
        /\ phase' \notin Unjudged \cup Closing => phase \notin Unjudged \cup Closing
    BY <1>6, LaterIs
  <2> QED
    BY <2>1 DEF DocumentInv, Allowed, Unjudged, Reading
<1>7. CASE UNCHANGED vars
  BY <1>7 DEF DocumentInv, Allowed, vars
<1> QED
  BY <1>1, <1>2, <1>3, <1>4, <1>5, <1>6, <1>7, NextIs

\* Up to the policy's answer nothing is resolved or contacted, and a problem is no verdict.
Judging == LoadPolicy \/ LoadConfig \/ Override \/ Finalise \/ Apply

Problem(codes) == codes # {} /\ NoVerdict(codes)

\* What a step up to the answer of the policy does.
LEMMA JudgingIs ==
  ASSUME DocumentInv, Judging
  PROVE  /\ Running
         /\ inv' = inv /\ looked' = looked /\ prepared' = prepared /\ contacted' = contacted
         /\ arrivals' = arrivals /\ result' = result /\ stdout' = stdout /\ exit' = exit
         /\ phase \in Unjudged
         /\ \/ phase' \in Unjudged \cup {"describe", "diagnose", "listen"} /\ failure' = failure
            \/ /\ phase' \in {"unwind", "report"}
               /\ \E problems : Problem(problems) /\ failure' = Failed(problems)
<1> USE DEF Unjudged, Reading
<1>1. CASE LoadPolicy
  <2>1. StepOr(LoadProblems(inv.policy), "load")
    BY <1>1 DEF LoadPolicy
  <2>2. NoVerdict(LoadProblems(inv.policy))
    BY LoadHasNone
  <2> QED
    BY <1>1, <2>1, <2>2, StepOrIs DEF LoadPolicy, engine, Problem
<1>2. CASE LoadConfig
  <2> DEFINE next == IF inv.overrides = <<>> THEN "finalise" ELSE "override"
  <2>1. StepOr(FirstProblems(LoadSteps(inv.source)), next)
    BY <1>2 DEF LoadConfig
  <2>2. NoVerdict(FirstProblems(LoadSteps(inv.source)))
    BY LoadHasNone
  <2>3. next \in {"finalise", "override"}
    OBVIOUS
  <2> HIDE DEF next
  <2>4. /\ Running /\ phase = "load" /\ stdout' = stdout /\ exit' = exit /\ inv' = inv /\ UNCHANGED engine
    BY <1>2 DEF LoadConfig
  <2> QED
    BY <2>1, <2>2, <2>3, <2>4, StepOrIs DEF engine, Problem
<1>3. CASE Override
  <2>1. /\ Running /\ phase = "override" /\ stdout' = stdout /\ exit' = exit /\ inv' = inv
        /\ UNCHANGED engine /\ StepOr(ApplySet(cfg, inv.overrides).problems, "finalise")
    BY <1>3 DEF Override
  <2>2. NoVerdict(ApplySet(cfg, inv.overrides).problems)
    BY CommandAssumption, ApplySetHasNone DEF DocumentInv
  <2> QED
    BY <2>1, <2>2, StepOrIs DEF engine, Problem
<1>4. CASE Finalise
  <2>1. /\ Running /\ phase = "finalise" /\ stdout' = stdout /\ exit' = exit /\ inv' = inv
        /\ UNCHANGED engine /\ StepOr(Validate(cfg'), "apply")
    BY <1>4 DEF Finalise
  <2>2. \A c : NoVerdict(Validate(c))
    BY ValidateHasNone
  <2>3. NoVerdict(Validate(cfg'))
    BY <2>2
  <2> QED
    BY <2>1, <2>3, StepOrIs DEF engine, Problem
<1>5. CASE Apply
  <2> DEFINE problems == ApplyPolicy(cfg, Load(inv.policy)).problems
             next == IF inv.command = "doctor" THEN "diagnose"
                     ELSE IF inv.command = "run" /\ ~inv.dryRun THEN "listen" ELSE "describe"
  <2>1. /\ Running /\ phase = "apply" /\ stdout' = stdout /\ exit' = exit /\ inv' = inv
        /\ UNCHANGED engine /\ StepOr(problems, next)
    BY <1>5 DEF Apply
  <2>2. NoVerdict(problems)
    BY PolicyHasNone
  <2>3. next \in {"diagnose", "listen", "describe"}
    OBVIOUS
  <2> HIDE DEF problems, next
  <2> QED
    BY <2>1, <2>2, <2>3, StepOrIs DEF engine, Problem
<1> QED
  BY <1>1, <1>2, <1>3, <1>4, <1>5 DEF Judging

-----------------------------------------------------------------------------
(* What the other steps leave alone *)

Resolving == DoctorLookup \/ Resolve \/ Resolved

\* What resolving a host changes.
LEMMA ResolvingIs ==
  ASSUME Resolving
  PROVE  /\ Running
         /\ cfg' = cfg /\ effective' = effective /\ prepared' = prepared
         /\ contacted' = contacted /\ arrivals' = arrivals /\ result' = result
         /\ stdout' = stdout /\ exit' = exit
         /\ \/ phase = "diagnose" /\ phase' = phase
            \/ phase = "resolve" /\ phase' \in {"resolve", "prepare", "unwind", "report"}
<1>1. CASE DoctorLookup
  BY <1>1 DEF DoctorLookup
<1>2. CASE Resolve
  BY <1>2, StepOrIs DEF Resolve
<1>3. CASE Resolved
  BY <1>3 DEF Resolved, engine
<1> QED
  BY <1>1, <1>2, <1>3 DEF Resolving

Rest ==
  \/ Describe \/ DoctorReport \/ Listen \/ BuildRunners \/ Abort \/ EndLoad \/ FinishRun
  \/ WriteResultFile \/ Render \/ Unwind \/ ReportExit \/ Watcher \/ Signal
  \/ \E name \in {"http", "db", "redis"} : Collect(name)

\* What the steps that neither resolve, prepare nor offer anything change.
LEMMA RestIs ==
  ASSUME Rest
  PROVE  /\ Running
         /\ cfg' = cfg /\ effective' = effective /\ looked' = looked /\ prepared' = prepared
         /\ contacted' = contacted /\ arrivals' = arrivals
         /\ \/ phase' = phase
            \/ phase' \in Closing \cup {"collect", "file", "render"}
            \/ phase = "listen" /\ phase' = "build"
            \/ phase = "build" /\ phase' = "resolve"
<1> USE DEF Closing
<1>1. CASE Describe \/ DoctorReport \/ Listen \/ Abort \/ EndLoad
  <2>1. CASE Describe
    BY <2>1 DEF Describe, engine
  <2>2. CASE DoctorReport
    BY <2>2 DEF DoctorReport, engine
  <2>3. CASE Listen \/ Abort \/ EndLoad
    BY <2>3 DEF Listen, Abort, EndLoad, engine
  <2> QED
    BY <1>1, <2>1, <2>2, <2>3
<1>2. CASE BuildRunners
  BY <1>2, StepOrIs DEF BuildRunners, engine
<1>3. CASE FinishRun
  BY <1>3 DEF FinishRun
<1>4. CASE WriteResultFile
  BY <1>4, StepOrIs DEF WriteResultFile, engine
<1>5. CASE Render \/ Unwind \/ ReportExit
  BY <1>5 DEF Render, Unwind, ReportExit, engine
<1>6. CASE Watcher \/ Signal
  BY <1>6, WatcherIs
<1>7. ASSUME NEW name \in {"http", "db", "redis"}, Collect(name)
      PROVE  /\ Running
             /\ cfg' = cfg /\ effective' = effective /\ looked' = looked /\ prepared' = prepared
             /\ contacted' = contacted /\ arrivals' = arrivals /\ phase' = phase
  BY <1>7 DEF Collect
<1> QED
  BY <1>1, <1>2, <1>3, <1>4, <1>5, <1>6, <1>7 DEF Rest

\* The later steps are the ones that resolve, the rest, and those that prepare, build an
\* executor and offer an arrival.
LEMMA LaterSplits ==
  ASSUME Later
  PROVE  \/ Resolving \/ Rest \/ BuildExecutors
         \/ \E name \in {"http", "db", "redis"} : Prepare(name) \/ Arrive(name)
BY DEF Later, Resolving, Rest

-----------------------------------------------------------------------------
(* The load *)

\* The schedule an executor is built with follows its stages,
LEMMA BeginsFollowing ==
  ASSUME NEW c, Sound(c), NEW name \in Configured(c),
         ~ProfileRefused(StartRate(ExecutorOf(c, name)), ExecutorOf(c, name).stages)
  PROVE  Follows(c, name, NewSchedule(NewProfile(StartRate(ExecutorOf(c, name)),
                                                 ExecutorOf(c, name).stages)))
<1> DEFINE e == ExecutorOf(c, name)
           p == NewProfile(StartRate(e), e.stages)
           uniform == c.run.arrival # "poisson"
<1>1. /\ IsExecutor(e)
      /\ \A i \in DOMAIN e.stages : ~(e.stages[i].duration <= 0) /\ ~(e.stages[i].target < 0)
  BY ValidIs DEF Sound
<1>2. ~ProfileRefused(StartRate(e), e.stages) /\ e.stages # <<>>
  BY DEF ProfileRefused
<1> HIDE DEF e
<1>3. Acceptable(StartRate(e), e.stages)
  BY <1>1, <1>2, StartIs
<1>4. Shape(p, Len(e.stages), StartRate(e), e.stages)
  BY <1>3, ProfileShape
<1> HIDE DEF p, uniform
<1>5. UnderWay(NewSchedule(p), uniform) /\ NewSchedule(p).profile = p
  BY <1>4, ScheduleBegins
<1> QED
  BY <1>2, <1>5 DEF Follows, e, p, uniform

\* and goes on following them.
LEMMA GoesOnFollowing ==
  ASSUME NEW c, Sound(c), NEW name \in Configured(c), NEW s, Follows(c, name, s), ~s.done,
         NEW draw \in {1, 3}, c.run.arrival # "poisson" => draw = 1
  PROVE  Follows(c, name, NextArrival(s, draw))
<1> DEFINE e == ExecutorOf(c, name)
           uniform == c.run.arrival # "poisson"
           n == Len(e.stages)
<1>1. Acceptable(StartRate(e), e.stages) /\ Shape(s.profile, n, StartRate(e), e.stages)
  BY FollowsIs
<1>2. UnderWay(s, uniform)
  BY DEF Follows
<1>3. uniform \in BOOLEAN /\ (uniform => draw = 1) /\ draw \in Nat \ {0}
  OBVIOUS
<1> DEFINE start == StartRate(e)
           stages == e.stages
<1>4. /\ Shape(s.profile, n, start, stages) /\ n = Len(stages) /\ Acceptable(start, stages)
      /\ UnderWay(s, uniform) /\ ~s.done
  BY <1>1, <1>2
<1> HIDE DEF e, uniform, n, start, stages
<1>5. UnderWay(NextArrival(s, draw), uniform) /\ NextArrival(s, draw).profile = s.profile
  BY <1>3, <1>4, ScheduleGoesOn
<1> QED
  BY <1>5 DEF Follows, e, uniform

\* LoadInv holds of a command that begins,
LEMMA LoadInit == Init => LoadInv
<1> SUFFICES ASSUME Init
             PROVE  LoadInv
  OBVIOUS
<1>1. phase = "policy" /\ prepared = {} /\ contacted = {} /\ arrivals = <<>>
  BY DEF Init
<1> QED
  BY <1>1 DEF LoadInv, Unjudged, Reading

\* and no step breaks it.
LEMMA LoadStep == DocumentInv /\ LoadInv /\ [Next]_vars => LoadInv'
<1> SUFFICES ASSUME DocumentInv, LoadInv, [Next]_vars
             PROVE  LoadInv'
  OBVIOUS
<1> USE DEF Unjudged, Reading, Closing
<1>1. ASSUME Judging
      PROVE  LoadInv'
  <2>1. /\ phase \in Unjudged /\ phase' \in Unjudged \cup {"describe", "diagnose", "listen", "unwind", "report"}
        /\ prepared' = prepared /\ contacted' = contacted /\ arrivals' = arrivals
    BY <1>1, JudgingIs
  <2>2. prepared = {} /\ arrivals = <<>>
    BY <2>1 DEF LoadInv
  <2>3. contacted = {}
    BY <2>2 DEF LoadInv
  <2> QED
    BY <2>1, <2>2, <2>3 DEF LoadInv
<1>2. ASSUME NEW name \in {"http", "db", "redis"}, Prepare(name)
      PROVE  LoadInv'
  <2> DEFINE next == IF prepared' = Configured(cfg) THEN "profile" ELSE phase
  <2>1. /\ phase = "prepare" /\ cfg' = cfg /\ effective' = effective /\ arrivals' = arrivals
        /\ prepared' = prepared \cup {name} /\ contacted' = contacted \cup HostsFor(cfg, name)
        /\ StepOr({}, next) \/ \E code \in PrepareFailures[name] : StepOr({code}, phase)
    BY <1>2 DEF Prepare
  <2>2. phase' \in {"unwind", "report"} \/ phase' = next
    BY <2>1, StepOrIs
  <2>3. contacted' = UNION {HostsFor(cfg, n) : n \in prepared'}
    <3>1. contacted = UNION {HostsFor(cfg, n) : n \in prepared}
      BY DEF LoadInv
    <3> QED
      BY <2>1, <3>1
  <2>4. arrivals' = <<>>
    BY <2>1 DEF LoadInv
  <2>5. /\ phase' \in {"unwind", "report", "prepare", "profile"}
        /\ phase' = "profile" => prepared' = Configured(cfg)
    BY <2>1, <2>2
  <2> QED
    BY <2>1, <2>3, <2>4, <2>5 DEF LoadInv
<1>3. ASSUME BuildExecutors
      PROVE  LoadInv'
  <2>1. phase = "profile" /\ cfg' = cfg /\ effective' = effective /\ prepared' = prepared
        /\ contacted' = contacted
    BY <1>3, BuildExecutorsIs
  <2>2. prepared = Configured(cfg) /\ arrivals = <<>> /\ effective # {} /\ Sound(cfg)
    BY <2>1 DEF LoadInv, DocumentInv, Allowed
  <2>3. CASE arrivals' = arrivals /\ phase' \in {"unwind", "report"}
    BY <2>1, <2>2, <2>3 DEF LoadInv
  <2>4. CASE ~(arrivals' = arrivals /\ phase' \in {"unwind", "report"})
    <3>1. /\ phase' = "run"
          /\ arrivals' = [name \in Configured(cfg) |->
                            NewSchedule(NewProfile(StartRate(ExecutorOf(cfg, name)),
                                                   ExecutorOf(cfg, name).stages))]
          /\ \A name \in Configured(cfg) :
               ~ProfileRefused(StartRate(ExecutorOf(cfg, name)), ExecutorOf(cfg, name).stages)
      BY <1>3, <2>4, BuildExecutorsIs
    <3>2. \A name \in Configured(cfg) : Follows(cfg, name, arrivals'[name])
      BY <2>2, <3>1, BeginsFollowing
    <3>3. DOMAIN arrivals' = Configured(cfg)
      BY <3>1
    <3>4. Scheduled'
      BY <2>1, <2>2, <3>2, <3>3 DEF Scheduled
    <3> QED
      BY <2>1, <3>1, <3>4 DEF LoadInv
  <2> QED
    BY <2>3, <2>4
<1>4. ASSUME NEW name \in {"http", "db", "redis"}, Arrive(name)
      PROVE  LoadInv'
  <2>1. /\ phase = "run" /\ phase' = phase /\ cfg' = cfg /\ effective' = effective
        /\ prepared' = prepared /\ contacted' = contacted
        /\ name \in Configured(cfg) /\ ~arrivals[name].done
    BY <1>4 DEF Arrive
  <2>2. PICK draw \in Draws : arrivals' = [arrivals EXCEPT ![name] = NextArrival(arrivals[name], draw)]
    BY <1>4 DEF Arrive
  <2>3. draw \in {1, 3} /\ (cfg.run.arrival # "poisson" => draw = 1)
    BY DEF Draws
  <2>4. Scheduled /\ Sound(cfg)
    BY <2>1 DEF LoadInv, Scheduled, DocumentInv, Allowed
  <2>5. DOMAIN arrivals = Configured(cfg) /\ \A n \in Configured(cfg) : Follows(cfg, n, arrivals[n])
    BY <2>4 DEF Scheduled
  <2>6. Follows(cfg, name, NextArrival(arrivals[name], draw))
    BY <2>1, <2>3, <2>4, <2>5, GoesOnFollowing
  <2>7. /\ DOMAIN arrivals' = Configured(cfg)
        /\ arrivals'[name] = NextArrival(arrivals[name], draw)
        /\ \A n \in Configured(cfg) \ {name} : arrivals'[n] = arrivals[n]
    BY <2>1, <2>2, <2>5
  <2>8. \A n \in Configured(cfg) : Follows(cfg, n, arrivals'[n])
    BY <2>5, <2>6, <2>7
  <2>9. Scheduled'
    BY <2>1, <2>4, <2>7, <2>8 DEF Scheduled
  <2> QED
    BY <2>1, <2>9 DEF LoadInv
<1>5. ASSUME Resolving
      PROVE  LoadInv'
  <2>1. /\ cfg' = cfg /\ effective' = effective /\ prepared' = prepared
        /\ contacted' = contacted /\ arrivals' = arrivals
        /\ \/ phase = "diagnose" /\ phase' = phase
           \/ phase = "resolve" /\ phase' \in {"resolve", "prepare", "unwind", "report"}
    BY <1>5, ResolvingIs
  <2> QED
    BY <2>1 DEF LoadInv, Scheduled
<1>6. ASSUME Rest
      PROVE  LoadInv'
  <2>1. /\ cfg' = cfg /\ effective' = effective /\ prepared' = prepared
        /\ contacted' = contacted /\ arrivals' = arrivals
        /\ \/ phase' = phase
           \/ phase' \in Closing \cup {"collect", "file", "render"}
           \/ phase = "listen" /\ phase' = "build"
           \/ phase = "build" /\ phase' = "resolve"
    BY <1>6, RestIs
  <2> QED
    BY <2>1 DEF LoadInv, Scheduled
<1>7. CASE UNCHANGED vars
  BY <1>7 DEF LoadInv, Scheduled, vars
<1>8. CASE Later
  BY <1>2, <1>3, <1>4, <1>5, <1>6, <1>8, LaterSplits
<1> QED
  BY <1>1, <1>7, <1>8, NextIs DEF Judging

-----------------------------------------------------------------------------
(* The targets *)

\* Nothing is contacted before preflight.
LEMMA NothingContacted ==
  ASSUME LoadInv, phase \in Unjudged \cup {"describe", "diagnose", "listen", "build", "resolve"}
  PROVE  contacted = {}
<1>1. prepared = {} /\ contacted = UNION {HostsFor(cfg, name) : name \in prepared}
  BY DEF LoadInv
<1> QED
  BY <1>1

\* TargetInv holds of a command that begins,
LEMMA TargetInit == Init => TargetInv
<1> SUFFICES ASSUME Init
             PROVE  TargetInv
  OBVIOUS
<1>1. phase = "policy" /\ contacted = {} /\ looked = <<>>
  BY DEF Init
<1> QED
  BY <1>1 DEF TargetInv, Unjudged, Reading

\* Resolving a host leaves the others as they were.
LEMMA LookupIs ==
  ASSUME NEW host, Lookup(host), host \notin DOMAIN looked
  PROVE  /\ DOMAIN looked' = DOMAIN looked \cup {host}
         /\ \A h \in DOMAIN looked : looked'[h] = looked[h]
BY DEF Lookup

\* and no step breaks it: preflight has permitted every address before a runner connects.
LEMMA TargetStep == LoadInv /\ DocumentInv /\ TargetInv /\ [Next]_vars => TargetInv'
<1> SUFFICES ASSUME LoadInv, DocumentInv, TargetInv, [Next]_vars
             PROVE  TargetInv'
  OBVIOUS
<1> USE DEF Unjudged, Reading, Closing
<1>1. ASSUME Judging
      PROVE  TargetInv'
  <2>1. /\ phase \in Unjudged /\ looked' = looked /\ contacted' = contacted
        /\ phase' \in Unjudged \cup {"describe", "diagnose", "listen", "unwind", "report"}
    BY <1>1, JudgingIs
  <2>2. contacted' = {} /\ looked' = <<>>
    BY <2>1, NothingContacted DEF TargetInv
  <2> QED
    BY <2>1, <2>2 DEF TargetInv
<1>2. ASSUME DoctorLookup
      PROVE  TargetInv'
  <2>1. phase = "diagnose" /\ phase' = phase /\ contacted' = contacted
    BY <1>2 DEF DoctorLookup
  <2>2. contacted' = {}
    BY <2>1, NothingContacted
  <2> QED
    BY <2>1, <2>2 DEF TargetInv
<1>3. ASSUME Resolve
      PROVE  TargetInv'
  <2>1. /\ phase = "resolve" /\ contacted' = contacted /\ effective' = effective /\ cfg' = cfg
    BY <1>3 DEF Resolve
  <2>2. PICK host \in Targets(cfg) \ DOMAIN looked :
          /\ Lookup(host)
          /\ StepOr(IF looked'[host] = {} THEN {"PREFLIGHT_DNS"}
                    ELSE CheckTarget(Only(effective), Target(host, looked'[host])), phase)
    BY <1>3 DEF Resolve
  <2> DEFINE problems == IF looked'[host] = {} THEN {"PREFLIGHT_DNS"}
                         ELSE CheckTarget(Only(effective), Target(host, looked'[host]))
  <2>3. /\ DOMAIN looked' = DOMAIN looked \cup {host}
        /\ \A h \in DOMAIN looked : looked'[h] = looked[h]
    BY <2>2, LookupIs
  <2>4. \/ phase' \in {"unwind", "report"}
        \/ problems = {} /\ phase' = phase
    <3> HIDE DEF problems
    <3>1. StepOr(problems, phase)
      BY <2>2 DEF problems
    <3> QED
      BY <3>1, StepOrIs
  <2>5. contacted' = {}
    BY <2>1, NothingContacted
  <2>6. CASE phase' \in {"unwind", "report"}
    BY <2>5, <2>6 DEF TargetInv
  <2>7. CASE problems = {} /\ phase' = phase
    <3>1. TargetPermitted(Only(effective), Target(host, looked'[host]))
      BY <2>7 DEF CheckTarget, When
    <3>2. \A h \in DOMAIN looked : TargetPermitted(Only(effective), Target(h, looked[h]))
      BY <2>1 DEF TargetInv, HostPermitted
    <3>3. \A h \in DOMAIN looked' : TargetPermitted(Only(effective), Target(h, looked'[h]))
      BY <2>3, <3>1, <3>2
    <3> HIDE DEF problems
    <3> QED
      BY <2>1, <2>5, <2>7, <3>3 DEF TargetInv, HostPermitted
  <2> HIDE DEF problems
  <2> QED
    BY <2>4, <2>6, <2>7
<1>4. ASSUME Resolved
      PROVE  TargetInv'
  <2>1. /\ phase = "resolve" /\ phase' = "prepare" /\ looked' = looked /\ effective' = effective
        /\ cfg' = cfg /\ DOMAIN looked = Targets(cfg)
    BY <1>4 DEF Resolved, AllResolved, engine
  <2>2. Cleared'
    BY <2>1 DEF TargetInv, Cleared, HostPermitted
  <2> QED
    BY <2>1, <2>2 DEF TargetInv
<1>5. ASSUME NEW name \in {"http", "db", "redis"}, Prepare(name)
      PROVE  TargetInv'
  <2>1. /\ phase = "prepare" /\ looked' = looked /\ effective' = effective /\ cfg' = cfg
        /\ phase' \in {"prepare", "profile", "unwind", "report"}
    BY <1>5, StepOrIs DEF Prepare
  <2>2. Cleared'
    BY <2>1 DEF TargetInv, Cleared, HostPermitted
  <2> QED
    BY <2>1, <2>2 DEF TargetInv
<1>6. ASSUME BuildExecutors
      PROVE  TargetInv'
  <2>1. /\ phase = "profile" /\ looked' = looked /\ effective' = effective /\ cfg' = cfg
        /\ contacted' = contacted /\ phase' \in {"run", "unwind", "report"}
    BY <1>6, BuildExecutorsIs
  <2> QED
    BY <2>1 DEF TargetInv, Cleared, HostPermitted
<1>7. ASSUME NEW name \in {"http", "db", "redis"}, Arrive(name)
      PROVE  TargetInv'
  <2>1. /\ phase = "run" /\ looked' = looked /\ effective' = effective /\ cfg' = cfg
        /\ contacted' = contacted /\ phase' = phase
    BY <1>7 DEF Arrive
  <2> QED
    BY <2>1 DEF TargetInv, Cleared, HostPermitted
<1>8. ASSUME Rest
      PROVE  TargetInv'
  <2>1. /\ cfg' = cfg /\ effective' = effective /\ looked' = looked /\ contacted' = contacted
        /\ \/ phase' = phase
           \/ phase' \in Closing \cup {"collect", "file", "render"}
           \/ phase = "listen" /\ phase' = "build"
           \/ phase = "build" /\ phase' = "resolve"
    BY <1>8, RestIs
  <2>2. Cleared => Cleared'
    BY <2>1 DEF Cleared, HostPermitted
  <2>3. CASE phase = "build" /\ phase' = "resolve"
    <3>1. looked' = <<>> /\ DOMAIN looked' = {}
      BY <2>1, <2>3 DEF TargetInv
    <3> QED
      BY <2>1, <2>2, <2>3, <3>1 DEF TargetInv
  <2>4. CASE phase = "listen" /\ phase' = "build"
    BY <2>1, <2>2, <2>4 DEF TargetInv
  <2>5. CASE phase' = phase
    BY <2>1, <2>2, <2>5 DEF TargetInv, HostPermitted
  <2>6. CASE phase' \in Closing \cup {"collect", "file", "render"}
    BY <2>1, <2>2, <2>6 DEF TargetInv
  <2> QED
    BY <2>1, <2>3, <2>4, <2>5, <2>6
<1>9. CASE UNCHANGED vars
  BY <1>9 DEF TargetInv, Cleared, HostPermitted, vars
<1>10. CASE Later
  BY <1>2, <1>3, <1>4, <1>5, <1>6, <1>7, <1>8, <1>10, LaterSplits DEF Resolving
<1> QED
  BY <1>1, <1>9, <1>10, NextIs DEF Judging

-----------------------------------------------------------------------------
(* How commands end *)

\* A step goes on; or finds problems, and ends the command; or writes a document or fails
\* to, and ends it too; or ends the process.
GoesOn ==
  /\ failure' = failure /\ stdout' = stdout /\ exit' = exit
  /\ \/ phase' = phase /\ contacted' = contacted /\ cfg' = cfg /\ result' = result
     \/ /\ phase \notin Closing /\ phase' \notin Closing
        /\ phase' \in {"file", "render"} => Consistent(Only(result').analysis)
     \/ phase = "unwind" /\ phase' = "report" /\ contacted' = contacted /\ cfg' = cfg

Fails ==
  /\ stdout' = stdout /\ exit' = exit /\ phase \notin Closing /\ phase' \in {"unwind", "report"}
  /\ \E problems : /\ Problem(problems) /\ failure' = Failed(problems)
                   /\ contacted' # {} => Late(failure.codes)'

Delivers ==
  /\ exit' = exit /\ phase \notin Closing /\ phase' \in {"unwind", "report"}
  /\ Heard => Told'
  /\ contacted' # {} => Late(failure.codes)'

Killed ==
  /\ failure' = failure /\ contacted' = contacted /\ cfg' = cfg
  /\ \/ phase' = "forced" /\ exit' = {3}
     \/ phase' = "killed" /\ exit' = {-1}

\* EndInv holds of a command that begins.
LEMMA EndInit == Init => EndInv
<1> SUFFICES ASSUME Init
             PROVE  EndInv
  OBVIOUS
<1>1. /\ phase = "policy" /\ failure = NoFailure /\ stdout = <<>> /\ exit = {} /\ contacted = {}
  BY DEF Init
<1> QED
  BY <1>1 DEF EndInv, Closing, ExitMatchesDocument

\* A step that only goes on keeps EndInv,
LEMMA GoesOnKeeps ==
  ASSUME EndInv, Running, inv' = inv, GoesOn
  PROVE  EndInv'
<1>1. exit = {} /\ exit' = {} /\ phase \notin {"ended", "forced", "killed"}
  BY DEF Running, EndInv, GoesOn
<1>2. phase' \notin {"ended", "forced", "killed"}
  BY <1>1 DEF GoesOn, Closing
<1>3. phase' \notin Closing => failure' = NoFailure /\ stdout' = <<>>
  BY DEF GoesOn, EndInv, Closing
<1>4. phase' \in {"file", "render"} => Consistent(Only(result').analysis)
  BY DEF GoesOn, EndInv, Closing
<1>5. contacted' # {} => Late(failure.codes)'
  <2>1. CASE phase \notin Closing /\ phase' \notin Closing
    <3>1. failure'.codes = {}
      BY <1>3, <2>1 DEF NoFailure
    <3> QED
      BY <3>1 DEF Late
  <2>2. CASE contacted' = contacted /\ cfg' = cfg
    BY <2>2 DEF GoesOn, EndInv, Late
  <2> QED
    BY <2>1, <2>2 DEF GoesOn
<1>6. phase' \in {"unwind", "report"} /\ Heard' => Untold' \/ Told'
  <2>1. SUFFICES ASSUME phase' \in {"unwind", "report"}, Heard'
                 PROVE  Untold' \/ Told'
    OBVIOUS
  <2>2. phase \in {"unwind", "report"} /\ Heard
    BY <2>1 DEF GoesOn, Closing, Heard
  <2>3. Untold \/ Told
    BY <2>2 DEF EndInv
  <2>4. failure' = failure /\ stdout' = stdout
    BY DEF GoesOn
  <2>5. Untold => Untold'
    BY <2>4 DEF Untold
  <2>6. Told => Told'
    BY <2>4 DEF Told, Says, OutcomeExit
  <2> QED
    BY <2>3, <2>5, <2>6
<1>7. ExitMatchesDocument'
  BY <1>2 DEF ExitMatchesDocument
<1> QED
  BY <1>1, <1>2, <1>3, <1>4, <1>5, <1>6, <1>7 DEF EndInv

\* and so do one that fails before it wrote anything,
LEMMA FailsKeeps ==
  ASSUME EndInv, Running, inv' = inv, Fails \/ Delivers
  PROVE  EndInv'
<1>1. exit = {} /\ exit' = {}
  BY DEF Running, Fails, Delivers
<1>2. phase' \in {"unwind", "report"} /\ phase \notin Closing
  BY DEF Fails, Delivers
<1>3. contacted' # {} => Late(failure.codes)'
  BY DEF Fails, Delivers
<1>4. Heard' => Untold' \/ Told'
  <2>1. CASE Fails
    <3>1. PICK problems : Problem(problems) /\ failure' = Failed(problems)
      BY <2>1 DEF Fails
    <3>2. stdout' = <<>>
      BY <1>2, <2>1 DEF Fails, EndInv
    <3> QED
      BY <3>1, <3>2 DEF Untold, Failed, Problem
  <2>2. CASE Delivers
    BY <2>2 DEF Delivers, Heard
  <2> QED
    BY <2>1, <2>2
<1>5. ExitMatchesDocument'
  BY <1>2 DEF ExitMatchesDocument
<1> QED
  BY <1>1, <1>2, <1>3, <1>4, <1>5 DEF EndInv, Closing

\* one that ends the process,
LEMMA KilledKeeps ==
  ASSUME EndInv, Killed
  PROVE  EndInv'
<1>1. contacted' # {} => Late(failure.codes)'
  BY DEF Killed, EndInv, Late
<1>2. ExitMatchesDocument'
  BY DEF Killed, ExitMatchesDocument
<1> QED
  BY <1>1, <1>2 DEF EndInv, Killed, Closing

\* What the exit says of an error, and of a verdict.
LEMMA ExitSays ==
  /\ ExitCodeOf(NoFailure) = 0
  /\ ExitCodeOf(Documented("SLO_BREACH")) = 1
  /\ ExitCodeOf(Documented("RUN_INVALID")) = 4
  /\ ExitCodeOf(Documented("PREFLIGHT_CONNECT")) = 3
  /\ \A f : f.codes # {} /\ NoVerdict(f.codes) => ExitCodeOf(f) \in {2, 3}
<1>1. ExitCodeOf(NoFailure) = 0
  BY DEF ExitCodeOf, NoFailure
<1>2. \A code : ExitCodeOf(Documented(code)) = ExitCode(code)
  BY DEF ExitCodeOf, Documented
<1>3. /\ ExitCode("SLO_BREACH") = 1 /\ ExitCode("RUN_INVALID") = 4
      /\ ExitCode("PREFLIGHT_CONNECT") = 3
  BY DEF ExitCode, ExitRuntimeCodes
<1>4. ASSUME NEW f, f.codes # {}, NoVerdict(f.codes)
      PROVE  ExitCodeOf(f) \in {2, 3}
  <2> DEFINE code == CHOOSE code \in f.codes : TRUE
  <2>1. code \in f.codes /\ ExitCodeOf(f) = ExitCode(code)
    BY <1>4 DEF ExitCodeOf
  <2> HIDE DEF code
  <2>2. code # "SLO_BREACH" /\ code # "RUN_INVALID"
    BY <1>4, <2>1 DEF NoVerdict, Verdicts
  <2>3. ExitCode(code) \in {2, 3}
    BY <2>2 DEF ExitCode
  <2> QED
    BY <2>1, <2>3
<1> QED
  BY <1>1, <1>2, <1>3, <1>4

\* and the report itself, which tells the failure if nothing told it yet.
LEMMA ReportExitKeeps ==
  ASSUME EndInv, ReportExit
  PROVE  EndInv'
<1>1. /\ phase = "report" /\ phase' = "ended" /\ exit' = {ExitCodeOf(failure)} /\ inv' = inv
      /\ stdout' = IF failure.codes = {} \/ failure.documented \/ ~inv.json \/ inv.stdoutFails
                   THEN stdout ELSE Append(stdout, [kind |-> "envelope"])
      /\ failure' = failure /\ contacted' = contacted /\ cfg' = cfg
  BY DEF ReportExit, engine
<1>2. contacted' # {} => Late(failure.codes)'
  BY <1>1 DEF EndInv, Late
<1>3. ASSUME Heard
      PROVE  ExitMatchesDocument'
  <2>1. CASE Untold
    <3>1. stdout' = Append(<<>>, [kind |-> "envelope"])
      BY <1>1, <1>3, <2>1 DEF Untold, Heard
    <3>2. Len(stdout') = 1 /\ stdout'[1] = [kind |-> "envelope"]
      BY <3>1
    <3>3. ExitCodeOf(failure) \in {2, 3}
      BY <2>1, ExitSays DEF Untold
    <3>4. exit' \subseteq {2, 3}
      BY <1>1, <3>3
    <3> QED
      BY <3>2, <3>4 DEF ExitMatchesDocument
  <2>2. CASE Told
    <3> DEFINE d == stdout[1]
    <3>1. stdout = <<d>> /\ Says(d)
      BY <2>2 DEF Told
    <3>2. failure.codes = {} \/ failure.documented
      BY <3>1 DEF Says, NoFailure, Documented, OutcomeExit
    <3>3. stdout' = stdout
      BY <1>1, <3>2
    <3> HIDE DEF d
    <3>4. Len(stdout') = 1 /\ stdout'[1] = d
      BY <3>1, <3>3
    <3>5. CASE d.kind \in {"validation", "plan"} /\ failure = NoFailure
      <4>1. exit' = {0}
        BY <1>1, <3>5, ExitSays
      <4> QED
        BY <3>4, <3>5, <4>1 DEF ExitMatchesDocument
    <3>6. CASE d.kind = "diagnosis" /\ failure = IF d.ok THEN NoFailure ELSE Documented("PREFLIGHT_CONNECT")
      <4>1. exit' = {IF d.ok THEN 0 ELSE 3}
        BY <1>1, <3>6, ExitSays
      <4> QED
        BY <3>4, <3>6, <4>1 DEF ExitMatchesDocument
    <3>7. CASE d.kind = "result" /\ failure = OutcomeExit(d.analysis) /\ Consistent(d.analysis)
      <4> DEFINE believed == d.analysis.validity.state # "invalid"
                 pass == d.analysis.slo.pass
      <4>1. exit' = {IF ~believed /\ ~inv.allowInvalid THEN 4 ELSE IF ~pass THEN 1 ELSE 0}
        <5>1. failure = IF ~believed /\ ~inv.allowInvalid THEN Documented("RUN_INVALID")
                        ELSE IF ~pass THEN Documented("SLO_BREACH") ELSE NoFailure
          BY <3>7 DEF OutcomeExit
        <5> QED
          BY <1>1, <5>1, ExitSays
      <4>2. believed => d.analysis.verdict.bottleneck # "client"
        BY <3>7 DEF Consistent
      <4>3. /\ exit' = {4} <=> ~believed /\ ~inv.allowInvalid
            /\ exit' = {1} <=> (believed \/ inv.allowInvalid) /\ ~pass
            /\ exit' \subseteq {0, 1, 4}
        <5> HIDE DEF believed, pass
        <5> QED
          BY <4>1
      <4> QED
        BY <1>1, <3>4, <3>7, <4>2, <4>3 DEF ExitMatchesDocument
    <3> QED
      BY <3>1, <3>5, <3>6, <3>7 DEF Says
  <2> QED
    BY <1>1, <1>3, <2>1, <2>2 DEF EndInv
<1>4. ExitMatchesDocument'
  <2>1. CASE Heard
    BY <1>3, <2>1
  <2>2. CASE ~Heard
    BY <1>1, <2>2 DEF ExitMatchesDocument, Heard
  <2> QED
    BY <2>1, <2>2
<1> QED
  BY <1>1, <1>2, <1>4 DEF EndInv, Closing

-----------------------------------------------------------------------------
(* What each step is *)

Invs == DocumentInv /\ LoadInv /\ TargetInv /\ EndInv

\* Before anything is contacted any problem may end a command.
LEMMA FailsEarly ==
  ASSUME EndInv, contacted' = {}, stdout' = stdout, exit' = exit,
         phase \notin Closing, phase' \in {"unwind", "report"},
         NEW problems, Problem(problems), failure' = Failed(problems)
  PROVE  Fails
BY DEF Fails

\* A step up to the answer of the policy goes on or fails.
LEMMA JudgingEnds ==
  ASSUME Invs, Judging
  PROVE  GoesOn \/ Fails
<1> USE DEF Unjudged, Reading, Closing
<1>1. /\ contacted' = contacted /\ stdout' = stdout /\ exit' = exit /\ phase \in Unjudged
      /\ \/ phase' \in Unjudged \cup {"describe", "diagnose", "listen"} /\ failure' = failure
         \/ /\ phase' \in {"unwind", "report"}
            /\ \E problems : Problem(problems) /\ failure' = Failed(problems)
  BY JudgingIs DEF Invs
<1>2. contacted' = {}
  BY <1>1, NothingContacted DEF Invs
<1>3. CASE phase' \in Unjudged \cup {"describe", "diagnose", "listen"} /\ failure' = failure
  BY <1>1, <1>3 DEF GoesOn
<1>4. CASE /\ phase' \in {"unwind", "report"}
           /\ \E problems : Problem(problems) /\ failure' = Failed(problems)
  BY <1>1, <1>2, <1>4 DEF Fails
<1> QED
  BY <1>1, <1>3, <1>4

\* Writing a document ends a command with it, or with a failure to write.
LEMMA EmitIs ==
  ASSUME EndInv, phase \notin Closing, NEW doc, NEW after, Emit(doc, after)
  PROVE  \/ inv.stdoutFails /\ failure' = Failed({"IO_WRITE_FAILED"})
         \/ ~inv.stdoutFails /\ failure' = after /\ stdout' = <<doc>>
<1>1. stdout = <<>>
  BY DEF EndInv
<1>2. Append(<<>>, doc) = <<doc>>
  OBVIOUS
<1> QED
  BY <1>1, <1>2 DEF Emit

\* A dry run or a validation writes its document and ends.
LEMMA DescribeEnds ==
  ASSUME Invs, Describe
  PROVE  Delivers
<1>1. /\ phase = "describe" /\ phase' = "report" /\ exit' = exit /\ contacted' = contacted
  BY DEF Describe, engine
<1>2. contacted' = {} /\ phase \notin Closing /\ failure = NoFailure
  BY <1>1, NothingContacted DEF Invs, EndInv, Closing
<1>3. Heard => Told'
  <2>1. SUFFICES ASSUME Heard
                 PROVE  Told'
    OBVIOUS
  <2>2. CASE inv.command = "validate"
    <3>1. Emit([kind |-> "validation"], NoFailure)
      BY <2>1, <2>2 DEF Describe, Heard
    <3>2. failure' = NoFailure /\ stdout' = <<[kind |-> "validation"]>>
      BY <1>2, <2>1, <3>1, EmitIs DEF Heard, Invs
    <3> QED
      BY <3>2 DEF Told, Says
  <2>3. CASE inv.command # "validate"
    <3> DEFINE plan == BuildPlan(cfg, Only(effective))
    <3>1. Emit(plan, NoFailure)
      BY <2>1, <2>3 DEF Describe, Heard
    <3>2. plan.kind = "plan"
      BY DEF BuildPlan
    <3> HIDE DEF plan
    <3>3. failure' = NoFailure /\ stdout' = <<plan>>
      BY <1>2, <2>1, <3>1, EmitIs DEF Heard, Invs
    <3> QED
      BY <3>2, <3>3 DEF Told, Says
  <2> QED
    BY <2>2, <2>3
<1> QED
  BY <1>1, <1>2, <1>3 DEF Delivers

\* A diagnosis writes its document and ends.
LEMMA DoctorReportEnds ==
  ASSUME Invs, DoctorReport
  PROVE  Delivers
<1> DEFINE d == Diagnose(cfg, Only(effective), Machine, looked)
           after == IF d.ok THEN NoFailure ELSE Documented("PREFLIGHT_CONNECT")
<1>1. /\ phase = "diagnose" /\ phase' = "report" /\ exit' = exit /\ contacted' = contacted
      /\ Emit(d, after)
  BY DEF DoctorReport, Report, engine
<1>2. contacted' = {} /\ phase \notin Closing
  BY <1>1, NothingContacted DEF Invs, EndInv, Closing
<1>3. d.kind = "diagnosis"
  BY DEF Diagnose
<1> HIDE DEF d
<1>4. Heard => Told'
  <2>1. SUFFICES ASSUME Heard
                 PROVE  Told'
    OBVIOUS
  <2>2. failure' = after /\ stdout' = <<d>>
    <3> HIDE DEF after
    <3> QED
      BY <1>1, <1>2, <2>1, EmitIs DEF Heard, Invs
  <2>3. stdout'[1] = d
    BY <2>2
  <2> QED
    BY <1>3, <2>2, <2>3 DEF Told, Says
<1> QED
  BY <1>1, <1>2, <1>4 DEF Delivers

\* A run writes its result and ends with what the result says.
LEMMA RenderEnds ==
  ASSUME Invs, Render
  PROVE  Delivers
<1> DEFINE analysis == Only(result).analysis
           d == [kind |-> "result", analysis |-> analysis]
           after == OutcomeExit(analysis)
<1>1. /\ phase = "render" /\ phase' = "unwind" /\ exit' = exit /\ contacted' = contacted
      /\ Emit(d, after) /\ inv' = inv
  BY DEF Render, engine
<1>2. phase \notin Closing /\ Consistent(analysis)
  BY <1>1 DEF Invs, EndInv, Closing
<1>3. after \in {NoFailure, Documented("SLO_BREACH"), Documented("RUN_INVALID")}
  BY DEF OutcomeExit
<1>4. d.kind = "result" /\ d.analysis = analysis
  OBVIOUS
<1> HIDE DEF d, analysis
<1>5. \/ inv.stdoutFails /\ failure' = Failed({"IO_WRITE_FAILED"})
      \/ ~inv.stdoutFails /\ failure' = after /\ stdout' = <<d>>
  <2> HIDE DEF after
  <2> QED
    BY <1>1, <1>2, EmitIs DEF Invs
<1>6. Heard => Told'
  <2>1. SUFFICES ASSUME Heard
                 PROVE  Told'
    OBVIOUS
  <2>2. failure' = OutcomeExit(analysis) /\ stdout' = <<d>> /\ stdout'[1] = d
    BY <1>5, <2>1 DEF Heard
  <2> QED
    BY <1>1, <1>2, <1>4, <2>2 DEF Told, Says, OutcomeExit
<1>7. Late(failure.codes)'
  BY <1>3, <1>5 DEF Late, NoFailure, Documented, Failed, Verdicts, ExitRuntimeCodes
<1> QED
  BY <1>1, <1>2, <1>6, <1>7 DEF Delivers

\* The verdict of a document built blames the client only when the run is not believed.
LEMMA BuildIsConsistent ==
  ASSUME NEW c, NEW final, NEW warnings, NEW records
  PROVE  Consistent(Build(c, final, warnings, records).analysis)
<1>1. ASSUME NEW runners, NEW validity, NEW slo, validity.state # "invalid"
      PROVE  BuildVerdict(runners, validity, slo).bottleneck # "client"
  <2>1. CASE ~slo.pass
    BY <1>1, <2>1 DEF BuildVerdict
  <2>2. CASE slo.pass
    BY <1>1, <2>2 DEF BuildVerdict
  <2> QED
    BY <2>1, <2>2
<1>2. ASSUME NEW run, NEW runners, NEW slo
      PROVE  Consistent(Analyse(run, runners, slo))
  <2> DEFINE validity == EvaluateValidity(run, runners)
             budgets == EvaluateSLO(runners, slo)
  <2>1. Analyse(run, runners, slo)
          = [validity |-> validity, slo |-> budgets, verdict |-> BuildVerdict(runners, validity, budgets)]
    BY DEF Analyse
  <2> HIDE DEF validity, budgets
  <2> QED
    BY <1>1, <2>1 DEF Consistent
<1> QED
  BY <1>2 DEF Build

\* Building the runners goes on or fails,
LEMMA BuildRunnersEnds ==
  ASSUME Invs, BuildRunners
  PROVE  GoesOn \/ Fails
<1> DEFINE problems ==
      FirstProblems([i \in DOMAIN RunnersOf(cfg) |-> BuildProblems(RunnersOf(cfg)[i])])
<1>1. /\ phase = "build" /\ StepOr(problems, "resolve") /\ stdout' = stdout /\ exit' = exit
      /\ contacted' = contacted
  BY DEF BuildRunners, engine
<1>2. IsConfig(cfg)
  BY <1>1 DEF Invs, DocumentInv, Allowed, Sound, Unjudged, Reading, Closing
<1>3. NoVerdict(problems)
  BY <1>2, BuildHasNone
<1>4. contacted' = {}
  BY <1>1, NothingContacted DEF Invs
<1> HIDE DEF problems
<1>5. CASE problems # {}
  <2>1. failure' = Failed(problems) /\ phase' \in {"unwind", "report"}
    BY <1>1, <1>5, StepOrIs
  <2> QED
    BY <1>1, <1>3, <1>4, <1>5, <2>1 DEF Fails, Problem, Closing
<1>6. CASE problems = {}
  <2>1. failure' = failure /\ phase' = "resolve"
    BY <1>1, <1>6, StepOrIs
  <2> QED
    BY <1>1, <2>1 DEF GoesOn, Closing
<1> QED
  BY <1>5, <1>6

\* as does resolving a host,
LEMMA ResolveEnds ==
  ASSUME Invs, Resolve
  PROVE  GoesOn \/ Fails
<1>1. /\ phase = "resolve" /\ stdout' = stdout /\ exit' = exit /\ contacted' = contacted
  BY DEF Resolve
<1>2. PICK host \in Targets(cfg) \ DOMAIN looked :
        StepOr(IF looked'[host] = {} THEN {"PREFLIGHT_DNS"}
               ELSE CheckTarget(Only(effective), Target(host, looked'[host])), phase)
  BY DEF Resolve
<1>3. PICK problems : problems \in {{}, {"PREFLIGHT_DNS"}, {"POLICY_TARGET_NOT_ALLOWED"}}
                        /\ StepOr(problems, phase)
  BY <1>2 DEF CheckTarget, When
<1>4. NoVerdict(problems)
  BY <1>3 DEF NoVerdict, Verdicts
<1>5. contacted' = {}
  BY <1>1, NothingContacted DEF Invs
<1>6. CASE problems # {}
  <2>1. failure' = Failed(problems) /\ phase' \in {"unwind", "report"}
    BY <1>3, <1>6, StepOrIs
  <2> QED
    BY <1>1, <1>4, <1>5, <1>6, <2>1 DEF Fails, Problem, Closing
<1>7. CASE problems = {}
  <2>1. failure' = failure /\ phase' = phase
    BY <1>3, <1>7, StepOrIs
  <2> QED
    BY <1>1, <2>1 DEF GoesOn, Closing
<1> QED
  BY <1>6, <1>7

\* connecting a runner,
LEMMA PrepareEnds ==
  ASSUME Invs, NEW name \in {"http", "db", "redis"}, Prepare(name)
  PROVE  GoesOn \/ Fails
<1>1. /\ phase = "prepare" /\ stdout' = stdout /\ exit' = exit
      /\ \/ StepOr({}, IF prepared' = Configured(cfg) THEN "profile" ELSE phase)
         \/ \E code \in PrepareFailures[name] : StepOr({code}, phase)
  BY DEF Prepare
<1>2. CASE StepOr({}, IF prepared' = Configured(cfg) THEN "profile" ELSE phase)
  <2>1. failure' = failure /\ phase' \in {"profile", "prepare"}
    BY <1>1, <1>2, StepOrIs
  <2> QED
    BY <1>1, <2>1 DEF GoesOn, Closing
<1>3. ASSUME NEW code \in PrepareFailures[name], StepOr({code}, phase)
      PROVE  Fails
  <2>1. failure' = Failed({code}) /\ phase' \in {"unwind", "report"}
    BY <1>3, StepOrIs
  <2>2. code \in ExitRuntimeCodes /\ code \notin Verdicts
    BY DEF PrepareFailures, ExitRuntimeCodes, Verdicts
  <2>3. Problem({code}) /\ Late(failure.codes)'
    BY <2>1, <2>2 DEF Problem, NoVerdict, Late, Failed
  <2> QED
    BY <1>1, <2>1, <2>3 DEF Fails, Closing
<1> QED
  BY <1>1, <1>2, <1>3

\* compiling the profiles,
LEMMA BuildExecutorsEnds ==
  ASSUME Invs, BuildExecutors
  PROVE  GoesOn \/ Fails
<1>1. /\ phase = "profile" /\ cfg' = cfg /\ stdout' = stdout /\ exit' = exit
      /\ \/ /\ failure' = Failed({"CONFIG_INVALID_VALUE"}) /\ phase' \in {"unwind", "report"}
            /\ \E name \in Configured(cfg) :
                 ProfileRefused(StartRate(ExecutorOf(cfg, name)), ExecutorOf(cfg, name).stages)
         \/ failure' = failure /\ phase' = "run"
  BY BuildExecutorsIs
<1>2. Sound(cfg)
  BY <1>1 DEF Invs, DocumentInv, Allowed, Unjudged, Reading, Closing
<1>3. CASE failure' = failure /\ phase' = "run"
  BY <1>1, <1>3 DEF GoesOn, Closing
<1>4. CASE /\ failure' = Failed({"CONFIG_INVALID_VALUE"}) /\ phase' \in {"unwind", "report"}
           /\ \E name \in Configured(cfg) :
                ProfileRefused(StartRate(ExecutorOf(cfg, name)), ExecutorOf(cfg, name).stages)
  <2>1. \E name \in Configured(cfg) : ExecutorOf(cfg, name).stages = <<>>
    BY <1>2, <1>4, RefusedLate
  <2>2. Late(failure.codes)'
    BY <1>1, <2>1 DEF Late
  <2>3. Problem({"CONFIG_INVALID_VALUE"})
    BY DEF Problem, NoVerdict, Verdicts
  <2> QED
    BY <1>1, <1>4, <2>2, <2>3 DEF Fails, Closing
<1> QED
  BY <1>1, <1>3, <1>4

\* and writing the result file.
LEMMA WriteResultFileEnds ==
  ASSUME Invs, WriteResultFile
  PROVE  GoesOn \/ Fails
<1>1. /\ phase = "file" /\ stdout' = stdout /\ exit' = exit /\ result' = result
      /\ StepOr({}, "render") \/ StepOr({"IO_WRITE_FAILED"}, "render")
  BY DEF WriteResultFile, engine
<1>2. CASE StepOr({}, "render")
  <2>1. failure' = failure /\ phase' = "render"
    BY <1>2, StepOrIs
  <2>2. Consistent(Only(result').analysis)
    BY <1>1 DEF Invs, EndInv
  <2> QED
    BY <1>1, <2>1, <2>2 DEF GoesOn, Closing
<1>3. CASE StepOr({"IO_WRITE_FAILED"}, "render")
  <2>1. failure' = Failed({"IO_WRITE_FAILED"}) /\ phase' \in {"unwind", "report"}
    BY <1>3, StepOrIs
  <2>2. Late(failure.codes)'
    BY <2>1 DEF Late, Failed, ExitRuntimeCodes
  <2>3. Problem({"IO_WRITE_FAILED"})
    BY DEF Problem, NoVerdict, Verdicts
  <2> QED
    BY <1>1, <2>1, <2>2, <2>3 DEF Fails, Closing
<1> QED
  BY <1>1, <1>2, <1>3

\* A run that is over has a result whose verdict is consistent.
LEMMA FinishRunEnds ==
  ASSUME Invs, FinishRun
  PROVE  GoesOn
<1>1. /\ phase = "collect" /\ phase' \in {"file", "render"} /\ failure' = failure
      /\ stdout' = stdout /\ exit' = exit
  BY DEF FinishRun
<1>2. PICK final : result' = {Build(cfg, final, StatementWarnings(cfg), recorded)}
  BY DEF FinishRun
<1>3. Only(result') = Build(cfg, final, StatementWarnings(cfg), recorded)
  BY <1>2 DEF Only
<1>4. Consistent(Only(result').analysis)
  BY <1>3, BuildIsConsistent
<1> QED
  BY <1>1, <1>4 DEF GoesOn, Closing

\* The other steps only go on.
LEMMA OthersGoOn ==
  ASSUME Invs,
         \/ DoctorLookup \/ Listen \/ Resolved \/ Abort \/ EndLoad \/ Unwind
         \/ \E name \in {"http", "db", "redis"} : Arrive(name) \/ Collect(name)
  PROVE  GoesOn
<1>1. CASE DoctorLookup
  BY <1>1 DEF DoctorLookup, GoesOn
<1>2. CASE Listen
  BY <1>2 DEF Listen, GoesOn, Closing
<1>3. CASE Resolved
  BY <1>3 DEF Resolved, GoesOn, Closing
<1>4. CASE Abort
  BY <1>4 DEF Abort, GoesOn
<1>5. CASE EndLoad
  BY <1>5 DEF EndLoad, GoesOn, Closing
<1>6. CASE Unwind
  BY <1>6 DEF Unwind, GoesOn, engine
<1>7. ASSUME NEW name \in {"http", "db", "redis"}, Arrive(name) \/ Collect(name)
      PROVE  GoesOn
  BY <1>7 DEF Arrive, Collect, GoesOn
<1> QED
  BY <1>1, <1>2, <1>3, <1>4, <1>5, <1>6, <1>7

\* No step breaks EndInv.
LEMMA EndStep == Invs /\ [Next]_vars => EndInv'
<1> SUFFICES ASSUME Invs, [Next]_vars
             PROVE  EndInv'
  OBVIOUS
<1>1. EndInv
  BY DEF Invs
<1>2. ASSUME Judging
      PROVE  EndInv'
  <2>1. Running /\ inv' = inv
    BY <1>2, JudgingIs DEF Invs
  <2> QED
    BY <1>1, <1>2, <2>1, JudgingEnds, GoesOnKeeps, FailsKeeps
<1>3. ASSUME Later, GoesOn \/ Fails \/ Delivers, Running
      PROVE  EndInv'
  BY <1>1, <1>3, LaterIs, GoesOnKeeps, FailsKeeps
<1>4. ASSUME Later, ~(Watcher \/ Signal), ~ReportExit
      PROVE  EndInv'
  <2>1. Running
    <3>1. CASE Resolving \/ Rest \/ BuildExecutors
      BY <3>1, ResolvingIs, RestIs, BuildExecutorsIs
    <3>2. ASSUME NEW name \in {"http", "db", "redis"}, Prepare(name) \/ Arrive(name)
          PROVE  Running
      BY <3>2 DEF Prepare, Arrive
    <3> QED
      BY <1>4, <3>1, <3>2, LaterSplits
  <2>2. GoesOn \/ Fails \/ Delivers
    BY <1>4, DescribeEnds, DoctorReportEnds, RenderEnds, BuildRunnersEnds, ResolveEnds, PrepareEnds,
       BuildExecutorsEnds, WriteResultFileEnds, FinishRunEnds, OthersGoOn DEF Later
  <2> QED
    BY <1>3, <1>4, <2>1, <2>2
<1>5. ASSUME Watcher \/ Signal
      PROVE  EndInv'
  <2>1. GoesOn \/ Killed
    BY <1>5, WatcherIs DEF GoesOn, Killed
  <2> QED
    BY <1>1, <1>5, <2>1, WatcherIs, GoesOnKeeps, KilledKeeps
<1>6. ASSUME ReportExit
      PROVE  EndInv'
  BY <1>1, <1>6, ReportExitKeeps
<1>7. CASE UNCHANGED vars
  <2>1. Late(failure.codes) => Late(failure.codes)'
    BY <1>7 DEF Late, vars
  <2>2. Untold \/ Told => Untold' \/ Told'
    BY <1>7 DEF Untold, Told, Says, OutcomeExit, vars
  <2>3. ExitMatchesDocument => ExitMatchesDocument'
    BY <1>7 DEF ExitMatchesDocument, vars
  <2> QED
    BY <1>1, <1>7, <2>1, <2>2, <2>3 DEF EndInv, Heard, vars
<1> QED
  BY <1>2, <1>4, <1>5, <1>6, <1>7, NextIs DEF Judging

-----------------------------------------------------------------------------
(* What holds of every command *)

\* Every command satisfies the four layers, whatever the policy, the document and the hosts.
THEOREM CommandInvariant == Spec => []Invs
<1>1. Init => Invs
  BY DocumentInit, LoadInit, TargetInit, EndInit DEF Invs
<1>2. Invs /\ [Next]_vars => Invs'
  BY DocumentStep, LoadStep, TargetStep, EndStep DEF Invs
<1> QED
  BY <1>1, <1>2, PTL DEF Spec

\* No load outside the envelope: a profile never asks for a higher rate or lasts longer than the
\* policy and the configuration both allow, evenly spaced arrivals never come faster, an open
\* model has no more in flight, and nothing known to write or to destroy runs ungranted.  It is
\* why engine.go may check the load once, before it builds what follows the profile.
THEOREM LoadStaysWithinEnvelope == Spec => []LoadWithinEnvelope
<1>1. ASSUME Invs
      PROVE  LoadWithinEnvelope
  <2> SUFFICES ASSUME Loaded, NEW p \in Grants, NEW name \in Configured(cfg)
               PROVE  LET e       == ExecutorOf(cfg, name)
                          s       == arrivals[name]
                          profile == s.profile
                      IN /\ \A t \in 0..profile.duration :
                              Within(RateAt(profile, t)[1], RateAt(profile, t)[2], p.maxRate)
                         /\ Within(profile.duration, 1, p.maxDuration)
                         /\ cfg.run.arrival # "poisson" => Within(s.count, s.last, p.maxRate)
                         /\ e.type = "arrival-rate" => Within(e.maxInFlight, 1, p.maxInFlight)
                         /\ name # "http" =>
                              /\ Dangerous(cfg, name) = {} \/ p.allowDangerous
                              /\ p.allowWrites \/ \A item \in ToSet(StorageItems(cfg, name)) :
                                   item.type # "write"
                                     /\ (item.type = "" =>
                                           \A got \in Judgements(name, item) : got.op = "read")
    BY DEF LoadWithinEnvelope
  <2>1. Scheduled /\ Allowed /\ inv \in Invocations
    BY <1>1 DEF Invs, LoadInv, DocumentInv, Loaded, Scheduled
  <2>2. Sound(cfg) /\ Follows(cfg, name, arrivals[name])
    BY <2>1 DEF Scheduled, Allowed
  <2>3. Lets(p, cfg)
    <3>1. p \in {Load(inv.policy), Tighten(Load(inv.policy), cfg.safety)}
      BY <2>1 DEF Grants, Allowed
    <3>2. IsGrant(Load(inv.policy))
      BY <2>1, GrantIs
    <3> QED
      BY <2>1, <2>2, <3>1, <3>2, BothLet DEF Allowed
  <2> QED
    BY <2>2, <2>3, LoadIsLet
<1> QED
  BY <1>1, CommandInvariant, PTL

\* What a dry run tells is what a run does: a run whose generators are done has contacted the
\* targets that plan.go lists and, evenly spaced, offered as many operations as it foretells,
\* none of them after the duration of the run.
THEOREM RunsOfferThePlan == Spec => []RunOffersThePlan
<1>1. ASSUME Invs
      PROVE  RunOffersThePlan
  <2> DEFINE plan == BuildPlan(cfg, Only(effective))
  <2> SUFFICES ASSUME Loaded, \A name \in Configured(cfg) : arrivals[name].done
               PROVE  /\ contacted = plan.targets
                      /\ \A name \in Configured(cfg) :
                           LET e == ExecutorOf(cfg, name)
                               s == arrivals[name]
                           IN /\ s.last <= cfg.run.duration
                              /\ cfg.run.arrival # "poisson" /\ e.type = "arrival-rate" =>
                                   2 * s.count <= plan.runners[name].offered
                                     /\ plan.runners[name].offered < 2 * (s.count + 1)
    BY DEF RunOffersThePlan
  <2>1. Scheduled /\ Sound(cfg)
    BY <1>1 DEF Invs, LoadInv, DocumentInv, Loaded, Scheduled, Allowed
  <2>2. contacted = plan.targets
    <3>1. contacted = UNION {HostsFor(cfg, name) : name \in Configured(cfg)}
      BY <1>1, <2>1 DEF Invs, LoadInv, Scheduled
    <3> QED
      BY <3>1 DEF BuildPlan, Targets
  <2>3. ASSUME NEW name \in Configured(cfg)
        PROVE  plan.runners[name].offered = OfferedOperations(ExecutorOf(cfg, name))
    BY DEF BuildPlan, PlanRunner
  <2> HIDE DEF plan
  <2>4. ASSUME NEW name \in Configured(cfg)
        PROVE  /\ arrivals[name].last <= cfg.run.duration
               /\ cfg.run.arrival # "poisson" /\ ExecutorOf(cfg, name).type = "arrival-rate" =>
                    2 * arrivals[name].count <= plan.runners[name].offered
                      /\ plan.runners[name].offered < 2 * (arrivals[name].count + 1)
    <3>1. Follows(cfg, name, arrivals[name]) /\ arrivals[name].done
      BY <2>1 DEF Scheduled
    <3> QED
      BY <2>1, <2>3, <3>1, OffersThePlan
  <2> QED
    BY <2>2, <2>4
<1> QED
  BY <1>1, CommandInvariant, PTL

\* A refusal costs nothing: nothing is contacted before every host is resolved and permitted
\* (engine.go, preflight), and a command that ends with exit code 2 has contacted nothing, but
\* for the executor without stages that validate.go lets through.
THEOREM RefusalsCostNothing == Spec => []RefusalsAreFree
<1>1. ASSUME Invs
      PROVE  RefusalsAreFree
  <2>1. contacted # {} =>
          /\ Targets(cfg) \subseteq DOMAIN looked
          /\ \A host \in DOMAIN looked : TargetPermitted(Only(effective), Target(host, looked[host]))
    BY <1>1 DEF Invs, TargetInv, Cleared, HostPermitted
  <2>2. ASSUME exit = {2}, contacted # {}
        PROVE  \E name \in Configured(cfg) : ExecutorOf(cfg, name).stages = <<>>
    <3>1. ExitCodeOf(failure) = 2 /\ Late(failure.codes)
      <4>1. exit \in {{}, {3}, {-1}, {ExitCodeOf(failure)}} /\ Late(failure.codes)
        BY <1>1, <2>2 DEF Invs, EndInv
      <4>2. {2} # {} /\ {2} # {3} /\ {2} # {-1}
        <5>1. 2 # 3 /\ 2 # -1
          OBVIOUS
        <5> QED
          BY <5>1
      <4>3. {ExitCodeOf(failure)} = {2}
        BY <2>2, <4>1, <4>2
      <4> QED
        BY <4>1, <4>3
    <3>2. failure.codes # {}
      BY <3>1 DEF ExitCodeOf
    <3> DEFINE code == CHOOSE code \in failure.codes : TRUE
    <3>3. code \in failure.codes /\ ExitCode(code) = 2
      BY <3>1, <3>2 DEF ExitCodeOf
    <3> HIDE DEF code
    <3>4. code \notin ExitRuntimeCodes /\ code \notin Verdicts
      BY <3>3 DEF ExitCode, Verdicts
    <3> QED
      BY <3>1, <3>2, <3>3, <3>4 DEF Late
  <2> QED
    BY <2>1, <2>2 DEF RefusalsAreFree
<1> QED
  BY <1>1, CommandInvariant, PTL

\* In JSON mode, with an output that works, a command that ends has written exactly one document,
\* and the document agrees with the exit code.
THEOREM ExitsMatchDocuments == Spec => []ExitMatchesDocument
<1>1. Invs => ExitMatchesDocument
  BY DEF Invs, EndInv
<1> QED
  BY <1>1, CommandInvariant, PTL
=============================================================================
