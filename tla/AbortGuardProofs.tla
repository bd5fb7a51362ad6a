-------------------------- MODULE AbortGuardProofs --------------------------
(***************************************************************************)
(* What the abort guard promises, for every window, resolution, threshold  *)
(* and number of samples.                                                  *)
(*                                                                         *)
(* The argument: for every instant, the sum over the slots the ring counts *)
(* and the sum over what was observed since grow alike with each outcome,  *)
(* but for what a slot held when it is taken over (ObserveAdds).  So the   *)
(* ring never counts more than was observed, however late the workers      *)
(* come.  If they come within the window, a slot that is taken over holds  *)
(* only what began before it (TakenOverIsOld): the ring is long enough     *)
(* (ARingApart), and the sums stay equal.                                  *)
(*                                                                         *)
(* The first part is about sums over finite sets.  The library defines     *)
(* them by recursion on the set, so that even the equation has to be       *)
(* proved; the induction is on a smallest counterexample (SmallestSet).    *)
(***************************************************************************)
EXTENDS AbortGuard, FiniteSetTheorems, WellFoundedInduction, TLAPS

-----------------------------------------------------------------------------
(* Sums. *)

\* Induction over finite sets, as a smallest counterexample.
LEMMA SmallestSet ==
  ASSUME NEW S, IsFiniteSet(S), NEW Bad \in SUBSET SUBSET S, Bad # {}
  PROVE  \E u \in Bad : \A v \in SUBSET u : v # u => v \notin Bad
<1>1. Bad \subseteq FiniteSubsetsOf(S)
  BY FS_Subset DEF FiniteSubsetsOf
<1>2. IsWellFoundedOn(StrictSubsetOrdering(S), FiniteSubsetsOf(S))
  BY FS_StrictSubsetOrderingWellFounded
<1>3. PICK u \in Bad : \A v \in Bad : ~(<<v, u>> \in StrictSubsetOrdering(S))
  BY <1>1, <1>2, WFMin
<1>4. ASSUME NEW v \in SUBSET u, v # u
      PROVE  v \notin Bad
  BY <1>3, <1>4 DEF StrictSubsetOrdering
<1> QED
  BY <1>4

\* The recursive function by which SumFunctionOnSet adds up a set.
Pick(s) == CHOOSE x \in s : TRUE
AddsUp(g, f, S) ==
  g = [s \in SUBSET S |-> IF s = {} THEN 0 ELSE f[Pick(s)] + g[s \ {Pick(s)}]]
Adder(f, S) == CHOOSE g : AddsUp(g, f, S)

\* SumFunctionOnSet is the value of that function at the whole set.
LEMMA SumIsAdder ==
  ASSUME NEW f, NEW S
  PROVE  SumFunctionOnSet(f, S) = Adder(f, S)[S]
BY DEF SumFunctionOnSet, FoldFunctionOnSet, MapThenFoldSet, Adder, AddsUp, Pick

\* The function for a set and the one for a part of it agree on the part.
LEMMA AdderIsUnique ==
  ASSUME NEW f, NEW S, IsFiniteSet(S), NEW T \in SUBSET S,
         NEW g, AddsUp(g, f, S), NEW h, AddsUp(h, f, T)
  PROVE  g[T] = h[T]
<1> DEFINE Bad == {u \in SUBSET T : g[u] # h[u]}
<1>1. ASSUME Bad # {}
      PROVE  FALSE
  <2>1. IsFiniteSet(T)
    BY FS_Subset
  <2>2. PICK u \in Bad : \A v \in SUBSET u : v # u => v \notin Bad
    <3>1. Bad \in SUBSET SUBSET T
      OBVIOUS
    <3> HIDE DEF Bad
    <3> QED
      BY <1>1, <2>1, <3>1, SmallestSet
  <2>3. u \in SUBSET T /\ u \in SUBSET S
    OBVIOUS
  <2>4. /\ g[u] = IF u = {} THEN 0 ELSE f[Pick(u)] + g[u \ {Pick(u)}]
        /\ h[u] = IF u = {} THEN 0 ELSE f[Pick(u)] + h[u \ {Pick(u)}]
    BY <2>3 DEF AddsUp
  <2>5. u # {} => Pick(u) \in u
    BY DEF Pick
  <2>6. u # {} => g[u \ {Pick(u)}] = h[u \ {Pick(u)}]
    BY <2>2, <2>3, <2>5
  <2> QED
    BY <2>2, <2>4, <2>6
<1> QED
  BY <1>1

\* There is such a function for every finite set.
LEMMA AdderExists ==
  ASSUME NEW f, NEW S, IsFiniteSet(S)
  PROVE  AddsUp(Adder(f, S), f, S)
<1> DEFINE Bad == {u \in SUBSET S : ~ \E g : AddsUp(g, f, u)}
<1>1. ASSUME Bad # {}
      PROVE  FALSE
  <2>1. PICK u \in Bad : \A v \in SUBSET u : v # u => v \notin Bad
    <3>1. Bad \in SUBSET SUBSET S
      OBVIOUS
    <3> HIDE DEF Bad
    <3> QED
      BY <1>1, <3>1, SmallestSet
  <2> DEFINE g == [v \in SUBSET u |-> IF v = {} THEN 0
                     ELSE f[Pick(v)] + Adder(f, v \ {Pick(v)})[v \ {Pick(v)}]]
  <2>2. ASSUME NEW v \in SUBSET u, v # u
        PROVE  AddsUp(Adder(f, v), f, v)
    BY <2>1, <2>2 DEF Adder
  <2>3. ASSUME NEW v \in SUBSET u, v # u
        PROVE  g[v] = Adder(f, v)[v]
    <3>1. Adder(f, v)[v] = IF v = {} THEN 0
                           ELSE f[Pick(v)] + Adder(f, v)[v \ {Pick(v)}]
      BY <2>2, <2>3 DEF AddsUp
    <3>2. CASE v = {}
      BY <3>1, <3>2
    <3>3. CASE v # {}
      <4> DEFINE w == v \ {Pick(v)}
      <4>1. IsFiniteSet(v)
        BY FS_Subset
      <4>2. w \in SUBSET v /\ w \in SUBSET u /\ w # u
        BY <2>3
      <4>3. AddsUp(Adder(f, w), f, w) /\ AddsUp(Adder(f, v), f, v)
        BY <2>2, <2>3, <4>2
      <4> HIDE DEF w
      <4>4. Adder(f, v)[w] = Adder(f, w)[w]
        BY <4>1, <4>2, <4>3, AdderIsUnique
      <4> QED
        BY <3>1, <3>3, <4>4 DEF w
    <3> QED
      BY <3>2, <3>3
  <2>4. ASSUME NEW v \in SUBSET u, v # {}
        PROVE  g[v] = f[Pick(v)] + g[v \ {Pick(v)}]
    <3>1. Pick(v) \in v
      BY <2>4 DEF Pick
    <3>2. v \ {Pick(v)} \in SUBSET u /\ v \ {Pick(v)} # u
      BY <3>1
    <3>3. g[v \ {Pick(v)}] = Adder(f, v \ {Pick(v)})[v \ {Pick(v)}]
      BY <2>3, <3>2
    <3> QED
      BY <2>4, <3>3
  <2>5. g[{}] = 0
    OBVIOUS
  <2>6. g = [v \in SUBSET u |-> g[v]]
    OBVIOUS
  <2> HIDE DEF g
  <2>7. AddsUp(g, f, u)
    <3>1. \A v \in SUBSET u : g[v] = IF v = {} THEN 0 ELSE f[Pick(v)] + g[v \ {Pick(v)}]
      BY <2>4, <2>5
    <3> QED
      BY <2>6, <3>1 DEF AddsUp
  <2> QED
    BY <2>1, <2>7
<1>2. \E g : AddsUp(g, f, S)
  BY <1>1
<1> QED
  BY <1>2 DEF Adder

\* Nothing adds up to zero.
LEMMA SumEmpty ==
  ASSUME NEW f
  PROVE  SumFunctionOnSet(f, {}) = 0
<1>1. AddsUp(Adder(f, {}), f, {})
  BY AdderExists, FS_EmptySet
<1>2. Adder(f, {})[{}] = 0
  BY <1>1 DEF AddsUp
<1> QED
  BY <1>2, SumIsAdder

\* The recursive equation of a sum.
LEMMA SumPick ==
  ASSUME NEW f, NEW S, IsFiniteSet(S), S # {}
  PROVE  SumFunctionOnSet(f, S) = f[Pick(S)] + SumFunctionOnSet(f, S \ {Pick(S)})
<1> DEFINE T == S \ {Pick(S)}
<1>1. IsFiniteSet(T) /\ T \in SUBSET S
  BY FS_Subset
<1>2. AddsUp(Adder(f, S), f, S) /\ AddsUp(Adder(f, T), f, T)
  BY <1>1, AdderExists
<1>3. Adder(f, S)[S] = f[Pick(S)] + Adder(f, S)[T]
  BY <1>2 DEF AddsUp
<1> HIDE DEF T
<1>4. Adder(f, S)[T] = Adder(f, T)[T]
  BY <1>1, <1>2, AdderIsUnique
<1> QED
  BY <1>3, <1>4, SumIsAdder DEF T

\* A sum does not depend on the order in which it is taken.
LEMMA SumRemove ==
  ASSUME NEW S, IsFiniteSet(S), NEW f, \A x \in S : f[x] \in Int
  PROVE  /\ SumFunctionOnSet(f, S) \in Int
         /\ \A x \in S : SumFunctionOnSet(f, S) = f[x] + SumFunctionOnSet(f, S \ {x})
<1> DEFINE Sum(s) == SumFunctionOnSet(f, s)
           Good(s) == Sum(s) \in Int /\ \A x \in s : Sum(s) = f[x] + Sum(s \ {x})
           Bad == {s \in SUBSET S : ~Good(s)}
<1>1. ASSUME NEW s \in SUBSET S, s # {}
      PROVE  Pick(s) \in s /\ IsFiniteSet(s) /\ Sum(s) = f[Pick(s)] + Sum(s \ {Pick(s)})
  BY <1>1, FS_Subset, SumPick DEF Pick
<1>2. Sum({}) = 0
  BY SumEmpty
<1>3. ASSUME Bad # {}
      PROVE  FALSE
  <2> HIDE DEF Sum
  <2>1. PICK u \in Bad : \A v \in SUBSET u : v # u => v \notin Bad
    <3>1. Bad \in SUBSET SUBSET S
      OBVIOUS
    <3> HIDE DEF Bad
    <3> QED
      BY <1>3, <3>1, SmallestSet
  <2>2. \A v \in SUBSET u : v # u => Good(v)
    BY <2>1
  <2> DEFINE y == Pick(u)
  <2>3. u # {}
    <3>1. Good({})
      BY <1>2
    <3>2. u = {} => (Good(u) <=> Good({}))
      OBVIOUS
    <3>3. ~Good(u)
      BY <2>1
    <3> QED
      BY <3>1, <3>2, <3>3
  <2>4. y \in u /\ u \in SUBSET S /\ Sum(u) = f[y] + Sum(u \ {y})
    BY <1>1, <2>3
  <2> HIDE DEF y
  <2>5. f[y] \in Int /\ Sum(u \ {y}) \in Int
    BY <2>2, <2>4
  <2>6. Sum(u) \in Int
    BY <2>4, <2>5
  <2>7. ASSUME NEW x \in u
        PROVE  Sum(u) = f[x] + Sum(u \ {x})
    <3>1. CASE x = y
      BY <2>4, <3>1
    <3>2. CASE x # y
      <4> DEFINE r == (u \ {x}) \ {y}
      <4>1. (u \ {y}) \ {x} = r /\ x \in u \ {y} /\ y \in u \ {x}
        BY <2>4, <3>2
      <4>2. u \ {x} \in SUBSET u /\ u \ {x} # u /\ u \ {y} \in SUBSET u /\ u \ {y} # u
            /\ r \in SUBSET u /\ r # u
        BY <2>4
      <4>3. Good(u \ {x}) /\ Good(u \ {y}) /\ Good(r)
        BY <2>2, <4>2
      <4>4. Sum(u \ {y}) = f[x] + Sum(r) /\ Sum(u \ {x}) = f[y] + Sum(r) /\ Sum(r) \in Int
        BY <4>1, <4>3
      <4>5. f[x] \in Int
        BY <2>4
      <4> HIDE DEF r
      <4> QED
        BY <2>4, <2>5, <4>4, <4>5
    <3> QED
      BY <3>1, <3>2
  <2> QED
    BY <2>1, <2>6, <2>7
<1> QED
  BY <1>3

\* A sum of naturals is a natural.
LEMMA SumIsNat ==
  ASSUME NEW S, IsFiniteSet(S), NEW f, \A x \in S : f[x] \in Nat
  PROVE  SumFunctionOnSet(f, S) \in Nat
<1> DEFINE Sum(s) == SumFunctionOnSet(f, s)
           Bad == {s \in SUBSET S : Sum(s) \notin Nat}
<1>1. ASSUME NEW s \in SUBSET S, s # {}
      PROVE  Pick(s) \in s /\ IsFiniteSet(s) /\ Sum(s) = f[Pick(s)] + Sum(s \ {Pick(s)})
  BY <1>1, FS_Subset, SumPick DEF Pick
<1>2. Sum({}) = 0
  BY SumEmpty
<1>3. ASSUME Bad # {}
      PROVE  FALSE
  <2> HIDE DEF Sum
  <2>1. PICK u \in Bad : \A v \in SUBSET u : v # u => v \notin Bad
    <3>1. Bad \in SUBSET SUBSET S
      OBVIOUS
    <3> HIDE DEF Bad
    <3> QED
      BY <1>3, <3>1, SmallestSet
  <2>2. u # {} /\ u \in SUBSET S
    <3>1. Sum(u) \notin Nat /\ u \in SUBSET S
      BY <2>1
    <3>2. u = {} => Sum(u) = Sum({})
      BY Zenon
    <3>3. Sum({}) \in Nat
      BY <1>2
    <3> HIDE DEF Bad
    <3> QED
      BY <3>1, <3>2, <3>3
  <2>3. Pick(u) \in u /\ Sum(u) = f[Pick(u)] + Sum(u \ {Pick(u)})
    BY <1>1, <2>2
  <2>4. Sum(u \ {Pick(u)}) \in Nat /\ f[Pick(u)] \in Nat
    BY <2>1, <2>2, <2>3
  <2> QED
    BY <2>1, <2>3, <2>4
<1> QED
  BY <1>3

\* A sum depends only on what is summed.
LEMMA SumSame ==
  ASSUME NEW S, IsFiniteSet(S), NEW f, NEW g, \A x \in S : f[x] = g[x]
  PROVE  SumFunctionOnSet(f, S) = SumFunctionOnSet(g, S)
<1> DEFINE F(s) == SumFunctionOnSet(f, s)
           G(s) == SumFunctionOnSet(g, s)
           Bad == {s \in SUBSET S : F(s) # G(s)}
<1>1. ASSUME NEW s \in SUBSET S, s # {}
      PROVE  /\ Pick(s) \in s /\ F(s) = f[Pick(s)] + F(s \ {Pick(s)})
             /\ G(s) = g[Pick(s)] + G(s \ {Pick(s)})
  BY <1>1, FS_Subset, SumPick DEF Pick
<1>2. F({}) = 0 /\ G({}) = 0
  BY SumEmpty
<1>3. ASSUME Bad # {}
      PROVE  FALSE
  <2> HIDE DEF F, G
  <2>1. PICK u \in Bad : \A v \in SUBSET u : v # u => v \notin Bad
    <3>1. Bad \in SUBSET SUBSET S
      OBVIOUS
    <3> HIDE DEF Bad
    <3> QED
      BY <1>3, <3>1, SmallestSet
  <2>2. u # {} /\ u \in SUBSET S
    BY <1>2, <2>1
  <2>3. F(u \ {Pick(u)}) = G(u \ {Pick(u)}) /\ f[Pick(u)] = g[Pick(u)]
    BY <1>1, <2>1, <2>2
  <2> QED
    BY <1>1, <2>1, <2>2, <2>3
<1> QED
  BY <1>3

\* Zeros add up to zero.
LEMMA SumZero ==
  ASSUME NEW S, IsFiniteSet(S), NEW f, \A x \in S : f[x] = 0
  PROVE  SumFunctionOnSet(f, S) = 0
<1> DEFINE Sum(s) == SumFunctionOnSet(f, s)
           Bad == {s \in SUBSET S : Sum(s) # 0}
<1>1. ASSUME NEW s \in SUBSET S, s # {}
      PROVE  Pick(s) \in s /\ Sum(s) = f[Pick(s)] + Sum(s \ {Pick(s)})
  BY <1>1, FS_Subset, SumPick DEF Pick
<1>2. Sum({}) = 0
  BY SumEmpty
<1>3. ASSUME Bad # {}
      PROVE  FALSE
  <2> HIDE DEF Sum
  <2>1. PICK u \in Bad : \A v \in SUBSET u : v # u => v \notin Bad
    <3>1. Bad \in SUBSET SUBSET S
      OBVIOUS
    <3> HIDE DEF Bad
    <3> QED
      BY <1>3, <3>1, SmallestSet
  <2>2. u # {} /\ u \in SUBSET S
    BY <1>2, <2>1
  <2>3. Sum(u \ {Pick(u)}) = 0 /\ f[Pick(u)] = 0
    BY <1>1, <2>1, <2>2
  <2> QED
    BY <1>1, <2>1, <2>2, <2>3
<1> QED
  BY <1>3

\* A sum, with and without one place.
LEMMA SumWithout ==
  ASSUME NEW S, IsFiniteSet(S), NEW f, \A x \in S : f[x] \in Nat, NEW j
  PROVE  /\ SumFunctionOnSet(f, S \ {j}) \in Nat
         /\ SumFunctionOnSet(f, S)
              = SumFunctionOnSet(f, S \ {j}) + (IF j \in S THEN f[j] ELSE 0)
<1> DEFINE R == S \ {j}
           F(s) == SumFunctionOnSet(f, s)
<1>1. IsFiniteSet(R) /\ R \in SUBSET S
  BY FS_Subset
<1>2. F(R) \in Nat
  BY <1>1, SumIsNat
<1>3. CASE j \in S
  <2>1. F(S) = f[j] + F(R)
    BY <1>3, SumRemove
  <2>2. f[j] \in Nat
    BY <1>3
  <2> HIDE DEF F, R
  <2>3. F(S) = F(R) + f[j]
    BY <1>2, <2>1, <2>2
  <2> QED
    BY <1>2, <1>3, <2>3 DEF F, R
<1>4. CASE j \notin S
  <2>1. S = R
    BY <1>4
  <2>2. F(S) = F(R) + 0
    <3> HIDE DEF F, R
    <3> QED
      BY <1>2, <2>1
  <2> QED
    BY <1>2, <1>4, <2>2
<1> QED
  BY <1>3, <1>4

-----------------------------------------------------------------------------
(* Periods and the ring. *)

\* NewAbortGuard never makes an empty ring.
LEMMA NumSlotsPositive == NumSlots \in Nat \ {0}
<1>1. Window \div Resolution \in Nat
  BY GuardAssumption
<1> QED
  BY <1>1 DEF NumSlots

\* Multiplication by a natural is monotone.
LEMMA TimesMonotone ==
  ASSUME NEW b \in Nat \ {0}, NEW p \in Nat, NEW q \in Nat, q <= p
  PROVE  b * q <= b * p
<1>1. PICK d \in Nat : p = q + d
  <2>1. p - q \in Nat /\ p = q + (p - q)
    OBVIOUS
  <2> QED
    BY <2>1
<1>2. b * p = b * q + b * d /\ b * d \in Nat /\ b * q \in Nat
  BY <1>1
<1> QED
  BY <1>2

\* Of two numbers of different quotients, the one with the greater quotient is at least
\* as much greater as the quotients' difference of one says.
LEMMA QuotientsApart ==
  ASSUME NEW r \in Nat \ {0}, NEW p \in Nat, NEW q \in Nat, p < q
  PROVE  r * p \in Nat /\ r * q \in Nat /\ r * p + r <= r * q
<1>1. r * (p + 1) <= r * q
  BY TimesMonotone
<1>2. r * (p + 1) = r * p + r /\ r * p \in Nat /\ r * q \in Nat
  OBVIOUS
<1> QED
  BY <1>1, <1>2

\* Numbers with the same remainder are a multiple of the divisor apart.
LEMMA SameRemainder ==
  ASSUME NEW r \in Nat \ {0}, NEW i \in Nat, NEW j \in Nat, i < j, i % r = j % r
  PROVE  i + r <= j
<1> DEFINE a == i \div r
           b == j \div r
           m == i % r
           x == r * a
           y == r * b
<1>1. a \in Nat /\ b \in Nat /\ m \in Nat /\ x \in Nat /\ y \in Nat /\ i = x + m /\ j = y + m
  <2>1. a \in Nat /\ m \in Nat /\ i = x + m
    OBVIOUS
  <2>2. b \in Nat /\ j = y + (j % r)
    OBVIOUS
  <2>4. x \in Nat /\ y \in Nat
    BY <2>1, <2>2
  <2>3. j % r = m
    OBVIOUS
  <2> HIDE DEF a, b, m, x, y
  <2> QED
    BY <2>1, <2>2, <2>3, <2>4
<1> HIDE DEF a, b, m
<1>2. b <= a => y <= x
  BY <1>1, TimesMonotone
<1>3. a < b => x + r <= y
  BY <1>1, QuotientsApart
<1> HIDE DEF x, y
<1> QED
  BY <1>1, <1>2, <1>3

\* A product of a sum of three, which the SMT backend does not expand by itself.
LEMMA Distributes ==
  ASSUME NEW r \in Nat, NEW p \in Nat, NEW k \in Nat
  PROVE  r * (p + (k + 1)) = r * p + r * k + r /\ r * k \in Nat
  OBVIOUS

\* A multiple divides without remainder.
LEMMA MultipleDivides ==
  ASSUME NEW r \in Nat \ {0}, NEW p \in Nat
  PROVE  (r * p) \div r = p /\ (r * p) % r = 0
<1> DEFINE x == r * p
           q == x \div r
           m == x % r
<1>1. x \in Nat
  OBVIOUS
<1>2. q \in Nat /\ m \in 0 .. r - 1 /\ x = r * q + m
  <2> HIDE DEF x
  <2> QED
    BY <1>1
<1>3. r * q \in Nat
  BY <1>2
<1>4. x = r * p
  OBVIOUS
<1> HIDE DEF x, q, m
<1>5. ~ (p < q)
  <2>1. p < q => r * p + r <= r * q
    BY <1>2, QuotientsApart
  <2> DEFINE y == r * q
  <2>2. y \in Nat /\ x = y + m /\ (p < q => x + r <= y)
    BY <1>2, <1>3, <1>4, <2>1
  <2> HIDE DEF y
  <2> QED
    BY <1>1, <1>2, <2>2
<1>6. ~ (q < p)
  <2>1. q < p => r * q + r <= r * p
    BY <1>2, QuotientsApart
  <2> DEFINE y == r * q
  <2>2. y \in Nat /\ x = y + m /\ (q < p => y + r <= x)
    BY <1>2, <1>3, <1>4, <2>1
  <2> HIDE DEF y
  <2> QED
    BY <1>1, <1>2, <2>2
<1>7. q = p
  BY <1>2, <1>5, <1>6
<1>8. m = 0
  <2> DEFINE y == r * p
  <2>1. y \in Nat /\ x = y /\ x = y + m
    BY <1>2, <1>4, <1>7
  <2> HIDE DEF y
  <2> QED
    BY <1>2, <2>1
<1> QED
  BY <1>7, <1>8 DEF x, q, m

\* The period of an instant, and its slot.
LEMMA Periods ==
  ASSUME NEW t \in Nat
  PROVE  /\ Truncate(t) \in Nat /\ Truncate(t) <= t /\ t < Truncate(t) + Resolution
         /\ Truncate(t) = Resolution * (t \div Resolution) /\ t \div Resolution \in Nat
         /\ Truncate(Truncate(t)) = Truncate(t)
         /\ SlotOf(Truncate(t)) = SlotOf(t)
         /\ SlotOf(t) \in SlotIdx
<1> DEFINE r == Resolution
           p == t \div r
<1>1. r \in Nat \ {0} /\ p \in Nat
  BY GuardAssumption
<1>2. t = r * p + (t % r) /\ t % r \in 0 .. r - 1
  BY <1>1
<1>3. r * p \in Nat
  BY <1>1
<1>4. Truncate(t) = r * p
  BY <1>2, <1>3 DEF Truncate
<1>5. (r * p) \div r = p /\ (r * p) % r = 0
  BY <1>1, MultipleDivides
<1>6. Truncate(r * p) = r * p
  BY <1>3, <1>5 DEF Truncate
<1>7. SlotOf(Truncate(t)) = SlotOf(t)
  BY <1>4, <1>5 DEF SlotOf
<1>8. NumSlots \in Nat \ {0}
  BY NumSlotsPositive
<1>9. SlotOf(t) \in SlotIdx
  BY <1>1, <1>8 DEF SlotOf, SlotIdx
<1> HIDE DEF p
<1> QED
  BY <1>2, <1>3, <1>4, <1>6, <1>7, <1>9, <1>1 DEF p

\* The ring is long enough: of two instants of different periods whose slot is the same,
\* the later one's period begins more than the window after the earlier one, and more
\* than MaxSkew after it has ended.
LEMMA ARingApart ==
  ASSUME SkewWithinWindow,
         NEW t \in Nat, NEW u \in Nat, SlotOf(t) = SlotOf(u), Truncate(t) < Truncate(u)
  PROVE  Truncate(t) + Window < Truncate(u) /\ t + MaxSkew < Truncate(u)
<1> DEFINE r == Resolution
           n == NumSlots
           p == t \div r
           q == u \div r
           k == Window \div r
<1>1. r \in Nat \ {0} /\ n \in Nat \ {0} /\ p \in Nat /\ q \in Nat /\ k \in Nat /\ n = k + 1
  BY GuardAssumption, NumSlotsPositive DEF NumSlots
<1>2. Truncate(t) = r * p /\ Truncate(u) = r * q /\ t < r * p + r /\ r * p \in Nat /\ r * q \in Nat
  BY <1>1, Periods
<1>3. p % n = q % n
  BY DEF SlotOf
<1>4. p < q
  <2>1. q <= p => r * q <= r * p
    BY <1>1, TimesMonotone
  <2> HIDE DEF p, q
  <2> QED
    BY <1>1, <1>2, <2>1
<1>5. p + n <= q
  <2> HIDE DEF p, q, n
  <2> QED
    BY <1>1, <1>3, <1>4, SameRemainder
<1>6. r * (p + n) <= r * q
  BY <1>1, <1>5, TimesMonotone
<1>7. r * (p + n) = r * p + r * k + r /\ r * k \in Nat
  <2> HIDE DEF r, p, k, n
  <2> QED
    BY <1>1, Distributes
<1>8. Window = r * k + (Window % r) /\ Window % r \in 0 .. r - 1
  BY <1>1, GuardAssumption
<1>9. MaxSkew \in Nat /\ MaxSkew <= r * k
  <2> DEFINE x == r * k
             w == Window % r
  <2>1. Window = x + w /\ x \in Nat /\ w \in Nat /\ MaxSkew \in 0 .. Window - w
    BY <1>7, <1>8, GuardAssumption DEF SkewWithinWindow
  <2> HIDE DEF w
  <2>2. MaxSkew \in Nat /\ MaxSkew <= x
    <3> HIDE DEF x
    <3> QED
      BY <2>1
  <2> QED
    BY <2>2
<1> DEFINE x == r * p
           y == r * q
           z == r * k
           w == Window % r
<1>10. /\ x \in Nat /\ y \in Nat /\ z \in Nat /\ w \in 0 .. r - 1 /\ Window = z + w
       /\ MaxSkew \in Nat /\ MaxSkew <= z /\ x + z + r <= y
       /\ Truncate(t) = x /\ Truncate(u) = y /\ t < x + r
  BY <1>2, <1>6, <1>7, <1>8, <1>9
<1> HIDE DEF x, y, z, w
<1> QED
  BY <1>1, <1>10

-----------------------------------------------------------------------------
(* The inductive invariant. *)

\* A slot is as the ring was made, or holds a period of its own that has begun.
SlotOK(i) ==
  \/ slots[i] = EmptySlot
  \/ /\ SlotOf(slots[i].at) = i /\ Truncate(slots[i].at) = slots[i].at
     /\ slots[i].at <= newest

\* What the ring counts from some instant on was observed, and all that was observed is
\* counted.
Real(now) ==
  /\ TotalIn(slots, now) <= TrulyTotal(now - Window)
  /\ FailedIn(slots, now) <= TrulyFailed(now - Window)
Exact(now) ==
  /\ TotalIn(slots, now) = TrulyTotal(now - Window)
  /\ FailedIn(slots, now) = TrulyFailed(now - Window)

\* However late the calls come.
RealInv ==
  /\ GuardTypeOK
  /\ \A now \in Int : Real(now)
  /\ TripIsEarned

\* If they come within MaxSkew.
ExactInv ==
  /\ GuardTypeOK
  /\ \A i \in SlotIdx : SlotOK(i)
  /\ \A now \in Int : now >= newest => Exact(now)

\* One more outcome is filed in slot i and observed at an instant, which adds d to what
\* f, g (by slot) and a, b (by instant) count before and after.
OneAdded(ring, next, i, f, g, at, a, b, d) ==
  /\ ring \in [SlotIdx -> [at : Nat, total : Nat, failed : Nat]]
  /\ next \in [SlotIdx -> [at : Nat, total : Nat, failed : Nat]]
  /\ f \in [SlotIdx -> Nat] /\ g \in [SlotIdx -> Nat]
  /\ a \in [Times -> Nat] /\ b \in [Times -> Nat]
  /\ i \in SlotIdx /\ at \in Times /\ d \in Nat
  /\ \A j \in SlotIdx \ {i} : next[j] = ring[j] /\ g[j] = f[j]
  /\ \A t \in Times \ {at} : b[t] = a[t]
  /\ next[i].at = Truncate(at) /\ b[at] = a[at] + d
  /\ g[i] = (IF ring[i].at = Truncate(at) THEN f[i] ELSE 0) + d

\* The sum over what the ring counts and the sum over what was observed then grow alike,
\* but for what the slot held of a period that was still counted.
LEMMA OneMore ==
  ASSUME NEW ring, NEW next, NEW i, NEW f, NEW g, NEW at, NEW a, NEW b, NEW d,
         OneAdded(ring, next, i, f, g, at, a, b, d), NEW now \in Int
  PROVE  LET held  == SumFunctionOnSet(f, Counted(ring, now))
             holds == SumFunctionOnSet(g, Counted(next, now))
             was   == SumFunctionOnSet(a, Since(now - Window))
             is    == SumFunctionOnSet(b, Since(now - Window))
         IN  /\ held <= was => holds <= is
             /\ held = was /\ (\/ ring[i].at = Truncate(at) \/ f[i] = 0
                               \/ ring[i].at < now - Window) => holds = is
<1> USE DEF OneAdded
<1> DEFINE C == Counted(ring, now)
           D == Counted(next, now)
           S == Since(now - Window)
           held  == SumFunctionOnSet(f, C)
           holds == SumFunctionOnSet(g, D)
           was   == SumFunctionOnSet(a, S)
           is    == SumFunctionOnSet(b, S)
           out == IF i \in C THEN f[i] ELSE 0
           in  == IF i \in D THEN g[i] ELSE 0
<1>1. Window \in Nat /\ Truncate(at) \in Nat /\ at \in Nat
  BY GuardAssumption, Periods DEF Times
<1>2. IsFiniteSet(C) /\ IsFiniteSet(D) /\ IsFiniteSet(S)
  <2>1. IsFiniteSet(SlotIdx) /\ IsFiniteSet(Times)
    <3>1. \A x, y \in Int : IsFiniteSet(x .. y)
      BY FS_Interval
    <3>2. NumSlots - 1 \in Int /\ MaxTime \in Int
      BY NumSlotsPositive, GuardAssumption
    <3> QED
      BY <3>1, <3>2 DEF SlotIdx, Times
  <2> QED
    BY <2>1, FS_Subset DEF Counted, Since
<1>3. C \subseteq SlotIdx /\ D \subseteq SlotIdx /\ S \subseteq Times /\ C \ {i} = D \ {i}
  BY DEF Counted, Since
<1>4. held \in Nat /\ holds \in Nat /\ was \in Nat /\ is \in Nat
  BY <1>2, <1>3, SumIsNat
<1>5. held - out = holds - in
  <2>1. (\A x \in C : f[x] \in Nat) /\ (\A x \in D : g[x] \in Nat)
        /\ (\A x \in C \ {i} : f[x] = g[x])
    BY <1>3
  <2>2. /\ SumFunctionOnSet(f, C \ {i}) \in Nat /\ held = SumFunctionOnSet(f, C \ {i}) + out
        /\ SumFunctionOnSet(g, D \ {i}) \in Nat /\ holds = SumFunctionOnSet(g, D \ {i}) + in
    <3> HIDE DEF C, D
    <3> QED
      BY <1>2, <2>1, SumWithout
  <2>3. SumFunctionOnSet(f, C \ {i}) = SumFunctionOnSet(g, D \ {i})
    <3> HIDE DEF C, D
    <3>1. IsFiniteSet(C \ {i})
      BY <1>2, FS_Subset
    <3>2. SumFunctionOnSet(f, C \ {i}) = SumFunctionOnSet(g, C \ {i})
      BY <2>1, <3>1, SumSame
    <3> QED
      BY <1>3, <3>2
  <2>4. out \in Nat /\ in \in Nat
    OBVIOUS
  <2> DEFINE u == SumFunctionOnSet(f, C \ {i})
             v == SumFunctionOnSet(g, D \ {i})
  <2>5. u \in Nat /\ v = u /\ held = u + out /\ holds = v + in
    BY <2>2, <2>3
  <2> HIDE DEF C, D, held, holds, in, out, u, v
  <2> QED
    BY <2>4, <2>5
<1> DEFINE gone == IF at \in S THEN a[at] ELSE 0
           come == IF at \in S THEN b[at] ELSE 0
<1>6. was - gone = is - come
  <2>1. (\A x \in S : a[x] \in Nat) /\ (\A x \in S : b[x] \in Nat)
        /\ (\A x \in S \ {at} : a[x] = b[x])
    BY <1>3
  <2>2. /\ SumFunctionOnSet(a, S \ {at}) \in Nat /\ was = SumFunctionOnSet(a, S \ {at}) + gone
        /\ SumFunctionOnSet(b, S \ {at}) \in Nat /\ is = SumFunctionOnSet(b, S \ {at}) + come
    <3> HIDE DEF S
    <3> QED
      BY <1>2, <2>1, SumWithout
  <2>3. SumFunctionOnSet(a, S \ {at}) = SumFunctionOnSet(b, S \ {at})
    <3> HIDE DEF S
    <3>1. IsFiniteSet(S \ {at})
      BY <1>2, FS_Subset
    <3> QED
      BY <2>1, <3>1, SumSame
  <2>4. gone \in Nat /\ come \in Nat
    OBVIOUS
  <2> DEFINE u == SumFunctionOnSet(a, S \ {at})
             v == SumFunctionOnSet(b, S \ {at})
  <2>5. u \in Nat /\ v = u /\ was = u + gone /\ is = v + come
    BY <2>2, <2>3
  <2> HIDE DEF S, was, is, gone, come, u, v
  <2> QED
    BY <2>4, <2>5
<1>7. is = was + (IF at \in S THEN d ELSE 0)
  <2>1. gone \in Nat /\ come = gone + (IF at \in S THEN d ELSE 0)
    OBVIOUS
  <2>2. (IF at \in S THEN d ELSE 0) \in Nat
    OBVIOUS
  <2> HIDE DEF is, was, S, gone, come
  <2> QED
    BY <1>4, <1>6, <2>1, <2>2
<1>8. at \in S <=> i \in D
  BY <1>1 DEF Since, Counted
<1>9. f[i] \in Nat /\ out \in Nat /\ in \in Nat
  OBVIOUS
<1>10. holds = held + in - out
  <2> HIDE DEF in, out, held, holds
  <2> QED
    BY <1>4, <1>5, <1>9
<1>11. CASE ring[i].at = Truncate(at)
  <2>1. i \in C <=> i \in D
    BY <1>11 DEF Counted
  <2>2. in - out = IF i \in D THEN d ELSE 0
    BY <1>9, <1>11, <2>1
  <2> HIDE DEF in, out, held, holds, is, was, S, D
  <2> QED
    BY <1>4, <1>7, <1>8, <1>9, <1>10, <2>2 DEF held, holds, is, was, S, D, C
<1>12. CASE ring[i].at # Truncate(at)
  <2>1. in = IF i \in D THEN d ELSE 0
    BY <1>12
  <2>2. f[i] = 0 \/ ring[i].at < now - Window => out = 0
    <3>1. ring[i].at \in Nat /\ now - Window \in Int
      BY <1>1
    <3>2. i \in C => ring[i].at >= now - Window
      BY DEF Counted
    <3> QED
      BY <3>1, <3>2
  <2> QED
    BY <1>4, <1>7, <1>8, <1>9, <1>10, <1>12, <2>1, <2>2
<1> QED
  BY <1>11, <1>12

\* What Filed does to a slot (AbortGuard.Observe).
LEMMA FiledSlot ==
  ASSUME GuardTypeOK, NEW at \in Times, NEW bad \in BOOLEAN
  PROVE  LET ring == Filed(bad, at)
             i == SlotOf(at)
             old == slots[i]
             same == old.at = Truncate(at)
         IN  /\ i \in SlotIdx
             /\ ring \in [SlotIdx -> [at : Nat, total : Nat, failed : Nat]]
             /\ \A j \in SlotIdx \ {i} : ring[j] = slots[j]
             /\ ring[i].at = Truncate(at)
             /\ ring[i].total = (IF same THEN old.total ELSE 0) + 1
             /\ ring[i].failed = (IF same THEN old.failed ELSE 0) + (IF bad THEN 1 ELSE 0)
<1> DEFINE i == SlotOf(at)
           old == slots[i]
           same == old.at = Truncate(at)
           held == IF same THEN old ELSE [EmptySlot EXCEPT !.at = Truncate(at)]
           new == [held EXCEPT !.total = @ + 1, !.failed = @ + (IF bad THEN 1 ELSE 0)]
<1>1. at \in Nat /\ Truncate(at) \in Nat /\ i \in SlotIdx
  BY GuardAssumption, Periods DEF Times
<1>2. old \in [at : Nat, total : Nat, failed : Nat]
  BY <1>1 DEF GuardTypeOK
<1>3. /\ held \in [at : Nat, total : Nat, failed : Nat]
      /\ held.at = Truncate(at)
      /\ held.total = IF same THEN old.total ELSE 0
      /\ held.failed = IF same THEN old.failed ELSE 0
  <2>1. CASE same
    BY <1>2, <2>1
  <2>2. CASE ~same
    <3>1. held = [at |-> Truncate(at), total |-> 0, failed |-> 0]
      BY <2>2 DEF EmptySlot
    <3> QED
      BY <1>1, <2>2, <3>1
  <2> QED
    BY <2>1, <2>2
<1> HIDE DEF held
<1>4. held.total + 1 \in Nat /\ held.failed + (IF bad THEN 1 ELSE 0) \in Nat
  BY <1>3
<1>5. new = [at |-> held.at, total |-> held.total + 1,
             failed |-> held.failed + (IF bad THEN 1 ELSE 0)]
  <2>1. PICK p \in Nat, q \in Nat, r \in Nat : held = [at |-> p, total |-> q, failed |-> r]
    BY <1>3
  <2>2. held.at = p /\ held.total = q /\ held.failed = r
    BY <2>1
  <2>3. new = [at |-> p, total |-> q + 1, failed |-> r + (IF bad THEN 1 ELSE 0)]
    <3> DEFINE x == held.total + 1
               y == held.failed + (IF bad THEN 1 ELSE 0)
    <3>1. x = q + 1 /\ y = r + (IF bad THEN 1 ELSE 0)
      BY <2>2
    <3>2. new = [held EXCEPT !.total = x, !.failed = y]
      OBVIOUS
    <3> HIDE DEF x, y, new
    <3>3. [held EXCEPT !.total = x] = [at |-> p, total |-> x, failed |-> r]
      BY <2>1
    <3>4. [held EXCEPT !.total = x, !.failed = y] = [[held EXCEPT !.total = x] EXCEPT !.failed = y]
      BY <2>1, Zenon
    <3>5. [[at |-> p, total |-> x, failed |-> r] EXCEPT !.failed = y]
            = [at |-> p, total |-> x, failed |-> y]
      OBVIOUS
    <3> QED
      BY <3>1, <3>2, <3>3, <3>4, <3>5
  <2> QED
    BY <2>2, <2>3
<1>6. new \in [at : Nat, total : Nat, failed : Nat]
  BY <1>3, <1>4, <1>5
<1>7. /\ new.at = held.at /\ new.total = held.total + 1
      /\ new.failed = held.failed + (IF bad THEN 1 ELSE 0)
  BY <1>5
<1>8. Filed(bad, at) = [slots EXCEPT ![i] = new]
  BY DEF Filed, held
<1> HIDE DEF new, i
<1>9. slots \in [SlotIdx -> [at : Nat, total : Nat, failed : Nat]]
  BY DEF GuardTypeOK
<1>10. /\ Filed(bad, at) \in [SlotIdx -> [at : Nat, total : Nat, failed : Nat]]
       /\ Filed(bad, at)[i] = new
       /\ \A j \in SlotIdx \ {i} : Filed(bad, at)[j] = slots[j]
  BY <1>1, <1>6, <1>8, <1>9
<1> QED
  BY <1>1, <1>3, <1>7, <1>10 DEF i

\* A slot that is taken over holds nothing the guard still counts: what it held began
\* before the window of every instant not before the latest one.
LEMMA TakenOverIsOld ==
  ASSUME SkewWithinWindow,
         GuardTypeOK, NEW at \in Times, at >= newest - MaxSkew, SlotOK(SlotOf(at)),
         slots[SlotOf(at)].at # Truncate(at), slots[SlotOf(at)] # EmptySlot
  PROVE  slots[SlotOf(at)].at < at - Window
<1> DEFINE i == SlotOf(at)
           s == slots[i].at
<1>1. at \in Nat /\ newest \in Nat /\ MaxSkew \in Nat /\ Window \in Nat
  BY GuardAssumption DEF GuardTypeOK, Times
<1>2. i \in SlotIdx /\ Truncate(at) \in Nat /\ Truncate(at) <= at
  BY <1>1, Periods
<1>3. s \in Nat /\ SlotOf(s) = i /\ Truncate(s) = s /\ s <= newest /\ s # Truncate(at)
  BY <1>2 DEF SlotOK, GuardTypeOK
<1>4. ~ (Truncate(at) < Truncate(s))
  <2>1. Truncate(at) < Truncate(s) => at + MaxSkew < Truncate(s)
    BY <1>1, <1>3, ARingApart
  <2> HIDE DEF s, i
  <2> QED
    BY <1>1, <1>3, <2>1
<1>5. Truncate(s) < Truncate(at) => Truncate(s) + Window < Truncate(at)
  BY <1>1, <1>3, ARingApart
<1> HIDE DEF s
<1>6. s < at - Window
  BY <1>1, <1>2, <1>3, <1>4, <1>5
<1> QED
  BY <1>6 DEF s, i

\* The sums of a ring are naturals.
LEMMA CountsAreNat ==
  ASSUME NEW ring \in [SlotIdx -> [at : Nat, total : Nat, failed : Nat]], NEW now \in Int
  PROVE  TotalIn(ring, now) \in Nat /\ FailedIn(ring, now) \in Nat
<1> DEFINE C == Counted(ring, now)
           f == [i \in SlotIdx |-> ring[i].total]
           g == [i \in SlotIdx |-> ring[i].failed]
<1>1. IsFiniteSet(C)
  <2>1. \A x, y \in Int : IsFiniteSet(x .. y)
    BY FS_Interval
  <2>2. IsFiniteSet(SlotIdx)
    BY <2>1, NumSlotsPositive DEF SlotIdx
  <2> QED
    BY <2>2, FS_Subset DEF Counted
<1>2. \A x \in C : f[x] \in Nat /\ g[x] \in Nat
  BY DEF Counted
<1>3. TotalIn(ring, now) = SumFunctionOnSet(f, C) /\ FailedIn(ring, now) = SumFunctionOnSet(g, C)
  BY DEF TotalIn, FailedIn
<1> HIDE DEF C, f, g
<1>4. SumFunctionOnSet(f, C) \in Nat
  BY <1>1, <1>2, SumIsNat
<1>5. SumFunctionOnSet(g, C) \in Nat
  BY <1>1, <1>2, SumIsNat
<1> QED
  BY <1>3, <1>4, <1>5

\* What Observe writes down of an outcome.
LEMMA ObservedCounts ==
  ASSUME GuardTypeOK, NEW at \in Times, NEW bad \in BOOLEAN, Observe(bad, at)
  PROVE  /\ observed' \in [Times -> [ok : Nat, failed : Nat]]
         /\ \A t \in Times \ {at} : observed'[t] = observed[t]
         /\ observed'[at].failed = observed[at].failed + (IF bad THEN 1 ELSE 0)
         /\ observed'[at].ok = observed[at].ok + (IF bad THEN 0 ELSE 1)
<1>1. observed \in [Times -> [ok : Nat, failed : Nat]]
  BY DEF GuardTypeOK
<1>2. PICK p \in Nat, q \in Nat : observed[at] = [ok |-> p, failed |-> q]
  BY <1>1
<1>3. observed[at].ok = p /\ observed[at].failed = q
  BY <1>2
<1>4. CASE bad
  <2> DEFINE new == [ok |-> p, failed |-> q + 1]
  <2>1. [observed[at] EXCEPT !.failed = @ + 1] = new
    BY <1>2
  <2>2. observed' = [observed EXCEPT ![at] = new]
    BY <1>4, <2>1 DEF Observe
  <2>3. new \in [ok : Nat, failed : Nat] /\ new.ok = p /\ new.failed = q + 1
    OBVIOUS
  <2> HIDE DEF new
  <2>4. observed' \in [Times -> [ok : Nat, failed : Nat]] /\ observed'[at] = new
        /\ \A t \in Times \ {at} : observed'[t] = observed[t]
    BY <1>1, <2>2, <2>3
  <2> QED
    BY <1>3, <1>4, <2>3, <2>4
<1>5. CASE ~bad
  <2> DEFINE new == [ok |-> p + 1, failed |-> q]
  <2>1. [observed[at] EXCEPT !.ok = @ + 1] = new
    BY <1>2
  <2>2. observed' = [observed EXCEPT ![at] = new]
    BY <1>5, <2>1 DEF Observe
  <2>3. new \in [ok : Nat, failed : Nat] /\ new.ok = p + 1 /\ new.failed = q
    OBVIOUS
  <2> HIDE DEF new
  <2>4. observed' \in [Times -> [ok : Nat, failed : Nat]] /\ observed'[at] = new
        /\ \A t \in Times \ {at} : observed'[t] = observed[t]
    BY <1>1, <2>2, <2>3
  <2> QED
    BY <1>3, <1>5, <2>3, <2>4
<1> QED
  BY <1>4, <1>5

\* An outcome is added to the ring's sums where it is added to what was observed, but for
\* what is lost when a slot is taken over.
LEMMA ObserveAdds ==
  ASSUME GuardTypeOK, NEW at \in Times, NEW bad \in BOOLEAN, Observe(bad, at), NEW now \in Int
  PROVE  /\ Real(now) => Real(now)'
         /\ LET old == slots[SlotOf(at)]
            IN  Exact(now) /\ (\/ old.at = Truncate(at) \/ old = EmptySlot
                               \/ old.at < now - Window) => Exact(now)'
<1> DEFINE i == SlotOf(at)
           old == slots[i]
           same == old.at = Truncate(at)
           one == IF bad THEN 1 ELSE 0
           f1 == [j \in SlotIdx |-> slots[j].total]
           g1 == [j \in SlotIdx |-> slots'[j].total]
           a1 == [t \in Times |-> observed[t].ok + observed[t].failed]
           b1 == [t \in Times |-> observed'[t].ok + observed'[t].failed]
           f2 == [j \in SlotIdx |-> slots[j].failed]
           g2 == [j \in SlotIdx |-> slots'[j].failed]
           a2 == [t \in Times |-> observed[t].failed]
           b2 == [t \in Times |-> observed'[t].failed]
           Held(f) == SumFunctionOnSet(f, Counted(slots, now))
           Holds(g) == SumFunctionOnSet(g, Counted(slots', now))
           Seen(a) == SumFunctionOnSet(a, Since(now - Window))
<1>1. /\ i \in SlotIdx /\ slots' \in [SlotIdx -> [at : Nat, total : Nat, failed : Nat]]
      /\ \A j \in SlotIdx \ {i} : slots'[j] = slots[j]
      /\ slots'[i].at = Truncate(at)
      /\ slots'[i].total = (IF same THEN old.total ELSE 0) + 1
      /\ slots'[i].failed = (IF same THEN old.failed ELSE 0) + one
  <2>1. slots' = Filed(bad, at)
    BY DEF Observe
  <2> QED
    BY <2>1, FiledSlot
<1>2. /\ slots \in [SlotIdx -> [at : Nat, total : Nat, failed : Nat]]
      /\ observed \in [Times -> [ok : Nat, failed : Nat]]
  BY DEF GuardTypeOK
<1>3. /\ observed' \in [Times -> [ok : Nat, failed : Nat]]
      /\ \A t \in Times \ {at} : observed'[t] = observed[t]
      /\ observed'[at].failed = observed[at].failed + one
      /\ observed'[at].ok = observed[at].ok + (1 - one)
  BY ObservedCounts
<1>4. /\ f1 \in [SlotIdx -> Nat] /\ g1 \in [SlotIdx -> Nat]
      /\ f2 \in [SlotIdx -> Nat] /\ g2 \in [SlotIdx -> Nat]
  BY <1>1, <1>2
<1>5. /\ a1 \in [Times -> Nat] /\ b1 \in [Times -> Nat]
      /\ a2 \in [Times -> Nat] /\ b2 \in [Times -> Nat]
  BY <1>2, <1>3
<1>6. one \in Nat
  OBVIOUS
<1>7. /\ \A j \in SlotIdx \ {i} : slots'[j] = slots[j] /\ g1[j] = f1[j] /\ g2[j] = f2[j]
      /\ \A t \in Times \ {at} : b1[t] = a1[t] /\ b2[t] = a2[t]
  BY <1>1, <1>3
<1>8. b1[at] = a1[at] + 1 /\ b2[at] = a2[at] + one
  <2>1. observed[at].ok \in Nat /\ observed[at].failed \in Nat
    BY <1>2
  <2>2. (observed[at].ok + (1 - one)) + (observed[at].failed + one)
          = observed[at].ok + observed[at].failed + 1
    BY <1>6, <2>1
  <2> QED
    BY <1>3, <2>2
<1>9. /\ g1[i] = (IF old.at = Truncate(at) THEN f1[i] ELSE 0) + 1
      /\ g2[i] = (IF old.at = Truncate(at) THEN f2[i] ELSE 0) + one
  BY <1>1
<1>10. old = EmptySlot => f1[i] = 0 /\ f2[i] = 0
  BY <1>1 DEF EmptySlot
<1>11. /\ TotalIn(slots, now) = Held(f1) /\ TrulyTotal(now - Window) = Seen(a1)
       /\ FailedIn(slots, now) = Held(f2) /\ TrulyFailed(now - Window) = Seen(a2)
  BY DEF TotalIn, FailedIn, TrulyTotal, TrulyFailed
<1>12. /\ TotalIn(slots, now)' = Holds(g1) /\ TrulyTotal(now - Window)' = Seen(b1)
       /\ FailedIn(slots, now)' = Holds(g2) /\ TrulyFailed(now - Window)' = Seen(b2)
  BY DEF TotalIn, FailedIn, TrulyTotal, TrulyFailed
<1> HIDE DEF f1, g1, a1, b1, f2, g2, a2, b2, one, i
<1>13. /\ Held(f1) <= Seen(a1) => Holds(g1) <= Seen(b1)
       /\ Held(f1) = Seen(a1) /\ (old.at = Truncate(at) \/ f1[i] = 0 \/ old.at < now - Window)
            => Holds(g1) = Seen(b1)
  <2>1. OneAdded(slots, slots', i, f1, g1, at, a1, b1, 1)
    BY <1>1, <1>2, <1>4, <1>5, <1>7, <1>8, <1>9 DEF OneAdded
  <2> QED
    BY <2>1, OneMore
<1>14. /\ Held(f2) <= Seen(a2) => Holds(g2) <= Seen(b2)
       /\ Held(f2) = Seen(a2) /\ (old.at = Truncate(at) \/ f2[i] = 0 \/ old.at < now - Window)
            => Holds(g2) = Seen(b2)
  <2>1. OneAdded(slots, slots', i, f2, g2, at, a2, b2, one)
    BY <1>1, <1>2, <1>4, <1>5, <1>6, <1>7, <1>8, <1>9 DEF OneAdded
  <2> QED
    BY <2>1, OneMore
<1> QED
  BY <1>10, <1>11, <1>12, <1>13, <1>14 DEF Real, Exact, i

-----------------------------------------------------------------------------
(* The theorems. *)

\* Nothing is counted and nothing was observed.
LEMMA InitInv == GuardInit => RealInv /\ ExactInv
<1> SUFFICES ASSUME GuardInit
             PROVE  RealInv /\ ExactInv
  OBVIOUS
<1>1. GuardTypeOK
  <2>1. EmptySlot \in [at : Nat, total : Nat, failed : Nat]
    BY DEF EmptySlot
  <2>2. NoReason \in [now : Nat, total : Nat, failed : Nat]
    BY DEF NoReason
  <2>3. [ok |-> 0, failed |-> 0] \in [ok : Nat, failed : Nat]
    OBVIOUS
  <2>4. 0 \in Times
    BY GuardAssumption DEF Times
  <2> QED
    BY <2>1, <2>2, <2>3, <2>4 DEF GuardInit, GuardTypeOK
<1>2. \A i \in SlotIdx : SlotOK(i)
  BY DEF GuardInit, SlotOK
<1>3. ASSUME NEW now \in Int
      PROVE  Real(now) /\ Exact(now)
  <2> DEFINE C == Counted(slots, now)
             S == Since(now - Window)
             f1 == [j \in SlotIdx |-> slots[j].total]
             a1 == [t \in Times |-> observed[t].ok + observed[t].failed]
             f2 == [j \in SlotIdx |-> slots[j].failed]
             a2 == [t \in Times |-> observed[t].failed]
  <2>1. IsFiniteSet(C) /\ IsFiniteSet(S)
    <3>1. \A x, y \in Int : IsFiniteSet(x .. y)
      BY FS_Interval
    <3>2. NumSlots - 1 \in Int /\ MaxTime \in Int
      BY NumSlotsPositive, GuardAssumption
    <3>3. IsFiniteSet(SlotIdx) /\ IsFiniteSet(Times)
      BY <3>1, <3>2 DEF SlotIdx, Times
    <3> QED
      BY <3>3, FS_Subset DEF Counted, Since
  <2>2. /\ \A x \in C : f1[x] = 0 /\ f2[x] = 0
        /\ \A x \in S : a1[x] = 0 /\ a2[x] = 0
    BY DEF GuardInit, EmptySlot, Counted, Since
  <2>3. /\ TotalIn(slots, now) = SumFunctionOnSet(f1, C)
        /\ FailedIn(slots, now) = SumFunctionOnSet(f2, C)
        /\ TrulyTotal(now - Window) = SumFunctionOnSet(a1, S)
        /\ TrulyFailed(now - Window) = SumFunctionOnSet(a2, S)
    BY DEF TotalIn, FailedIn, TrulyTotal, TrulyFailed
  <2> HIDE DEF C, S, f1, a1, f2, a2
  <2>4. SumFunctionOnSet(f1, C) = 0 /\ SumFunctionOnSet(f2, C) = 0
    BY <2>1, <2>2, SumZero
  <2>5. SumFunctionOnSet(a1, S) = 0 /\ SumFunctionOnSet(a2, S) = 0
    BY <2>1, <2>2, SumZero
  <2> QED
    BY <2>3, <2>4, <2>5 DEF Real, Exact
<1>4. TripIsEarned
  BY DEF GuardInit, TripIsEarned
<1> QED
  BY <1>1, <1>2, <1>3, <1>4 DEF RealInv, ExactInv

\* Observe keeps the types.
LEMMA ObserveTypes ==
  ASSUME GuardTypeOK, NEW at \in Times, NEW bad \in BOOLEAN, Observe(bad, at)
  PROVE  /\ GuardTypeOK'
         /\ newest' >= at /\ newest' >= newest
         /\ slots' = Filed(bad, at)
<1>1. /\ at \in Nat /\ newest \in Nat
  BY GuardAssumption DEF GuardTypeOK, Times
<1>2. /\ slots' = Filed(bad, at)
      /\ slots' \in [SlotIdx -> [at : Nat, total : Nat, failed : Nat]]
  <2>1. slots' = Filed(bad, at)
    BY DEF Observe
  <2> QED
    BY <2>1, FiledSlot
<1>3. newest' \in Times /\ newest' >= at /\ newest' >= newest
  BY <1>1 DEF Observe, GuardTypeOK
<1>4. TotalIn(slots', at) \in Nat /\ FailedIn(slots', at) \in Nat
  BY <1>1, <1>2, CountsAreNat
<1>5. observed' \in [Times -> [ok : Nat, failed : Nat]]
  BY ObservedCounts
<1>6. tripped' \in BOOLEAN
  BY DEF Observe, Failing
<1>7. reason' \in [now : Nat, total : Nat, failed : Nat]
  BY <1>1, <1>2, <1>4 DEF Observe, NoReason
<1> QED
  BY <1>2, <1>3, <1>5, <1>6, <1>7 DEF GuardTypeOK

\* What it counts, and what it trips on, stays real.
LEMMA ObserveKeepsReal ==
  ASSUME RealInv, NEW at \in Times, NEW bad \in BOOLEAN, Observe(bad, at)
  PROVE  RealInv'
<1>1. GuardTypeOK
  BY DEF RealInv
<1>2. GuardTypeOK' /\ slots' = Filed(bad, at)
  BY <1>1, ObserveTypes
<1>3. ASSUME NEW now \in Int
      PROVE  Real(now)'
  <2>1. Real(now)
    BY DEF RealInv
  <2> QED
    BY <1>1, <2>1, ObserveAdds
<1>4. at \in Int
  BY GuardAssumption DEF Times
<1>5. TripIsEarned'
  <2> SUFFICES ASSUME tripped'
               PROVE  /\ reason'.now >= Window
                      /\ reason'.total >= MinSamples
                      /\ reason'.failed * 100 > RatioPercent * reason'.total
                      /\ reason'.total <= TrulyTotal(reason.now - Window)'
                      /\ reason'.failed <= TrulyFailed(reason.now - Window)'
    BY DEF TripIsEarned
  <2>1. Failing(slots', at)
        /\ reason' = [now |-> at, total |-> TotalIn(slots', at), failed |-> FailedIn(slots', at)]
    BY <1>2 DEF Observe
  <2>2. /\ TotalIn(slots, at)' <= TrulyTotal(at - Window)'
        /\ FailedIn(slots, at)' <= TrulyFailed(at - Window)'
    BY <1>3, <1>4 DEF Real
  <2>3. /\ TotalIn(slots, at)' = TotalIn(slots', at) /\ FailedIn(slots, at)' = FailedIn(slots', at)
        /\ TrulyTotal(reason.now - Window)' = TrulyTotal(at - Window)'
        /\ TrulyFailed(reason.now - Window)' = TrulyFailed(at - Window)'
    BY <2>1 DEF TotalIn, FailedIn, TrulyTotal, TrulyFailed, Counted
  <2> QED
    BY <2>1, <2>2, <2>3 DEF Failing
<1> QED
  BY <1>2, <1>3, <1>5 DEF RealInv

\* What it counts stays exact if the call comes within MaxSkew: the slot it takes over, if
\* it does, has left the window.
LEMMA ObserveKeepsExact ==
  ASSUME SkewWithinWindow, ExactInv, NEW at \in Times, NEW bad \in BOOLEAN,
         at >= newest - MaxSkew, Observe(bad, at)
  PROVE  ExactInv'
<1> DEFINE i == SlotOf(at)
           old == slots[i]
<1>1. GuardTypeOK /\ (\A j \in SlotIdx : SlotOK(j))
  BY DEF ExactInv
<1>2. at \in Nat /\ newest \in Nat /\ Window \in Nat
  BY <1>1, GuardAssumption DEF GuardTypeOK, Times
<1>3. /\ i \in SlotIdx /\ Truncate(at) \in Nat /\ Truncate(at) <= at
      /\ SlotOf(Truncate(at)) = i /\ Truncate(Truncate(at)) = Truncate(at)
  BY <1>2, Periods
<1>4. /\ GuardTypeOK' /\ newest' >= at /\ newest' >= newest /\ slots' = Filed(bad, at)
  BY <1>1, ObserveTypes
<1>5. newest' \in Nat
  BY <1>4, GuardAssumption DEF GuardTypeOK, Times
<1>6. slots'[i].at = Truncate(at) /\ \A j \in SlotIdx \ {i} : slots'[j] = slots[j]
  BY <1>1, <1>4, FiledSlot
<1>7. ASSUME NEW j \in SlotIdx
      PROVE  SlotOK(j)'
  <2>1. CASE j = i
    <3>1. slots'[i].at <= newest'
      BY <1>2, <1>3, <1>4, <1>5, <1>6
    <3> QED
      BY <1>3, <1>6, <2>1, <3>1 DEF SlotOK
  <2>2. CASE j # i
    <3>1. slots'[j] = slots[j] /\ SlotOK(j) /\ slots[j].at \in Nat
      BY <1>1, <1>6, <2>2 DEF GuardTypeOK
    <3>2. slots[j].at <= newest => slots[j].at <= newest'
      BY <1>2, <1>4, <1>5, <3>1
    <3> QED
      BY <3>1, <3>2 DEF SlotOK
  <2> QED
    BY <2>1, <2>2
<1>8. ASSUME NEW now \in Int, now >= newest'
      PROVE  Exact(now)'
  <2>1. now >= newest /\ now >= at
    BY <1>2, <1>4, <1>5, <1>8
  <2>2. Exact(now)
    BY <2>1 DEF ExactInv
  <2>3. old.at = Truncate(at) \/ old = EmptySlot \/ old.at < now - Window
    <3> SUFFICES ASSUME old.at # Truncate(at), old # EmptySlot
                 PROVE  old.at < now - Window
      OBVIOUS
    <3>1. old.at < at - Window
      BY <1>1, <1>3, TakenOverIsOld
    <3>2. old.at \in Nat
      BY <1>1, <1>3 DEF GuardTypeOK
    <3> HIDE DEF old
    <3> QED
      BY <1>2, <2>1, <3>1, <3>2
  <2> QED
    BY <1>1, <2>2, <2>3, ObserveAdds
<1> QED
  BY <1>4, <1>7, <1>8 DEF ExactInv

\* Nothing changes without a step.
LEMMA GuardStutters ==
  ASSUME UNCHANGED guardVars
  PROVE  (RealInv => RealInv') /\ (ExactInv => ExactInv')
BY DEF guardVars, RealInv, ExactInv, GuardTypeOK, SlotOK, Real, Exact, TripIsEarned, TotalIn,
       FailedIn, TrulyTotal, TrulyFailed, Counted

\* Every step of the guard but a stutter is an Observe of an outcome within MaxSkew.
LEMMA GuardSteps ==
  ASSUME [GuardNext]_guardVars
  PROVE  \/ UNCHANGED guardVars
         \/ \E at \in Times : \E bad \in BOOLEAN : at >= newest - MaxSkew /\ Observe(bad, at)
BY DEF GuardNext, ObserveSome, ObserveTripped, Saturated

\* What the ring counts was observed, and what the guard trips on is failing, however
\* late the workers come (Observe).
THEOREM RealInvariant == GuardSpec => []RealInv
<1>1. ASSUME RealInv, [GuardNext]_guardVars
      PROVE  RealInv'
  <2>1. ASSUME NEW at \in Times, NEW bad \in BOOLEAN, Observe(bad, at)
        PROVE  RealInv'
    BY <1>1, <2>1, ObserveKeepsReal
  <2> QED
    BY <1>1, <2>1, GuardSteps, GuardStutters
<1> QED
  BY <1>1, InitInv, PTL DEF GuardSpec

\* For every instant that is not before the latest, the ring counts exactly what was
\* observed in its window, if the workers come within MaxSkew (Observe).
THEOREM ExactInvariant == SkewWithinWindow => (GuardSpec => []ExactInv)
<1> SUFFICES ASSUME SkewWithinWindow
             PROVE  GuardSpec => []ExactInv
  OBVIOUS
<1>1. ASSUME ExactInv, [GuardNext]_guardVars
      PROVE  ExactInv'
  <2>1. ASSUME NEW at \in Times, NEW bad \in BOOLEAN, at >= newest - MaxSkew, Observe(bad, at)
        PROVE  ExactInv'
    BY <1>1, <2>1, ObserveKeepsExact
  <2> QED
    BY <1>1, <2>1, GuardSteps, GuardStutters
<1> QED
  BY <1>1, InitInv, PTL DEF GuardSpec

\* The types of the guard's state (AbortGuard, slot).
THEOREM GuardTypeCorrect == GuardSpec => []GuardTypeOK
<1>1. RealInv => GuardTypeOK
  BY DEF RealInv
<1> QED
  BY <1>1, RealInvariant, PTL

\* The guard fires only for real (evaluateLocked): for every window, resolution, ratio and
\* number of samples, and however late the workers come.
THEOREM TripIsEarnedAlways == GuardSpec => []TripIsEarned
<1>1. RealInv => TripIsEarned
  BY DEF RealInv
<1> QED
  BY <1>1, RealInvariant, PTL

\* For the latest instant the ring counts exactly what was observed in the window
\* (Observe, evaluateLocked), if no worker comes later than the window allows.
THEOREM RingIsExactAlways == SkewWithinWindow => (GuardSpec => []RingIsExact)
<1> SUFFICES ASSUME SkewWithinWindow
             PROVE  GuardSpec => []RingIsExact
  OBVIOUS
<1>1. ASSUME ExactInv
      PROVE  RingIsExact
  <2>1. newest \in Int /\ newest >= newest
    BY <1>1, GuardAssumption DEF ExactInv, GuardTypeOK, Times
  <2>2. Exact(newest)
    BY <1>1, <2>1 DEF ExactInv
  <2> QED
    BY <2>2 DEF Exact, RingIsExact
<1> QED
  BY <1>1, ExactInvariant, PTL

\* Whenever the run moves on to a new instant, the guard fires if and only if what was
\* observed over the window is failing (evaluateLocked), under the same condition.
THEOREM TripsExactlyAlways == SkewWithinWindow => (GuardSpec => TripsExactly)
<1> SUFFICES ASSUME SkewWithinWindow
             PROVE  GuardSpec => TripsExactly
  OBVIOUS
<1>1. ASSUME ExactInv, ExactInv', [GuardNext]_guardVars
      PROVE  [newest' > newest => (tripped' <=> TrulyFailing')]_guardVars
  <2> SUFFICES ASSUME newest' > newest
               PROVE  tripped' <=> TrulyFailing'
    OBVIOUS
  <2>1. newest \in Int /\ newest' \in Int
    BY <1>1, GuardAssumption DEF ExactInv, GuardTypeOK, Times
  <2>2. PICK at \in Times : \E bad \in BOOLEAN : Observe(bad, at)
    BY <1>1, <2>1, GuardSteps DEF guardVars
  <2>3. newest' = at /\ (tripped' <=> Failing(slots', at))
    BY <2>1, <2>2 DEF Observe
  <2>4. Exact(newest)'
    <3>1. at \in Int /\ at >= newest'
      BY <2>1, <2>3
    <3>2. Exact(at)'
      BY <1>1, <3>1 DEF ExactInv
    <3> QED
      BY <2>3, <3>2 DEF Exact, TotalIn, FailedIn, TrulyTotal, TrulyFailed, Counted
  <2>5. /\ TotalIn(slots', at) = TrulyTotal(newest - Window)'
        /\ FailedIn(slots', at) = TrulyFailed(newest - Window)'
    BY <2>3, <2>4 DEF Exact, TotalIn, FailedIn, Counted
  <2> QED
    BY <2>3, <2>5 DEF Failing, TrulyFailing
<1> QED
  BY <1>1, ExactInvariant, PTL DEF GuardSpec, TripsExactly
=============================================================================
