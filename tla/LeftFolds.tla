------------------------------ MODULE LeftFolds ------------------------------
(***************************************************************************)
(* What FoldLeft computes, for any operator: it goes through the sequence  *)
(* one element after another, and what it has after each is the operator   *)
(* applied to what it had before and the element.  SequencesExt defines it *)
(* by a recursive function on the sets of indices; the equation of that    *)
(* function has a solution because a smallest set without one cannot be.   *)
(*                                                                         *)
(* The operator is a constant of this module, which an instance replaces   *)
(* by the operator of its fold.                                            *)
(***************************************************************************)
EXTENDS Integers, Sequences, SequencesExt, FiniteSetTheorems, WellFoundedInduction, TLAPS

CONSTANT Op(_, _)

Fold(base, seq) == FoldLeft(Op, base, seq)

\* The recursive function by which FoldLeft goes through a set of indices.
Top(s) == CHOOSE x \in s : \A y \in s : x >= y
Folds(g, base, seq, S) ==
  g = [s \in SUBSET S |-> IF s = {} THEN base ELSE Op(g[s \ {Top(s)}], seq[Top(s)])]
Folder(base, seq, S) == CHOOSE g : Folds(g, base, seq, S)

LEMMA FoldIsFolder ==
  ASSUME NEW base, NEW seq
  PROVE  Fold(base, seq) = Folder(base, seq, DOMAIN seq)[DOMAIN seq]
BY DEF Fold, FoldLeft, MapThenFoldSet, Folder, Folds, Top, Max


LEMMA SmallestOf ==
  ASSUME NEW S, IsFiniteSet(S), NEW Bad \in SUBSET SUBSET S, Bad # {}
  PROVE  \E u \in Bad : \A v \in SUBSET u : v # u => v \notin Bad
<1>1. Bad \subseteq FiniteSubsetsOf(S)
  BY FS_Subset DEF FiniteSubsetsOf
<1>2. IsWellFoundedOn(StrictSubsetOrdering(S), FiniteSubsetsOf(S))
  BY FS_StrictSubsetOrderingWellFounded
<1>3. PICK u \in Bad : \A v \in Bad : ~(<<v, u>> \in StrictSubsetOrdering(S))
  BY <1>1, <1>2, WFMin
<1>4. ASSUME NEW v \in SUBSET u, v # u
      PROVE  v \notin Bad
  BY <1>3, <1>4 DEF StrictSubsetOrdering
<1> QED
  BY <1>4

\* A set of natural numbers that is not empty has a least one.
LEMMA LeastNumber ==
  ASSUME NEW T \in SUBSET Nat, T # {}
  PROVE  \E x \in T : \A y \in T : x <= y
<1> DEFINE Below(n) == 0 .. (n - 1)
           S == {Below(n) : n \in T}
<1>1. S \subseteq FiniteSubsetsOf(Nat)
  <2>1. ASSUME NEW n \in Nat
        PROVE  Below(n) \subseteq Nat /\ IsFiniteSet(Below(n))
    BY FS_Interval
  <2> QED
    BY <2>1 DEF FiniteSubsetsOf
<1>2. PICK s \in S : \A t \in S : ~(<<t, s>> \in StrictSubsetOrdering(Nat))
  <2>1. S # {}
    OBVIOUS
  <2> HIDE DEF S
  <2>2. IsWellFoundedOn(StrictSubsetOrdering(Nat), FiniteSubsetsOf(Nat))
    BY FS_StrictSubsetOrderingWellFounded
  <2> QED
    BY <1>1, <2>1, <2>2, WFMin
<1>3. PICK x \in T : s = Below(x)
  OBVIOUS
<1>4. ASSUME NEW y \in T, y < x
      PROVE  FALSE
  <2>1. Below(y) \subseteq Below(x) /\ Below(y) # Below(x) /\ Below(x) \subseteq Nat
    <3>1. y \in Below(x) /\ y \notin Below(y)
      BY <1>4
    <3> QED
      BY <1>4, <3>1
  <2> HIDE DEF Below
  <2>2. <<Below(y), Below(x)>> \in StrictSubsetOrdering(Nat)
    BY <2>1 DEF StrictSubsetOrdering
  <2> QED
    BY <1>2, <1>3, <2>2
<1> QED
  BY <1>4

\* What holds of 0 and passes from each number
\* to the next holds up to any.
LEMMA UpTo ==
  ASSUME NEW n \in Nat, NEW Good, 0 \in Good,
         \A k \in 1..n : k - 1 \in Good => k \in Good
  PROVE  \A k \in 0..n : k \in Good
<1> DEFINE Bad == {k \in 0..n : k \notin Good}
<1>1. SUFFICES ASSUME Bad # {}
              PROVE  FALSE
  OBVIOUS
<1>2. Bad \in SUBSET Nat
  OBVIOUS
<1> HIDE DEF Bad
<1>3. PICK k \in Bad : \A j \in Bad : k <= j
  BY <1>1, <1>2, LeastNumber
<1> USE DEF Bad
<1>4. k \in 1..n /\ k - 1 \in 0..n
  OBVIOUS
<1>5. k - 1 \notin Bad
  BY <1>3, <1>4
<1> QED
  BY <1>4, <1>5

\* The greatest of a set of indices is one of them.
LEMMA TopIsIn ==
  ASSUME NEW n \in Nat, NEW s \in SUBSET (1..n), s # {}
  PROVE  Top(s) \in s /\ \A y \in s : Top(s) >= y
<1> DEFINE Bound == {b \in 0..n : \A y \in s : b >= y}
<1>1. Bound # {} /\ Bound \in SUBSET Nat
  <2>1. n \in Bound
    OBVIOUS
  <2> QED
    BY <2>1
<1>2. PICK b \in Bound : \A c \in Bound : b <= c
  <2> HIDE DEF Bound
  <2> QED
    BY <1>1, LeastNumber
<1>3. b \in s
  <2>1. ASSUME b \notin s
        PROVE  FALSE
    <3>1. \A y \in s : y \in 1..n /\ b >= y /\ b # y
      BY <2>1
    <3>2. PICK y \in s : TRUE
      OBVIOUS
    <3>3. b - 1 \in 0..n /\ \A x \in s : b - 1 >= x
      BY <3>1, <3>2
    <3>4. b <= b - 1
      BY <1>2, <3>3
    <3> QED
      BY <3>3, <3>4
  <2> QED
    BY <2>1
<1>4. \E x \in s : \A y \in s : x >= y
  BY <1>3
<1> QED
  BY <1>4 DEF Top

LEMMA IndicesAreFinite ==
  ASSUME NEW n \in Nat, NEW S \in SUBSET (1..n)
  PROVE  \A T \in SUBSET S : IsFiniteSet(T)
<1>1. \A a, b \in Int : IsFiniteSet(a .. b)
  BY FS_Interval
<1>2. IsFiniteSet(1..n)
  BY <1>1
<1> QED
  BY <1>2, FS_Subset

-----------------------------------------------------------------------------
\* The function for a set of indices and the one for a part of it agree on the part.
LEMMA FolderIsUnique ==
  ASSUME NEW n \in Nat, NEW base, NEW seq, NEW S \in SUBSET (1..n), NEW T \in SUBSET S,
         NEW g, Folds(g, base, seq, S), NEW h, Folds(h, base, seq, T)
  PROVE  g[T] = h[T]
<1> DEFINE Bad == {u \in SUBSET T : g[u] # h[u]}
<1>1. ASSUME Bad # {}
      PROVE  FALSE
  <2>1. IsFiniteSet(T)
    BY IndicesAreFinite
  <2>2. PICK u \in Bad : \A v \in SUBSET u : v # u => v \notin Bad
    <3>1. Bad \in SUBSET SUBSET T
      OBVIOUS
    <3> HIDE DEF Bad
    <3> QED
      BY <1>1, <2>1, <3>1, SmallestOf
  <2>3. u \in SUBSET T /\ u \in SUBSET S /\ u \in SUBSET (1..n)
    OBVIOUS
  <2>4. /\ g[u] = IF u = {} THEN base ELSE Op(g[u \ {Top(u)}], seq[Top(u)])
        /\ h[u] = IF u = {} THEN base ELSE Op(h[u \ {Top(u)}], seq[Top(u)])
    BY <2>3 DEF Folds
  <2>5. u # {} => Top(u) \in u
    BY <2>3, TopIsIn
  <2>6. u # {} => g[u \ {Top(u)}] = h[u \ {Top(u)}]
    BY <2>2, <2>3, <2>5
  <2> QED
    BY <2>2, <2>4, <2>6
<1> QED
  BY <1>1

\* There is such a function for every set of indices.
LEMMA FolderExists ==
  ASSUME NEW n \in Nat, NEW base, NEW seq, NEW S \in SUBSET (1..n)
  PROVE  Folds(Folder(base, seq, S), base, seq, S)
<1> DEFINE F(v) == Folder(base, seq, v)
           Bad == {u \in SUBSET S : ~ \E g : Folds(g, base, seq, u)}
<1>1. ASSUME Bad # {}
      PROVE  FALSE
  <2>1. PICK u \in Bad : \A v \in SUBSET u : v # u => v \notin Bad
    <3>1. Bad \in SUBSET SUBSET S /\ IsFiniteSet(S)
      BY IndicesAreFinite
    <3> HIDE DEF Bad
    <3> QED
      BY <1>1, <3>1, SmallestOf
  <2> DEFINE Before(v) == v \ {Top(v)}
             g == [v \in SUBSET u |-> IF v = {} THEN base
                     ELSE Op(F(Before(v))[Before(v)], seq[Top(v)])]
  <2>2. ASSUME NEW v \in SUBSET u, v # u
        PROVE  Folds(F(v), base, seq, v)
    BY <2>1, <2>2 DEF Folder
  <2>3. ASSUME NEW v \in SUBSET u, v # {}
        PROVE  Before(v) \in SUBSET v /\ Before(v) \in SUBSET u /\ Before(v) # u
    <3>1. Top(v) \in v
      BY <2>3, TopIsIn
    <3> QED
      BY <3>1
  <2>4. ASSUME NEW v \in SUBSET u, v # u
        PROVE  g[v] = F(v)[v]
    <3>1. F(v)[v] = IF v = {} THEN base ELSE Op(F(v)[Before(v)], seq[Top(v)])
      BY <2>2, <2>4 DEF Folds
    <3>2. CASE v = {}
      BY <3>1, <3>2
    <3>3. CASE v # {}
      <4> DEFINE w == Before(v)
      <4>1. w \in SUBSET v /\ w \in SUBSET u /\ w # u /\ v \in SUBSET (1..n)
        BY <2>3, <3>3
      <4>2. Folds(F(w), base, seq, w) /\ Folds(F(v), base, seq, v)
        BY <2>2, <2>4, <4>1
      <4> HIDE DEF w, F
      <4>3. F(v)[w] = F(w)[w]
        BY <4>1, <4>2, FolderIsUnique
      <4> QED
        BY <3>1, <3>3, <4>3 DEF w
    <3> QED
      BY <3>2, <3>3
  <2>5. ASSUME NEW v \in SUBSET u, v # {}
        PROVE  g[v] = Op(g[Before(v)], seq[Top(v)])
    <3>1. g[Before(v)] = F(Before(v))[Before(v)]
      BY <2>3, <2>4, <2>5
    <3> QED
      BY <2>5, <3>1
  <2>6. g[{}] = base
    OBVIOUS
  <2>7. g = [v \in SUBSET u |-> g[v]]
    OBVIOUS
  <2> HIDE DEF g
  <2>8. Folds(g, base, seq, u)
    <3>1. \A v \in SUBSET u : g[v] = IF v = {} THEN base ELSE Op(g[v \ {Top(v)}], seq[Top(v)])
      BY <2>5, <2>6
    <3> QED
      BY <2>7, <3>1 DEF Folds
  <2> QED
    BY <2>1, <2>8
<1>2. \E g : Folds(g, base, seq, S)
  BY <1>1
<1> QED
  BY <1>2 DEF Folder

\* What a fold has after each element, and before the first.
GoesThrough(acc, base, seq, n) ==
  /\ acc = [k \in 0..n |-> acc[k]]
  /\ acc[0] = base
  /\ \A k \in 1..n : acc[k] = Op(acc[k - 1], seq[k])
  /\ Fold(base, seq) = acc[n]

\* A fold is the last of what it has after each element.
THEOREM FoldGoesThrough ==
  ASSUME NEW base, NEW seq, NEW n \in Nat, DOMAIN seq = 1..n
  PROVE  \E acc : GoesThrough(acc, base, seq, n)
<1> DEFINE g == Folder(base, seq, 1..n)
           acc == [k \in 0..n |-> g[1..k]]
<1>1. Folds(g, base, seq, 1..n)
  BY FolderExists
<1> HIDE DEF g
<1>2. acc[0] = base
  <2>1. 1..0 = {}
    OBVIOUS
  <2> QED
    BY <1>1, <2>1 DEF Folds
<1>3. ASSUME NEW k \in 1..n
      PROVE  acc[k] = Op(acc[k - 1], seq[k])
  <2>1. /\ (1..k) \in SUBSET (1..n)
        /\ k \in 1..k /\ 1..k # {}
    <3>1. k \in Int /\ 1 <= k /\ k <= n
      OBVIOUS
    <3>2. \A j \in 1..k : j \in 1..n
      BY <3>1
    <3>3. k \in 1..k
      BY <3>1
    <3> QED
      BY <3>2, <3>3
  <2>2. Top(1..k) = k
    <3>1. Top(1..k) \in 1..k /\ \A y \in 1..k : Top(1..k) >= y
      BY <2>1, TopIsIn
    <3> QED
      BY <2>1, <3>1
  <2>3. (1..k) \ {k} = 1..(k - 1)
    OBVIOUS
  <2>4. g[1..k] = Op(g[1..(k - 1)], seq[k])
    BY <1>1, <2>1, <2>2, <2>3 DEF Folds
  <2> QED
    BY <2>4
<1>4. Fold(base, seq) = acc[n]
  <2>1. Fold(base, seq) = Folder(base, seq, 1..n)[1..n]
    BY FoldIsFolder
  <2> QED
    BY <2>1 DEF g
<1>5. acc = [k \in 0..n |-> acc[k]]
  OBVIOUS
<1> HIDE DEF acc
<1> QED
  BY <1>2, <1>3, <1>4, <1>5 DEF GoesThrough

=============================================================================
