--------------------------- MODULE OrderTheorems ---------------------------
(***************************************************************************)
(* Facts about order that several components need: the least element of a   *)
(* set of naturals, and what sorting and filtering by rank return.          *)
(***************************************************************************)
EXTENDS Ordering, Sequences, TLAPS, FiniteSetTheorems, WellFoundedInduction

\* Every non-empty set of naturals has a least element.  The library states it
\* for a predicate parameter, which the provers cannot instantiate; here it
\* follows from the well-founded inclusion of the intervals below the elements.
LEMMA LeastOfNaturals ==
  ASSUME NEW S \in SUBSET Nat, S # {}
  PROVE  \E m \in S : \A k \in S : m <= k
<1> DEFINE Below(n) == 0..n - 1
           T == {Below(n) : n \in S}
<1>1. \A n \in S : IsFiniteSet(Below(n)) /\ Below(n) \subseteq Nat
  BY FS_Interval
<1>2. T \subseteq FiniteSubsetsOf(Nat)
  BY <1>1 DEF FiniteSubsetsOf
<1>3. T # {}
  OBVIOUS
<1>4. IsWellFoundedOn(StrictSubsetOrdering(Nat), FiniteSubsetsOf(Nat))
  BY FS_StrictSubsetOrderingWellFounded
<1> HIDE DEF T
<1>5. PICK x \in T : \A y \in T : ~(<<y, x>> \in StrictSubsetOrdering(Nat))
  BY <1>2, <1>3, <1>4, WFMin
<1>6. PICK m \in S : x = Below(m)
  BY <1>5 DEF T
<1>7. ASSUME NEW k \in S
      PROVE  m <= k
  <2>1. Below(k) \in T
    BY DEF T
  <2>2. SUFFICES ASSUME k < m PROVE FALSE
    BY <1>7, <1>6
  <2>3. Below(k) \subseteq Below(m) /\ k \in Below(m) /\ k \notin Below(k)
    BY <2>2
  <2>4. <<Below(k), x>> \in StrictSubsetOrdering(Nat)
    BY <2>3, <1>1, <1>6 DEF StrictSubsetOrdering
  <2> QED BY <2>1, <2>4, <1>5
<1> QED BY <1>7

-----------------------------------------------------------------------------
(* Sorting.                                                                *)

\* R is a strict total order on S.
Orders(R, S) ==
  /\ \A x \in S : <<x, x>> \notin R
  /\ \A x, y \in S : x = y \/ <<x, y>> \in R \/ <<y, x>> \in R
  /\ \A x, y, z \in S : <<x, y>> \in R /\ <<y, z>> \in R => <<x, z>> \in R

\* What comes later has the higher rank.
LEMMA RankGrows ==
  ASSUME NEW S, IsFiniteSet(S), NEW R, Orders(R, S),
         NEW x \in S, NEW y \in S, <<x, y>> \in R
  PROVE  Rank(S, R, x) < Rank(S, R, y)
<1> DEFINE Before(z) == {w \in S : <<w, z>> \in R}
<1>1. Before(x) \cup {x} \subseteq Before(y) /\ x \notin Before(x)
  BY DEF Orders
<1>2. IsFiniteSet(Before(x)) /\ IsFiniteSet(Before(y))
  BY FS_Subset
<1>3. Cardinality(Before(x) \cup {x}) = Cardinality(Before(x)) + 1
  BY <1>1, <1>2, FS_AddElement
<1>4. Cardinality(Before(x) \cup {x}) <= Cardinality(Before(y))
  BY <1>1, <1>2, FS_Subset
<1>5. Cardinality(Before(x)) \in Nat /\ Cardinality(Before(y)) \in Nat
  BY <1>2, FS_CardinalityType
<1>6. Rank(S, R, x) = Cardinality(Before(x)) /\ Rank(S, R, y) = Cardinality(Before(y))
  BY DEF Rank
<1> HIDE DEF Before
<1> QED BY <1>3, <1>4, <1>5, <1>6

\* Every rank below the size of the set is the rank of one element.
LEMMA RankBijective ==
  ASSUME NEW S, IsFiniteSet(S), NEW R, Orders(R, S)
  PROVE  /\ \A x \in S : Rank(S, R, x) \in 0..Cardinality(S) - 1
         /\ \A k \in 0..Cardinality(S) - 1 : \E x \in S : Rank(S, R, x) = k
         /\ \A x, y \in S : Rank(S, R, x) = Rank(S, R, y) => x = y
<1> DEFINE n == Cardinality(S)
           I == 0..n - 1
           f == [x \in S |-> Rank(S, R, x)]
<1>1. n \in Nat
  BY FS_CardinalityType
<1>2. ASSUME NEW x \in S PROVE Rank(S, R, x) \in I
  <2> DEFINE B == {w \in S : <<w, x>> \in R}
  <2>1. B \subseteq S \ {x}
    BY DEF Orders
  <2>2. IsFiniteSet(S \ {x}) /\ Cardinality(S \ {x}) = n - 1
    BY FS_RemoveElement
  <2>3. IsFiniteSet(B) /\ Cardinality(B) <= n - 1
    <3>1. B \in SUBSET (S \ {x})
      BY <2>1
    <3> HIDE DEF B, n
    <3>2. IsFiniteSet(B) /\ Cardinality(B) <= Cardinality(S \ {x})
      BY <2>2, <3>1, FS_Subset
    <3> QED BY <2>2, <3>2
  <2>4. Cardinality(B) \in Nat
    BY <2>3, FS_CardinalityType
  <2>5. Rank(S, R, x) = Cardinality(B)
    BY DEF Rank
  <2> HIDE DEF B
  <2> QED BY <1>1, <2>3, <2>4, <2>5
<1>3. ASSUME NEW x \in S, NEW y \in S, Rank(S, R, x) = Rank(S, R, y)
      PROVE  x = y
  <2>1. SUFFICES ASSUME x # y PROVE FALSE
    OBVIOUS
  <2>2. <<x, y>> \in R \/ <<y, x>> \in R
    BY <2>1 DEF Orders
  <2>3. Rank(S, R, x) \in Nat /\ Rank(S, R, y) \in Nat
    BY <1>1, <1>2
  <2>4. Rank(S, R, x) < Rank(S, R, y) \/ Rank(S, R, y) < Rank(S, R, x)
    BY <2>2, RankGrows
  <2> QED BY <1>3, <2>3, <2>4
<1>4. IsFiniteSet(I) /\ Cardinality(I) = n
  <2>1. 0 \in Int /\ n - 1 \in Int
    BY <1>1
  <2>2. IsFiniteSet(I) /\ Cardinality(I) = IF 0 > n - 1 THEN 0 ELSE n - 1 - 0 + 1
    BY <2>1, FS_Interval
  <2> QED BY <1>1, <2>2
<1>5. f \in Injection(S, I)
  BY <1>2, <1>3 DEF Injection, IsInjective
<1>6. f \in Surjection(S, I)
  BY <1>4, <1>5, FS_Injection
<1>7. \A k \in I : \E x \in S : f[x] = k
  BY <1>6 DEF Surjection
<1> QED BY <1>2, <1>3, <1>7

\* InOrder lists every element of a finite set once, in the order given.
LEMMA InOrderOK ==
  ASSUME NEW S, IsFiniteSet(S), NEW R, Orders(R, S)
  PROVE  /\ Cardinality(S) \in Nat
         /\ InOrder(S, R) \in [1..Cardinality(S) -> S]
         /\ \A k \in 1..Cardinality(S) : Rank(S, R, InOrder(S, R)[k]) = k - 1
         /\ \A x \in S : \E k \in 1..Cardinality(S) : InOrder(S, R)[k] = x
         /\ \A i, j \in 1..Cardinality(S) :
              i < j => <<InOrder(S, R)[i], InOrder(S, R)[j]>> \in R
<1> DEFINE n == Cardinality(S)
           s == InOrder(S, R)
<1>1. n \in Nat
  BY FS_CardinalityType
<1>2. ASSUME NEW k \in 1..n
      PROVE  s[k] \in S /\ Rank(S, R, s[k]) = k - 1
  <2>1. k - 1 \in 0..n - 1
    BY <1>1
  <2>2. \E x \in S : Rank(S, R, x) = k - 1
    BY <2>1, RankBijective
  <2>3. s[k] = CHOOSE x \in S : Rank(S, R, x) = k - 1
    BY DEF InOrder
  <2> QED BY <2>2, <2>3
<1>3. s \in [1..n -> S]
  BY <1>2 DEF InOrder
<1>4. ASSUME NEW x \in S PROVE \E k \in 1..n : s[k] = x
  <2>1. Rank(S, R, x) + 1 \in 1..n
    BY <1>1, RankBijective
  <2>2. Rank(S, R, s[Rank(S, R, x) + 1]) = Rank(S, R, x)
    BY <1>1, <1>2, <2>1, RankBijective
  <2>3. s[Rank(S, R, x) + 1] = x
    BY <1>2, <2>1, <2>2, RankBijective
  <2> QED BY <2>1, <2>3
<1>5. ASSUME NEW i \in 1..n, NEW j \in 1..n, i < j
      PROVE  <<s[i], s[j]>> \in R
  <2>1. s[i] \in S /\ s[j] \in S /\ Rank(S, R, s[i]) = i - 1 /\ Rank(S, R, s[j]) = j - 1
    BY <1>2
  <2>2. s[i] # s[j]
    BY <1>1, <1>5, <2>1
  <2>3. ASSUME <<s[j], s[i]>> \in R PROVE FALSE
    <3>1. Rank(S, R, s[j]) < Rank(S, R, s[i])
      BY <2>1, <2>3, RankGrows
    <3> QED BY <1>1, <1>5, <2>1, <3>1
  <2> QED BY <2>1, <2>2, <2>3 DEF Orders
<1> QED BY <1>1, <1>2, <1>3, <1>4, <1>5

\* A sequence as it is sorted.
LEMMA InOrderSeq ==
  ASSUME NEW S, IsFiniteSet(S), NEW R
  PROVE  /\ Cardinality(S) \in Nat
         /\ DOMAIN InOrder(S, R) = 1..Cardinality(S)
BY FS_CardinalityType DEF InOrder

-----------------------------------------------------------------------------
(* Filtering.                                                              *)

LEMMA PositionsOrdered ==
  ASSUME NEW at \in SUBSET Nat
  PROVE  Orders(Ascending(at), at)
BY DEF Orders, Ascending

LEMMA Positions ==
  ASSUME NEW at \in SUBSET Nat, IsFiniteSet(at)
  PROVE  LET pos == InOrder(at, Ascending(at))
         IN  /\ Cardinality(at) \in Nat
             /\ pos \in [1..Cardinality(at) -> at]
             /\ \A i \in at : \E k \in 1..Cardinality(at) : pos[k] = i
             /\ \A k, l \in 1..Cardinality(at) : k < l => pos[k] < pos[l]
<1> DEFINE R == Ascending(at)
           pos == InOrder(at, R)
<1>1. Orders(R, at)
  BY PositionsOrdered
<1>2. \A x, y \in at : <<x, y>> \in R => x < y
  BY DEF Ascending
<1> HIDE DEF R
<1>3. /\ Cardinality(at) \in Nat /\ pos \in [1..Cardinality(at) -> at]
      /\ \A i \in at : \E k \in 1..Cardinality(at) : pos[k] = i
      /\ \A k, l \in 1..Cardinality(at) : k < l => <<pos[k], pos[l]>> \in R
  BY <1>1, InOrderOK
<1>4. \A k, l \in 1..Cardinality(at) : k < l => pos[k] < pos[l]
  BY <1>2, <1>3
<1> QED BY <1>3, <1>4 DEF R

\* Taken keeps the elements at its positions and their order.
LEMMA TakenOK ==
  ASSUME NEW T, NEW s \in Seq(T), NEW at \in SUBSET DOMAIN s
  PROVE  /\ Taken(s, at) \in Seq(T)
         /\ \A k \in DOMAIN Taken(s, at) : \E i \in at : Taken(s, at)[k] = s[i]
         /\ \A i \in at : \E k \in DOMAIN Taken(s, at) : Taken(s, at)[k] = s[i]
         /\ \A k, l \in DOMAIN Taken(s, at) : k < l =>
              \E i, j \in at : i < j /\ Taken(s, at)[k] = s[i] /\ Taken(s, at)[l] = s[j]
<1> DEFINE pos == InOrder(at, Ascending(at))
           t == Taken(s, at)
           n == Cardinality(at)
<1>1. Len(s) \in Nat /\ DOMAIN s = 1..Len(s) /\ \A i \in DOMAIN s : s[i] \in T
  OBVIOUS
<1>2. at \in SUBSET Nat /\ IsFiniteSet(at)
  <2>1. IsFiniteSet(1..Len(s))
    BY <1>1, FS_Interval
  <2> QED BY <1>1, <2>1, FS_Subset
<1>3. /\ n \in Nat /\ pos \in [1..n -> at]
      /\ \A i \in at : \E k \in 1..n : pos[k] = i
      /\ \A k, l \in 1..n : k < l => pos[k] < pos[l]
  BY <1>2, Positions
<1>4. t = [k \in 1..n |-> s[pos[k]]]
  BY <1>3 DEF Taken
<1> HIDE DEF pos, t, n
<1>5. t \in Seq(T)
  BY <1>1, <1>3, <1>4
<1>6. DOMAIN t = 1..n /\ \A k \in 1..n : t[k] = s[pos[k]] /\ pos[k] \in at
  BY <1>3, <1>4
<1>7. \A k \in DOMAIN t : \E i \in at : t[k] = s[i]
  BY <1>6
<1>8. ASSUME NEW i \in at PROVE \E k \in DOMAIN t : t[k] = s[i]
  <2>1. PICK k \in 1..n : pos[k] = i
    BY <1>3
  <2> QED BY <1>6, <2>1
<1>9. \A k, l \in DOMAIN t : k < l => \E i, j \in at : i < j /\ t[k] = s[i] /\ t[l] = s[j]
  BY <1>3, <1>6
<1> QED BY <1>5, <1>7, <1>8, <1>9 DEF t

\* Positions without a gap keep their distance.
LEMMA TakenTail ==
  ASSUME NEW T, NEW s \in Seq(T), NEW lo \in 1..Len(s) + 1
  PROVE  LET t == Taken(s, lo..Len(s))
         IN  /\ t \in Seq(T) /\ Len(t) = Len(s) + 1 - lo
             /\ \A k \in DOMAIN t : t[k] = s[lo + k - 1]
<1> DEFINE at == lo..Len(s)
           R == Ascending(at)
           pos == InOrder(at, R)
           t == Taken(s, at)
           n == Cardinality(at)
<1>1. Len(s) \in Nat /\ DOMAIN s = 1..Len(s) /\ \A i \in DOMAIN s : s[i] \in T
  OBVIOUS
<1>2. IsFiniteSet(at) /\ n = Len(s) + 1 - lo
  <2>1. lo \in Int /\ Len(s) \in Int
    BY <1>1
  <2>2. IsFiniteSet(at) /\ n = IF lo > Len(s) THEN 0 ELSE Len(s) - lo + 1
    BY <2>1, FS_Interval
  <2> QED BY <1>1, <2>2
<1>3. at \in SUBSET Nat
  BY <1>1
<1>4. pos \in [1..n -> at] /\ \A k \in 1..n : Rank(at, R, pos[k]) = k - 1
  BY <1>2, <1>3, PositionsOrdered, InOrderOK
<1>5. ASSUME NEW k \in 1..n PROVE pos[k] = lo + k - 1
  <2> DEFINE p == pos[k]
  <2>1. p \in at
    BY <1>4
  <2>2. {y \in at : <<y, p>> \in R} = lo..p - 1
    <3> HIDE DEF p
    <3>1. \A y \in at : <<y, p>> \in R <=> y < p
      BY <2>1 DEF Ascending
    <3>2. \A y : y \in at /\ y < p <=> y \in lo..p - 1
      BY <1>1, <1>3, <2>1
    <3> HIDE DEF at, R
    <3> QED BY <3>1, <3>2
  <2> HIDE DEF p
  <2>3. Cardinality(lo..p - 1) = p - lo
    <3>1. lo \in Int /\ p - 1 \in Int
      BY <1>1, <2>1
    <3>2. Cardinality(lo..p - 1) = IF lo > p - 1 THEN 0 ELSE p - 1 - lo + 1
      BY <3>1, FS_Interval
    <3> QED BY <1>1, <2>1, <3>2
  <2>4. p - lo = k - 1
    BY <1>4, <2>2, <2>3 DEF Rank, p
  <2> QED BY <1>1, <1>2, <2>1, <2>4 DEF p
<1>6. t = [k \in 1..n |-> s[pos[k]]]
  BY <1>4 DEF Taken
<1> HIDE DEF pos, t
<1>7. t \in Seq(T) /\ Len(t) = n
  BY <1>1, <1>2, <1>4, <1>6
<1> QED BY <1>2, <1>5, <1>6, <1>7 DEF t, at
=============================================================================
