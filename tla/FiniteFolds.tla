----------------------------- MODULE FiniteFolds -----------------------------
(***************************************************************************)
(* Induction over the natural numbers and over the subsets of a finite      *)
(* set, by a minimal counterexample; that a finite set can be put in order; *)
(* and what the induction shows of sums: SumFunctionOnSet is defined by a   *)
(* fold, whose table of sums over all subsets exists, so any element may be *)
(* taken out of a sum, and the sum depends on nothing but the values.       *)
(***************************************************************************)
EXTENDS Integers, FiniteSets, Functions, FiniteSetTheorems, TLAPS

\* The set of counterexamples to a claim about the subsets of a finite set has
\* a minimal element: the form of induction for claims about folds.
LEMMA LeastSubset ==
  ASSUME NEW S, IsFiniteSet(S), NEW bad, bad \subseteq SUBSET S, bad # {}
  PROVE  \E T \in bad : \A U \in SUBSET T : U # T => U \notin bad
<1>1. IsWellFoundedOn(StrictSubsetOrdering(S), SUBSET S)
  BY FS_StrictSubsetOrderingWellFounded, FS_FiniteSubsetsOfFinite
<1>2. PICK T \in bad : \A U \in bad : ~(<<U, T>> \in StrictSubsetOrdering(S))
  BY <1>1, WFMin
<1>3. ASSUME NEW U \in SUBSET T, U # T, U \in bad PROVE FALSE
  BY <1>2, <1>3 DEF StrictSubsetOrdering
<1> QED
  BY <1>3

LEMMA LeastNatural ==
  ASSUME NEW numbers, numbers \subseteq Nat, numbers # {}
  PROVE  \E n \in numbers : \A m \in numbers : n <= m
<1>1. PICK n \in numbers : \A m \in numbers : ~(<<m, n>> \in OpToRel(<, Nat))
  BY NatLessThanWellFounded, WFMin
<1>2. ASSUME NEW a \in Nat, NEW b \in Nat, a < b
      PROVE  <<a, b>> \in OpToRel(<, Nat)
  BY <1>2 DEF OpToRel
<1>3. ASSUME NEW m \in numbers PROVE n <= m
  <2>1. ~(m < n)
    BY <1>1, <1>2
  <2> QED
    BY <2>1
<1> QED
  BY <1>3

-----------------------------------------------------------------------------
(* Orders: a relation R is the set of the pairs that it holds of.          *)

StrictTotal(R, S) ==
  \A x, y \in S :
    /\ <<x, x>> \notin R
    /\ x = y \/ <<x, y>> \in R \/ <<y, x>> \in R
    /\ \A z \in S : <<x, y>> \in R /\ <<y, z>> \in R => <<x, z>> \in R

IsOrderOf(order, S, R) ==
  /\ order \in [1..Cardinality(S) -> S]
  /\ \A i, j \in DOMAIN order : i < j => <<order[i], order[j]>> \in R

\* The elements up to and including x.
UpTo(x, S, R) == {y \in S : y = x \/ <<y, x>> \in R}

Place(x, S, R) == Cardinality(UpTo(x, S, R))

LEMMA PlaceInRange ==
  ASSUME NEW S, IsFiniteSet(S), NEW R, NEW x \in S
  PROVE  Place(x, S, R) \in 1..Cardinality(S) /\ IsFiniteSet(UpTo(x, S, R))
<1> DEFINE mine == UpTo(x, S, R)
<1>1. mine \in SUBSET S /\ x \in mine
  BY DEF UpTo
<1> HIDE DEF mine
<1>2. IsFiniteSet(mine) /\ Cardinality(mine) <= Cardinality(S) /\ Cardinality(S) \in Nat
  BY <1>1, FS_Subset, FS_CardinalityType
<1>3. Cardinality(mine) \in Nat /\ Cardinality(mine) # 0
  <2>1. Cardinality(mine) \in Nat
    BY <1>2, FS_CardinalityType
  <2>2. Cardinality(mine) = 0 <=> mine = {}
    BY <1>2, FS_EmptySet
  <2> QED
    BY <1>1, <2>1, <2>2
<1> QED
  BY <1>2, <1>3 DEF Place, mine

LEMMA PlacesIncrease ==
  ASSUME NEW S, IsFiniteSet(S), NEW R, StrictTotal(R, S),
         NEW x \in S, NEW y \in S, <<x, y>> \in R
  PROVE  Place(x, S, R) < Place(y, S, R)
<1> DEFINE before == UpTo(x, S, R)
           upto == UpTo(y, S, R)
<1>1. y \in upto /\ y \notin before
  BY DEF UpTo, StrictTotal
<1>2. before \in SUBSET upto
  BY DEF UpTo, StrictTotal
<1>3. IsFiniteSet(upto) /\ IsFiniteSet(before)
  BY PlaceInRange
<1> HIDE DEF before, upto
<1>4. Cardinality(upto) \in Nat /\ Cardinality(before) \in Nat
  BY <1>3, FS_CardinalityType
<1>5. Cardinality(before) <= Cardinality(upto) /\ Cardinality(before) # Cardinality(upto)
  BY <1>1, <1>2, <1>3, FS_Subset
<1> QED
  BY <1>4, <1>5 DEF Place, before, upto

\* A finite set can be put in the order of any strict total order.
LEMMA OrdersExist ==
  ASSUME NEW S, IsFiniteSet(S), NEW R, StrictTotal(R, S)
  PROVE  \E order : IsOrderOf(order, S, R)
<1> DEFINE n == Cardinality(S)
           place == [x \in S |-> Place(x, S, R)]
<1>1. n \in Nat
  BY FS_CardinalityType
<1>2. \A x, y \in S : place[x] = place[y] => x = y
  <2> SUFFICES ASSUME NEW x \in S, NEW y \in S, Place(x, S, R) = Place(y, S, R), x # y
               PROVE  FALSE
    OBVIOUS
  <2>1. Place(x, S, R) \in Int
    BY PlaceInRange, <1>1
  <2>2. <<x, y>> \in R \/ <<y, x>> \in R
    BY DEF StrictTotal
  <2>3. <<x, y>> \notin R /\ <<y, x>> \notin R
    BY <2>1, PlacesIncrease
  <2> QED
    BY <2>2, <2>3
<1>3. place \in [S -> 1..n]
  BY PlaceInRange
<1>4. place \in Injection(S, 1..n)
  <2> HIDE DEF place, n
  <2> QED
    BY <1>2, <1>3 DEF Injection, IsInjective
<1>5. IsFiniteSet(1..n) /\ Cardinality(1..n) = n
  BY <1>1, FS_Interval
<1>6. place \in Surjection(S, 1..n)
  <2>1. Cardinality(S) = Cardinality(1..n)
    BY <1>5
  <2> HIDE DEF place, n
  <2> QED
    BY <1>4, <1>5, <2>1, FS_Injection
<1> DEFINE order == [i \in 1..n |-> CHOOSE x \in S : place[x] = i]
<1>7. \A i \in 1..n : order[i] \in S /\ Place(order[i], S, R) = i
  <2> TAKE i \in 1..n
  <2>1. \E x \in S : place[x] = i
    <3> HIDE DEF place, n
    <3> QED
      BY <1>6 DEF Surjection
  <2>2. order[i] \in S /\ place[order[i]] = i
    BY <2>1
  <2> QED
    BY <2>2
<1>8. \A i, j \in 1..n : i < j => <<order[i], order[j]>> \in R
  <2> SUFFICES ASSUME NEW i \in 1..n, NEW j \in 1..n, i < j,
                      <<order[i], order[j]>> \notin R
               PROVE  FALSE
    OBVIOUS
  <2>1. order[i] \in S /\ order[j] \in S
        /\ Place(order[i], S, R) = i /\ Place(order[j], S, R) = j
    BY <1>7
  <2> HIDE DEF order
  <2>2. order[i] = order[j] \/ <<order[j], order[i]>> \in R
    BY <2>1 DEF StrictTotal
  <2>3. CASE order[i] = order[j]
    BY <2>1, <2>3, <1>1
  <2>4. CASE <<order[j], order[i]>> \in R
    <3>1. Place(order[j], S, R) < Place(order[i], S, R)
      BY <2>1, <2>4, PlacesIncrease
    <3> QED
      BY <2>1, <3>1, <1>1
  <2> QED
    BY <2>2, <2>3, <2>4
<1>9. IsOrderOf(order, S, R)
  <2>1. order \in [1..n -> S]
    BY <1>7
  <2> HIDE DEF order
  <2> QED
    BY <2>1, <1>8 DEF IsOrderOf
<1> HIDE DEF order
<1> QED
  BY <1>9

\* No element is left out of an order, and none is in it twice.
LEMMA OrderIsComplete ==
  ASSUME NEW S, IsFiniteSet(S), NEW R, StrictTotal(R, S), NEW order, IsOrderOf(order, S, R)
  PROVE  /\ \A i, j \in 1..Cardinality(S) : order[i] = order[j] => i = j
         /\ \A x \in S : \E i \in 1..Cardinality(S) : order[i] = x
<1> DEFINE n == Cardinality(S)
<1>1. n \in Nat
  BY FS_CardinalityType
<1>2. IsFiniteSet(1..n) /\ Cardinality(1..n) = n
  BY <1>1, FS_Interval
<1>3. order \in [1..n -> S]
  BY DEF IsOrderOf
<1>4. \A i, j \in 1..n : order[i] = order[j] => i = j
  <2> SUFFICES ASSUME NEW i \in 1..n, NEW j \in 1..n, order[i] = order[j], i < j
               PROVE  FALSE
    BY <1>1
  <2>1. <<order[i], order[j]>> \in R
    BY <1>3 DEF IsOrderOf
  <2>2. order[i] \in S /\ order[j] \in S
    BY <1>3
  <2>3. <<order[i], order[i]>> \notin R
    BY <2>2 DEF StrictTotal
  <2> QED
    BY <2>1, <2>3
<1> HIDE DEF n
<1>5. order \in Injection(1..n, S)
  BY <1>3, <1>4 DEF Injection, IsInjective
<1>6. order \in Surjection(1..n, S)
  BY <1>2, <1>5, FS_Injection DEF n
<1> QED
  BY <1>4, <1>6 DEF Surjection, n

-----------------------------------------------------------------------------
(* Sums.                                                                   *)

\* The element that the fold takes out of s first.
AnyOf(s) == CHOOSE x \in s : TRUE

\* What the fold computes the sum of S with: the sums of all its subsets.
AreSums(sums, f, S) ==
  sums = [s \in SUBSET S |->
            IF s = {} THEN 0
            ELSE f[AnyOf(s)] + sums[s \ {AnyOf(s)}]]

Sums(f, S) == CHOOSE sums : AreSums(sums, f, S)

LEMMA SumIsAmongSums ==
  ASSUME NEW f, NEW S
  PROVE  SumFunctionOnSet(f, S) = Sums(f, S)[S]
  BY DEF SumFunctionOnSet, AnyOf, FoldFunctionOnSet, MapThenFoldSet, Sums, AreSums

LEMMA SumsOfNone ==
  ASSUME NEW f, NEW S, NEW sums, AreSums(sums, f, S)
  PROVE  sums[{}] = 0
<1>1. {} \in SUBSET S
  OBVIOUS
<1> QED
  BY <1>1 DEF AreSums

Unfolds(sums, f, S) ==
  \A s \in SUBSET S : s # {} => sums[s] = f[AnyOf(s)] + sums[s \ {AnyOf(s)}]

LEMMA SumsUnfold ==
  ASSUME NEW f, NEW S, NEW sums, AreSums(sums, f, S)
  PROVE  Unfolds(sums, f, S)
  BY DEF AreSums, Unfolds

\* Two functions with equal values on the smaller set have equal sums there.
LEMMA SumsAgree ==
  ASSUME NEW S, IsFiniteSet(S), NEW T, S \subseteq T, NEW f, NEW g,
         \A x \in S : f[x] = g[x],
         NEW sums, AreSums(sums, f, S), NEW others, AreSums(others, g, T)
  PROVE  \A s \in SUBSET S : sums[s] = others[s]
<1> DEFINE bad == {s \in SUBSET S : sums[s] # others[s]}
<1> SUFFICES ASSUME bad # {} PROVE FALSE
  OBVIOUS
<1>1. PICK s \in bad : \A U \in SUBSET s : U # s => U \notin bad
  <2>1. bad \subseteq SUBSET S
    OBVIOUS
  <2> HIDE DEF bad
  <2> QED
    BY <2>1, LeastSubset
<1>2. s \in SUBSET S /\ s \in SUBSET T
  OBVIOUS
<1>3. s # {}
  <2>1. sums[s] # others[s]
    OBVIOUS
  <2> HIDE DEF bad
  <2>2. sums[{}] = 0
    BY SumsOfNone
  <2>3. others[{}] = 0
    BY SumsOfNone
  <2> QED
    BY <2>1, <2>2, <2>3
<1> DEFINE x == AnyOf(s)
<1>4. x \in s
  BY <1>3 DEF AnyOf
<1>5. sums[s \ {x}] = others[s \ {x}]
  BY <1>1, <1>4
<1>6. sums[s] = f[x] + sums[s \ {x}] /\ others[s] = g[x] + others[s \ {x}]
  <2> HIDE DEF x, bad
  <2>1. Unfolds(sums, f, S) /\ Unfolds(others, g, T)
    BY SumsUnfold
  <2>2. sums[s] = f[AnyOf(s)] + sums[s \ {AnyOf(s)}]
    BY <1>2, <1>3, <2>1 DEF Unfolds
  <2>3. others[s] = g[AnyOf(s)] + others[s \ {AnyOf(s)}]
    BY <1>2, <1>3, <2>1 DEF Unfolds
  <2> QED
    BY <2>2, <2>3 DEF x
<1>7. f[x] = g[x]
  BY <1>2, <1>4
<1>8. sums[s] = others[s]
  BY <1>5, <1>6, <1>7
<1> QED
  BY <1>8

LEMMA SumsExist ==
  ASSUME NEW f, NEW S, IsFiniteSet(S)
  PROVE  AreSums(Sums(f, S), f, S)
<1> SUFFICES \E sums : AreSums(sums, f, S)
  BY DEF Sums
<1> DEFINE bad == {T \in SUBSET S : ~\E sums : AreSums(sums, f, T)}
<1> SUFFICES ASSUME bad # {} PROVE FALSE
  OBVIOUS
<1>1. PICK T \in bad : \A U \in SUBSET T : U # T => U \notin bad
  <2>1. bad \subseteq SUBSET S
    OBVIOUS
  <2> HIDE DEF bad
  <2> QED
    BY <2>1, LeastSubset
<1>2. \A U \in SUBSET T : U # T => AreSums(Sums(f, U), f, U)
  <2> SUFFICES ASSUME NEW U \in SUBSET T, U # T PROVE \E sums : AreSums(sums, f, U)
    BY DEF Sums
  <2> QED
    BY <1>1
<1> DEFINE below(s) == Sums(f, s \ {AnyOf(s)})[s \ {AnyOf(s)}]
           all == [s \in SUBSET T |->
                     IF s = {} THEN 0 ELSE f[AnyOf(s)] + below(s)]
<1>3. ASSUME NEW s \in SUBSET T, s # T
      PROVE  all[s] = Sums(f, s)[s]
  <2>1. AreSums(Sums(f, s), f, s)
    BY <1>2, <1>3
  <2>2. CASE s = {}
    BY <2>1, <2>2, SumsOfNone
  <2>3. CASE s # {}
    <3> DEFINE x == AnyOf(s)
               r == s \ {x}
    <3>1. x \in s /\ r \in SUBSET s /\ r \in SUBSET T /\ r # T
      BY <2>3 DEF AnyOf
    <3>2. AreSums(Sums(f, r), f, r)
      BY <1>2, <3>1
    <3>3. IsFiniteSet(r)
      BY <3>1, FS_Subset
    <3>4. Sums(f, r)[r] = Sums(f, s)[r]
      <4> HIDE DEF r
      <4> QED
        BY <2>1, <3>1, <3>2, <3>3, SumsAgree
    <3>5. Sums(f, s)[s] = f[x] + Sums(f, s)[r]
      <4> HIDE DEF all, bad
      <4>1. Sums(f, s)[s] = f[AnyOf(s)] + Sums(f, s)[s \ {AnyOf(s)}]
        BY <2>1, <2>3, SumsUnfold DEF Unfolds
      <4> QED
        BY <4>1
    <3>6. all[s] = f[x] + Sums(f, r)[r]
      BY <2>3
    <3> QED
      BY <3>4, <3>5, <3>6
  <2> QED
    BY <2>2, <2>3
<1>4. ASSUME NEW s \in SUBSET T, s # {}
      PROVE  below(s) = all[s \ {AnyOf(s)}]
  <2> DEFINE r == s \ {AnyOf(s)}
  <2>1. r \in SUBSET T /\ r # T
    BY <1>4 DEF AnyOf
  <2>2. all[r] = Sums(f, r)[r]
    <3> HIDE DEF r, all
    <3> QED
      BY <1>3, <2>1
  <2> QED
    BY <2>2
<1>5. AreSums(all, f, T)
  <2> DEFINE again == [s \in SUBSET T |->
                         IF s = {} THEN 0
                         ELSE f[AnyOf(s)] + all[s \ {AnyOf(s)}]]
  <2>1. \A s \in SUBSET T : all[s] = again[s]
    <3> SUFFICES ASSUME NEW s \in SUBSET T PROVE all[s] = again[s]
      OBVIOUS
    <3>1. CASE s = {}
      BY <3>1
    <3>2. CASE s # {}
      <4>1. all[s] = f[AnyOf(s)] + below(s)
        BY <3>2
      <4>2. again[s] = f[AnyOf(s)] + all[s \ {AnyOf(s)}]
        <5> HIDE DEF all
        <5> QED
          BY <3>2
      <4> HIDE DEF all, again, below
      <4> QED
        BY <1>4, <3>2, <4>1, <4>2
    <3> QED
      BY <3>1, <3>2
  <2>2. all = again
    BY <2>1
  <2> HIDE DEF all
  <2> QED
    BY <2>2 DEF AreSums
<1> QED
  BY <1>1, <1>5

LEMMA SumOfNone ==
  ASSUME NEW f
  PROVE  SumFunctionOnSet(f, {}) = 0
<1>1. IsFiniteSet({})
  BY FS_EmptySet
<1>2. AreSums(Sums(f, {}), f, {})
  BY <1>1, SumsExist
<1>3. Sums(f, {})[{}] = 0
  BY <1>2, SumsOfNone
<1> QED
  BY <1>3, SumIsAmongSums

LEMMA SumOfSome ==
  ASSUME NEW f, NEW S, IsFiniteSet(S), S # {}
  PROVE  \E x \in S : SumFunctionOnSet(f, S) = f[x] + SumFunctionOnSet(f, S \ {x})
<1> DEFINE x == AnyOf(S)
           r == S \ {x}
<1>1. x \in S /\ r \in SUBSET S /\ r \subseteq S
  BY DEF AnyOf
<1>2. IsFiniteSet(r)
  BY <1>1, FS_Subset
<1>3. AreSums(Sums(f, S), f, S) /\ AreSums(Sums(f, r), f, r)
  BY <1>2, SumsExist
<1>4. Sums(f, S)[S] = f[x] + Sums(f, S)[r]
  BY <1>3, SumsUnfold DEF Unfolds
<1>5. Sums(f, r)[r] = Sums(f, S)[r]
  <2> HIDE DEF r
  <2> QED
    BY <1>1, <1>2, <1>3, SumsAgree
<1> QED
  BY <1>1, <1>4, <1>5, SumIsAmongSums

\* The sum depends on the values on the set alone.
LEMMA SumOfEqual ==
  ASSUME NEW f, NEW g, NEW S, IsFiniteSet(S), \A x \in S : f[x] = g[x]
  PROVE  SumFunctionOnSet(f, S) = SumFunctionOnSet(g, S)
<1>1. AreSums(Sums(f, S), f, S) /\ AreSums(Sums(g, S), g, S)
  BY SumsExist
<1>2. \A s \in SUBSET S : Sums(f, S)[s] = Sums(g, S)[s]
  BY <1>1, SumsAgree
<1> QED
  BY <1>2, SumIsAmongSums

LEMMA SumIsInteger ==
  ASSUME NEW f, NEW S, IsFiniteSet(S), \A x \in S : f[x] \in Int
  PROVE  SumFunctionOnSet(f, S) \in Int
<1> DEFINE bad == {T \in SUBSET S : SumFunctionOnSet(f, T) \notin Int}
<1> SUFFICES ASSUME bad # {} PROVE FALSE
  OBVIOUS
<1>1. PICK T \in bad : \A U \in SUBSET T : U # T => U \notin bad
  <2>1. bad \subseteq SUBSET S
    OBVIOUS
  <2> HIDE DEF bad
  <2> QED
    BY <2>1, LeastSubset
<1>2. IsFiniteSet(T) /\ T \subseteq S
  BY FS_Subset
<1>3. T # {}
  BY SumOfNone
<1>4. PICK x \in T : SumFunctionOnSet(f, T) = f[x] + SumFunctionOnSet(f, T \ {x})
  BY <1>2, <1>3, SumOfSome
<1>5. SumFunctionOnSet(f, T \ {x}) \in Int
  BY <1>1, <1>4
<1> QED
  BY <1>2, <1>4, <1>5

LEMMA SumOfZeros ==
  ASSUME NEW f, NEW S, IsFiniteSet(S), \A x \in S : f[x] = 0
  PROVE  SumFunctionOnSet(f, S) = 0
<1> DEFINE bad == {T \in SUBSET S : SumFunctionOnSet(f, T) # 0}
<1> SUFFICES ASSUME bad # {} PROVE FALSE
  OBVIOUS
<1>1. PICK T \in bad : \A U \in SUBSET T : U # T => U \notin bad
  <2>1. bad \subseteq SUBSET S
    OBVIOUS
  <2> HIDE DEF bad
  <2> QED
    BY <2>1, LeastSubset
<1>2. IsFiniteSet(T) /\ T \subseteq S
  BY FS_Subset
<1>3. T # {}
  BY SumOfNone
<1>4. PICK x \in T : SumFunctionOnSet(f, T) = f[x] + SumFunctionOnSet(f, T \ {x})
  BY <1>2, <1>3, SumOfSome
<1>5. SumFunctionOnSet(f, T \ {x}) = 0
  BY <1>1, <1>4
<1> QED
  BY <1>2, <1>4, <1>5

\* Any element may be taken out of the sum first.
LEMMA SumWithout ==
  ASSUME NEW f, NEW S, IsFiniteSet(S), \A x \in S : f[x] \in Int, NEW a \in S
  PROVE  SumFunctionOnSet(f, S) = f[a] + SumFunctionOnSet(f, S \ {a})
<1> DEFINE bad == {T \in SUBSET S : \E b \in T : SumFunctionOnSet(f, T) # f[b] + SumFunctionOnSet(f, T \ {b})}
<1> SUFFICES ASSUME bad # {} PROVE FALSE
  OBVIOUS
<1>1. PICK T \in bad : \A U \in SUBSET T : U # T => U \notin bad
  <2>1. bad \subseteq SUBSET S
    OBVIOUS
  <2> HIDE DEF bad
  <2> QED
    BY <2>1, LeastSubset
<1>2. IsFiniteSet(T) /\ T \subseteq S
  BY FS_Subset
<1>3. PICK b \in T : SumFunctionOnSet(f, T) # f[b] + SumFunctionOnSet(f, T \ {b})
  OBVIOUS
<1>4. PICK x \in T : SumFunctionOnSet(f, T) = f[x] + SumFunctionOnSet(f, T \ {x})
  BY <1>2, <1>3, SumOfSome
<1> DEFINE rest == SumFunctionOnSet(f, (T \ {x}) \ {b})
<1>5. x # b
  BY <1>3, <1>4
<1>6. SumFunctionOnSet(f, T \ {x}) = f[b] + rest
  <2>1. T \ {x} \in SUBSET T /\ T \ {x} # T /\ b \in T \ {x} /\ T \ {x} \in SUBSET S
    BY <1>2, <1>5
  <2> QED
    BY <1>1, <2>1
<1>7. SumFunctionOnSet(f, T \ {b}) = f[x] + rest
  <2>1. T \ {b} \in SUBSET T /\ T \ {b} # T /\ x \in T \ {b} /\ T \ {b} \in SUBSET S
    BY <1>2, <1>5
  <2>2. SumFunctionOnSet(f, T \ {b}) = f[x] + SumFunctionOnSet(f, (T \ {b}) \ {x})
    BY <1>1, <2>1
  <2>3. (T \ {b}) \ {x} = (T \ {x}) \ {b}
    OBVIOUS
  <2> QED
    BY <2>2, <2>3
<1>8. rest \in Int /\ f[x] \in Int /\ f[b] \in Int
  <2>1. IsFiniteSet((T \ {x}) \ {b}) /\ \A y \in (T \ {x}) \ {b} : f[y] \in Int
    BY <1>2, FS_Subset
  <2> QED
    BY <1>2, <2>1, SumIsInteger
<1> HIDE DEF rest
<1> QED
  BY <1>3, <1>4, <1>6, <1>7, <1>8

LEMMA SumIsNatural ==
  ASSUME NEW f, NEW S, IsFiniteSet(S), \A x \in S : f[x] \in Nat
  PROVE  SumFunctionOnSet(f, S) \in Nat
<1> DEFINE bad == {T \in SUBSET S : SumFunctionOnSet(f, T) \notin Nat}
<1> SUFFICES ASSUME bad # {} PROVE FALSE
  OBVIOUS
<1>1. PICK T \in bad : \A U \in SUBSET T : U # T => U \notin bad
  <2>1. bad \subseteq SUBSET S
    OBVIOUS
  <2> HIDE DEF bad
  <2> QED
    BY <2>1, LeastSubset
<1>2. IsFiniteSet(T) /\ T \subseteq S
  BY FS_Subset
<1>3. T # {}
  BY SumOfNone
<1>4. PICK x \in T : SumFunctionOnSet(f, T) = f[x] + SumFunctionOnSet(f, T \ {x})
  BY <1>2, <1>3, SumOfSome
<1>5. SumFunctionOnSet(f, T \ {x}) \in Nat
  BY <1>1, <1>4
<1> QED
  BY <1>2, <1>4, <1>5

\* No term of a sum of natural numbers is larger than the sum.
LEMMA SumBoundsTerms ==
  ASSUME NEW f, NEW S, IsFiniteSet(S), \A x \in S : f[x] \in Nat, NEW a \in S
  PROVE  f[a] <= SumFunctionOnSet(f, S)
<1> DEFINE rest == SumFunctionOnSet(f, S \ {a})
<1>1. SumFunctionOnSet(f, S) = f[a] + rest
  BY SumWithout
<1>2. rest \in Nat
  BY FS_Subset, SumIsNatural
<1> HIDE DEF rest
<1> QED
  BY <1>1, <1>2

\* One term changes.
LEMMA SumAfter ==
  ASSUME NEW f, NEW g, NEW S, IsFiniteSet(S), \A x \in S : f[x] \in Int, NEW a \in S,
         g[a] \in Int, \A x \in S \ {a} : g[x] = f[x]
  PROVE  SumFunctionOnSet(g, S) = SumFunctionOnSet(f, S) - f[a] + g[a]
<1> DEFINE rest == SumFunctionOnSet(f, S \ {a})
           other == SumFunctionOnSet(g, S \ {a})
<1>1. IsFiniteSet(S \ {a})
  BY FS_Subset
<1>2. SumFunctionOnSet(f, S) = f[a] + rest
  BY SumWithout
<1>3. SumFunctionOnSet(g, S) = g[a] + other
  <2>1. \A x \in S : g[x] \in Int
    OBVIOUS
  <2> QED
    BY <2>1, SumWithout
<1>4. rest = other
  BY <1>1, SumOfEqual
<1>5. rest \in Int
  BY <1>1, SumIsInteger
<1> HIDE DEF rest, other
<1> QED
  BY <1>2, <1>3, <1>4, <1>5

\* One term is added.
LEMMA SumOfMore ==
  ASSUME NEW f, NEW g, NEW S, IsFiniteSet(S), \A x \in S : f[x] \in Int,
         NEW a, a \notin S, g[a] \in Int, \A x \in S : g[x] = f[x]
  PROVE  SumFunctionOnSet(g, S \cup {a}) = SumFunctionOnSet(f, S) + g[a]
<1> DEFINE T == S \cup {a}
<1>1. IsFiniteSet(T) /\ a \in T /\ T \ {a} = S
  BY FS_AddElement
<1>2. \A x \in T : g[x] \in Int
  OBVIOUS
<1>3. SumFunctionOnSet(g, T) = g[a] + SumFunctionOnSet(g, T \ {a})
  <2> HIDE DEF T
  <2> QED
    BY <1>1, <1>2, SumWithout
<1>4. SumFunctionOnSet(g, S) = SumFunctionOnSet(f, S)
  BY SumOfEqual
<1>5. SumFunctionOnSet(f, S) \in Int
  BY SumIsInteger
<1> HIDE DEF T
<1>6. SumFunctionOnSet(g, T \ {a}) = SumFunctionOnSet(f, S)
  BY <1>1, <1>4
<1> QED
  BY <1>3, <1>5, <1>6 DEF T
=============================================================================
