------------------------------ MODULE SumLemmas ------------------------------
(***************************************************************************)
(* Lemmas about MapThenSumSet over a finite set.  The community modules    *)
(* state such facts for any operator; here the summand is a function, so   *)
(* that the induction can be made: what fails for some subset fails for    *)
(* one of the smallest size, and that one is not empty.                    *)
(***************************************************************************)
EXTENDS Integers, FiniteSetsExt, FiniteSetTheorems, WellFoundedInduction, TLAPS

SumOf(f, S) == MapThenSumSet(LAMBDA x : f[x], S)

\* The element MapThenSumSet takes first.
Pick(s) == CHOOSE x \in s : TRUE
Rest(s) == s \ {Pick(s)}

\* g is the sum of f on every set in D.
IsSum(g, f, D) ==
  g = [s \in D |-> IF s = {} THEN 0 ELSE f[Pick(s)] + g[Rest(s)]]

Sized(S, n) == {s \in SUBSET S : Cardinality(s) <= n}

----------------------------------------------------------------------------
\* Any set of naturals has a least one.
LEMMA SmallestNat ==
  ASSUME NEW S \in SUBSET Nat, S # {}
  PROVE  \E n \in S : \A m \in S : n <= m
<1>1. IsWellFoundedOn(OpToRel(<, Nat), Nat)
  BY NatLessThanWellFounded
<1>2. PICK n \in S : \A m \in S : ~(<<m, n>> \in OpToRel(<, Nat))
  BY <1>1, WFMin
<1>3. ASSUME NEW m \in S PROVE n <= m
  <2>1. ~(<<m, n>> \in OpToRel(<, Nat))
    BY <1>2
  <2>2. ~(m < n)
    BY <2>1 DEF OpToRel
  <2> QED BY <2>2
<1> QED BY <1>3

\* A set of naturals that has no least member has no member: the form in
\* which the lemmas below use it.
LEMMA NoSmallest ==
  ASSUME NEW S \in SUBSET Nat, ~(0 \in S), \A n \in S : n - 1 \in S
  PROVE  S = {}
<1> SUFFICES ASSUME S # {} PROVE FALSE
  OBVIOUS
<1>1. PICK n \in S : \A m \in S : n <= m
  BY SmallestNat
<1> QED BY <1>1

\* One element less.
LEMMA RestSmaller ==
  ASSUME NEW S, IsFiniteSet(S), NEW s \in SUBSET S
  PROVE  /\ IsFiniteSet(s) /\ Cardinality(s) \in Nat
         /\ Cardinality(s) = 0 <=> s = {}
         /\ s # {} => /\ Pick(s) \in s
                      /\ Rest(s) \in SUBSET S
                      /\ Cardinality(Rest(s)) = Cardinality(s) - 1
<1>1. IsFiniteSet(s) /\ Cardinality(s) \in Nat
  BY FS_Subset, FS_CardinalityType
<1>2. Cardinality(s) = 0 <=> s = {}
  BY <1>1, FS_EmptySet
<1>3. ASSUME s # {}
      PROVE  Pick(s) \in s /\ Rest(s) \in SUBSET S
             /\ Cardinality(Rest(s)) = Cardinality(s) - 1
  <2>1. Pick(s) \in s
    BY <1>3 DEF Pick
  <2> QED BY <1>1, <2>1, FS_RemoveElement DEF Rest
<1> QED BY <1>1, <1>2, <1>3

\* The sum is defined on all subsets of a finite set.
LEMMA SumExists ==
  ASSUME NEW f, NEW S, IsFiniteSet(S)
  PROVE  \E g : IsSum(g, f, SUBSET S)
<1> DEFINE B == {n \in Nat : ~\E g : IsSum(g, f, Sized(S, n))}
<1>1. ~(0 \in B)
  <2> DEFINE g == [s \in Sized(S, 0) |-> 0]
  <2>1. \A s \in Sized(S, 0) : s = {}
    BY RestSmaller DEF Sized
  <2>2. IsSum(g, f, Sized(S, 0))
    BY <2>1 DEF IsSum
  <2> QED BY <2>2
<1>2. ASSUME NEW n \in B PROVE n - 1 \in B
  <2> SUFFICES ASSUME n - 1 \in Nat, NEW h, IsSum(h, f, Sized(S, n - 1))
               PROVE  FALSE
    BY <1>1
  <2> DEFINE g == [s \in Sized(S, n) |-> IF s = {} THEN 0 ELSE f[Pick(s)] + h[Rest(s)]]
  <2>1. ASSUME NEW s \in Sized(S, n), s # {}
        PROVE  g[Rest(s)] = h[Rest(s)]
    <3> DEFINE t == Rest(s)
    <3>1. t \in Sized(S, n) /\ t \in Sized(S, n - 1)
      BY <2>1, RestSmaller DEF Sized
    <3>2. h[t] = IF t = {} THEN 0 ELSE f[Pick(t)] + h[Rest(t)]
      BY <3>1 DEF IsSum
    <3> QED BY <3>1, <3>2
  <2>2. IsSum(g, f, Sized(S, n))
    BY <2>1 DEF IsSum
  <2> QED BY <2>2
<1>3. B = {}
  BY <1>1, <1>2, NoSmallest
<1>4. PICK n \in Nat : n = Cardinality(S)
  BY FS_CardinalityType
<1>5. Sized(S, n) = SUBSET S
  BY <1>4, FS_Subset DEF Sized
<1>6. \E g : IsSum(g, f, Sized(S, n))
  BY <1>3
<1> QED BY <1>5, <1>6

\* What MapThenSumSet computes is that sum.
LEMMA SumIsSum ==
  ASSUME NEW f, NEW S, IsFiniteSet(S)
  PROVE  \E g : IsSum(g, f, SUBSET S) /\ SumOf(f, S) = g[S]
<1>1. \E g : IsSum(g, f, SUBSET S)
  BY SumExists
<1> QED BY <1>1 DEF IsSum, SumOf, MapThenSumSet, MapThenFoldSet, Pick, Rest

\* The sum over a subset is that over its rest and the element taken out.
LEMMA SumStep ==
  ASSUME NEW f, NEW S, NEW g, IsSum(g, f, SUBSET S), NEW s \in SUBSET S
  PROVE  g[s] = IF s = {} THEN 0 ELSE f[Pick(s)] + g[Rest(s)]
BY DEF IsSum

LEMMA SumNone ==
  ASSUME NEW f, NEW S, NEW g, IsSum(g, f, SUBSET S)
  PROVE  g[{}] = 0
<1>1. {} \in SUBSET S
  OBVIOUS
<1> QED BY <1>1 DEF IsSum

\* A sum of integers is an integer, one of naturals a natural, one of zeros 0.
LEMMA SumType ==
  ASSUME NEW S, IsFiniteSet(S), NEW f, \A x \in S : f[x] \in Int
  PROVE  /\ SumOf(f, S) \in Int
         /\ (\A x \in S : f[x] >= 0) => SumOf(f, S) >= 0
         /\ (\A x \in S : f[x] = 0) => SumOf(f, S) = 0
<1>1. PICK g : IsSum(g, f, SUBSET S) /\ SumOf(f, S) = g[S]
  BY SumIsSum
<1> DEFINE Good(s) == /\ g[s] \in Int
                      /\ (\A x \in S : f[x] >= 0) => g[s] >= 0
                      /\ (\A x \in S : f[x] = 0) => g[s] = 0
           B == {n \in Nat : \E s \in SUBSET S : Cardinality(s) = n /\ ~Good(s)}
<1>2. \A s \in SUBSET S : s = {} => Good(s)
  <2>1. g[{}] = 0
    BY <1>1, SumNone
  <2> QED BY <2>1
<1>3. \A s \in SUBSET S : s # {} /\ Good(Rest(s)) => Good(s)
  <2> SUFFICES ASSUME NEW s \in SUBSET S, s # {}, Good(Rest(s)) PROVE Good(s)
    OBVIOUS
  <2>1. g[s] = f[Pick(s)] + g[Rest(s)]
    BY <1>1, SumStep
  <2>2. Pick(s) \in S
    BY RestSmaller
  <2> QED BY <2>1, <2>2
<1> HIDE DEF Good
<1>4. ~(0 \in B)
  BY <1>2, RestSmaller
<1>5. ASSUME NEW n \in B PROVE n - 1 \in B
  <2>1. PICK s \in SUBSET S : Cardinality(s) = n /\ ~Good(s)
    OBVIOUS
  <2>2. s # {} /\ ~Good(Rest(s))
    BY <2>1, <1>2, <1>3
  <2>3. Rest(s) \in SUBSET S /\ Cardinality(Rest(s)) = n - 1
    BY <2>1, <2>2, RestSmaller
  <2>4. n - 1 \in Nat
    BY <2>3, RestSmaller
  <2> QED BY <2>2, <2>3, <2>4
<1>6. B = {}
  BY <1>4, <1>5, NoSmallest
<1>7. Good(S)
  BY <1>6, RestSmaller
<1> QED BY <1>1, <1>7 DEF Good

\* A summand that changes at one place changes the sum by as much.
LEMMA SumChange ==
  ASSUME NEW S, IsFiniteSet(S), NEW f, NEW h, NEW d \in S,
         \A x \in S : f[x] \in Int /\ h[x] \in Int,
         \A x \in S \ {d} : h[x] = f[x]
  PROVE  SumOf(h, S) = SumOf(f, S) + h[d] - f[d]
<1>1. PICK g : IsSum(g, f, SUBSET S) /\ SumOf(f, S) = g[S]
  BY SumIsSum
<1>2. PICK k : IsSum(k, h, SUBSET S) /\ SumOf(h, S) = k[S]
  BY SumIsSum
<1> DEFINE Good(s) == /\ g[s] \in Int
                      /\ k[s] = g[s] + (IF d \in s THEN h[d] - f[d] ELSE 0)
           B == {n \in Nat : \E s \in SUBSET S : Cardinality(s) = n /\ ~Good(s)}
<1>3. \A s \in SUBSET S : s = {} => Good(s)
  <2>1. g[{}] = 0
    BY <1>1, SumNone
  <2>2. k[{}] = 0
    BY <1>2, SumNone
  <2> QED BY <2>1, <2>2
<1>4. \A s \in SUBSET S : s # {} /\ Good(Rest(s)) => Good(s)
  <2> SUFFICES ASSUME NEW s \in SUBSET S, s # {}, Good(Rest(s)) PROVE Good(s)
    OBVIOUS
  <2>1. g[s] = f[Pick(s)] + g[Rest(s)] /\ k[s] = h[Pick(s)] + k[Rest(s)]
    BY <1>1, <1>2, SumStep
  <2>2. Pick(s) \in s /\ Pick(s) \in S
    BY RestSmaller
  <2>3. CASE Pick(s) = d
    <3>1. d \in s /\ ~(d \in Rest(s))
      BY <2>2, <2>3 DEF Rest
    <3> QED BY <2>1, <2>2, <2>3, <3>1
  <2>4. CASE Pick(s) # d
    <3>1. d \in s <=> d \in Rest(s)
      BY <2>4 DEF Rest
    <3>2. h[Pick(s)] = f[Pick(s)] /\ f[Pick(s)] \in Int
      BY <2>2, <2>4
    <3> QED BY <2>1, <3>1, <3>2
  <2> QED BY <2>3, <2>4
<1> HIDE DEF Good
<1>5. ~(0 \in B)
  BY <1>3, RestSmaller
<1>6. ASSUME NEW n \in B PROVE n - 1 \in B
  <2>1. PICK s \in SUBSET S : Cardinality(s) = n /\ ~Good(s)
    OBVIOUS
  <2>2. s # {} /\ ~Good(Rest(s))
    BY <2>1, <1>3, <1>4
  <2>3. Rest(s) \in SUBSET S /\ Cardinality(Rest(s)) = n - 1
    BY <2>1, <2>2, RestSmaller
  <2>4. n - 1 \in Nat
    BY <2>3, RestSmaller
  <2> QED BY <2>2, <2>3, <2>4
<1>7. B = {}
  BY <1>5, <1>6, NoSmallest
<1>8. Good(S)
  BY <1>7, RestSmaller
<1> QED BY <1>1, <1>2, <1>8 DEF Good

\* The same of a function that is replaced at one place.
LEMMA SumReplace ==
  ASSUME NEW D, NEW f \in [D -> Int], NEW S \in SUBSET D, IsFiniteSet(S), NEW d \in S,
         NEW y \in Int
  PROVE  SumOf([f EXCEPT ![d] = y], S) = SumOf(f, S) + y - f[d]
<1> DEFINE h == [f EXCEPT ![d] = y]
<1>1. /\ \A x \in S : f[x] \in Int /\ h[x] \in Int
      /\ \A x \in S \ {d} : h[x] = f[x]
      /\ h[d] = y
  OBVIOUS
<1> HIDE DEF h
<1>2. SumOf(h, S) = SumOf(f, S) + h[d] - f[d]
  BY <1>1, SumChange
<1> QED BY <1>1, <1>2 DEF h

\* The sum over a set of one element.
LEMMA SumSingleton ==
  ASSUME NEW f, NEW x, f[x] \in Int
  PROVE  SumOf(f, {x}) = f[x]
<1>1. PICK S : S = {x}
  OBVIOUS
<1>2. IsFiniteSet(S)
  BY <1>1, FS_Singleton
<1>3. PICK g : IsSum(g, f, SUBSET S) /\ SumOf(f, S) = g[S]
  BY <1>2, SumIsSum
<1>4. Pick(S) = x /\ Rest(S) = {} /\ S # {} /\ S \in SUBSET S
  BY <1>1 DEF Pick, Rest
<1>5. g[{}] = 0
  BY <1>3, SumNone
<1>6. g[S] = f[x] + g[{}]
  BY <1>3, <1>4, SumStep
<1> QED BY <1>1, <1>3, <1>5, <1>6

\* The sum over the empty set.
LEMMA SumEmpty == \A f : SumOf(f, {}) = 0
<1> SUFFICES ASSUME NEW f PROVE SumOf(f, {}) = 0
  OBVIOUS
<1>1. IsFiniteSet({})
  BY FS_EmptySet
<1>2. PICK g : IsSum(g, f, SUBSET {}) /\ SumOf(f, {}) = g[{}]
  BY <1>1, SumIsSum
<1> QED BY <1>2, SumNone

----------------------------------------------------------------------------
(* Sums over different sets.                                              *)

\* The sum over a subset does not depend on the set it is taken from.
LEMMA SumWithin ==
  ASSUME NEW f, NEW S, IsFiniteSet(S), NEW g, IsSum(g, f, SUBSET S), NEW T \in SUBSET S
  PROVE  SumOf(f, T) = g[T]
<1>0. IsFiniteSet(T)
  BY FS_Subset
<1>1. PICK h : IsSum(h, f, SUBSET T) /\ SumOf(f, T) = h[T]
  BY <1>0, SumIsSum
<1> DEFINE B == {n \in Nat : \E s \in SUBSET T : Cardinality(s) = n /\ h[s] # g[s]}
<1>2. h[{}] = g[{}]
  <2>1. h[{}] = 0
    BY <1>1, SumNone
  <2>2. g[{}] = 0
    BY SumNone
  <2> QED BY <2>1, <2>2
<1>3. ASSUME NEW s \in SUBSET T, s # {}, h[Rest(s)] = g[Rest(s)]
      PROVE  h[s] = g[s]
  <2>1. h[s] = f[Pick(s)] + h[Rest(s)]
    BY <1>1, <1>3, SumStep
  <2>2. g[s] = f[Pick(s)] + g[Rest(s)]
    BY <1>3, SumStep
  <2> QED BY <1>3, <2>1, <2>2
<1>4. ~(0 \in B)
  BY <1>0, <1>2, RestSmaller
<1>5. ASSUME NEW n \in B PROVE n - 1 \in B
  <2>1. PICK s \in SUBSET T : Cardinality(s) = n /\ h[s] # g[s]
    OBVIOUS
  <2>2. s # {} /\ h[Rest(s)] # g[Rest(s)]
    BY <2>1, <1>2, <1>3
  <2>3. Rest(s) \in SUBSET T /\ Cardinality(Rest(s)) = n - 1
    BY <1>0, <2>1, <2>2, RestSmaller
  <2>4. n - 1 \in Nat
    BY <1>0, <2>3, RestSmaller
  <2> QED BY <2>2, <2>3, <2>4
<1>6. B = {}
  BY <1>4, <1>5, NoSmallest
<1>7. h[T] = g[T]
  BY <1>0, <1>6, RestSmaller
<1> QED BY <1>1, <1>7

\* Any element can be taken out first: the order does not matter.
LEMMA SumRemove ==
  ASSUME NEW S, IsFiniteSet(S), NEW f, \A x \in S : f[x] \in Int, NEW d \in S
  PROVE  SumOf(f, S) = f[d] + SumOf(f, S \ {d})
<1>1. PICK g : IsSum(g, f, SUBSET S) /\ SumOf(f, S) = g[S]
  BY SumIsSum
<1> DEFINE Good(s) == \A x \in s : g[s] = f[x] + g[s \ {x}]
           B == {n \in Nat : \E s \in SUBSET S : Cardinality(s) = n /\ ~Good(s)}
<1>2. \A s \in SUBSET S : g[s] \in Int
  <2>1. ASSUME NEW s \in SUBSET S PROVE g[s] \in Int
    <3>1. IsFiniteSet(s) /\ SumOf(f, s) = g[s]
      BY <1>1, FS_Subset, SumWithin
    <3>2. \A x \in s : f[x] \in Int
      OBVIOUS
    <3> QED BY <3>1, <3>2, SumType
  <2> QED BY <2>1
<1>3. \A n \in B : \E s \in SUBSET S : Cardinality(s) = n /\ ~Good(s)
  OBVIOUS
<1>4. ~(0 \in B)
  BY RestSmaller
<1>5. ASSUME NEW n \in B PROVE n - 1 \in B
  <2>1. PICK s \in SUBSET S : Cardinality(s) = n /\ ~Good(s)
    OBVIOUS
  <2>2. PICK x \in s : g[s] # f[x] + g[s \ {x}]
    BY <2>1
  <2> DEFINE p == Pick(s)
             t == s \ {x}
  <2>3. /\ p \in s /\ Rest(s) \in SUBSET S /\ Rest(s) = s \ {p}
        /\ Cardinality(Rest(s)) = n - 1 /\ IsFiniteSet(s)
    BY <2>1, <2>2, RestSmaller DEF Rest
  <2>4. g[s] = f[p] + g[Rest(s)]
    BY <1>1, <2>2, SumStep
  <2>5. p # x /\ n - 1 \in Nat
    <3>1. p # x
      BY <2>2, <2>3, <2>4
    <3>2. Cardinality(Rest(s)) \in Nat
      BY <2>3, RestSmaller
    <3> QED BY <2>3, <3>1, <3>2
  <2>6. t \in SUBSET S /\ Cardinality(t) = n - 1
    BY <2>1, <2>3, FS_RemoveElement
  <2>7. Rest(s) \ {x} = t \ {p} /\ x \in Rest(s) /\ p \in t
    BY <2>3, <2>5
  <2> HIDE DEF p, t
  <2>8. CASE ~Good(Rest(s))
    BY <2>3, <2>5, <2>8
  <2>9. CASE ~Good(t)
    BY <2>5, <2>6, <2>9
  <2>10. CASE Good(Rest(s)) /\ Good(t)
    <3>1. g[Rest(s)] = f[x] + g[Rest(s) \ {x}] /\ g[t] = f[p] + g[t \ {p}]
      BY <2>7, <2>10
    <3>2. /\ f[x] \in Int /\ f[p] \in Int /\ g[t] \in Int /\ g[t \ {p}] \in Int
          /\ t \ {p} \in SUBSET S
      BY <1>2, <2>1, <2>3, <2>6
    <3>3. g[s] = f[p] + (f[x] + g[t \ {p}])
      BY <2>4, <2>7, <3>1
    <3>4. f[p] + (f[x] + g[t \ {p}]) = f[x] + (f[p] + g[t \ {p}])
      BY <3>2
    <3>5. g[s] = f[x] + g[t]
      BY <3>1, <3>3, <3>4
    <3> QED BY <2>2, <3>5 DEF t
  <2> QED BY <2>8, <2>9, <2>10
<1>6. B = {}
  BY <1>4, <1>5, NoSmallest
<1>7. Good(S)
  BY <1>6, RestSmaller
<1>8. SumOf(f, S \ {d}) = g[S \ {d}]
  BY <1>1, SumWithin
<1> QED BY <1>1, <1>7, <1>8

\* Of naturals, no summand and no partial sum exceeds the sum.
LEMMA SumMember ==
  ASSUME NEW S, IsFiniteSet(S), NEW f, \A x \in S : f[x] \in Nat, NEW d \in S
  PROVE  f[d] <= SumOf(f, S)
<1>1. SumOf(f, S) = f[d] + SumOf(f, S \ {d})
  BY SumRemove
<1>2. IsFiniteSet(S \ {d})
  BY FS_RemoveElement
<1>3. SumOf(f, S \ {d}) \in Int /\ SumOf(f, S \ {d}) >= 0
  BY <1>2, SumType
<1> QED BY <1>1, <1>3

LEMMA SumSubset ==
  ASSUME NEW S, IsFiniteSet(S), NEW f, \A x \in S : f[x] \in Nat, NEW T \in SUBSET S
  PROVE  SumOf(f, T) <= SumOf(f, S)
<1> DEFINE Good(s) == SumOf(f, T \cap s) <= SumOf(f, s)
           B == {n \in Nat : \E s \in SUBSET S : Cardinality(s) = n /\ ~Good(s)}
<1>0. ASSUME NEW s \in SUBSET S
      PROVE  /\ IsFiniteSet(s) /\ IsFiniteSet(T \cap s)
             /\ SumOf(f, s) \in Nat /\ SumOf(f, T \cap s) \in Nat
  <2>1. IsFiniteSet(s) /\ IsFiniteSet(T \cap s)
    <3>1. T \cap s \in SUBSET S
      OBVIOUS
    <3> QED BY <3>1, FS_Subset
  <2>2. (\A x \in s : f[x] \in Int /\ f[x] >= 0)
    OBVIOUS
  <2>3. (\A x \in T \cap s : f[x] \in Int /\ f[x] >= 0)
    OBVIOUS
  <2>4. SumOf(f, s) \in Nat
    BY <2>1, <2>2, SumType
  <2>5. SumOf(f, T \cap s) \in Nat
    BY <2>1, <2>3, SumType
  <2> QED BY <2>1, <2>4, <2>5
<1>1. ASSUME NEW s \in SUBSET S, s = {} PROVE Good(s)
  <2>1. T \cap s = s
    BY <1>1
  <2> QED BY <2>1, <1>0
<1>2. ASSUME NEW s \in SUBSET S, s # {}, Good(Rest(s)) PROVE Good(s)
  <2> DEFINE p == Pick(s)
             r == Rest(s)
  <2>1. p \in s /\ r \in SUBSET S /\ r = s \ {p} /\ f[p] \in Nat
    BY <1>2, RestSmaller DEF Rest
  <2>2. /\ IsFiniteSet(s) /\ IsFiniteSet(T \cap s)
        /\ SumOf(f, s) \in Nat /\ SumOf(f, T \cap s) \in Nat
    BY <1>0
  <2>3. SumOf(f, r) \in Nat /\ SumOf(f, T \cap r) \in Nat
    BY <1>0, <2>1
  <2>4. SumOf(f, T \cap r) <= SumOf(f, r)
    BY <1>2
  <2> HIDE DEF p, r
  <2>5. SumOf(f, s) = f[p] + SumOf(f, r)
    <3>1. \A x \in s : f[x] \in Int
      OBVIOUS
    <3> QED BY <2>1, <2>2, <3>1, SumRemove
  <2>6. CASE p \in T
    <3>1. p \in T \cap s /\ (T \cap s) \ {p} = T \cap r /\ \A x \in T \cap s : f[x] \in Int
      BY <2>1, <2>6
    <3>2. SumOf(f, T \cap s) = f[p] + SumOf(f, (T \cap s) \ {p})
      BY <2>2, <3>1, SumRemove
    <3>3. SumOf(f, T \cap s) = f[p] + SumOf(f, T \cap r)
      BY <3>1, <3>2
    <3>4. f[p] + SumOf(f, T \cap r) <= f[p] + SumOf(f, r)
      BY <2>1, <2>3, <2>4
    <3> QED BY <2>5, <3>3, <3>4
  <2>7. CASE p \notin T
    <3>1. T \cap s = T \cap r
      BY <2>1, <2>7
    <3>2. SumOf(f, T \cap r) <= f[p] + SumOf(f, r)
      BY <2>1, <2>3, <2>4
    <3> QED BY <2>5, <3>1, <3>2
  <2> QED BY <2>6, <2>7
<1>3. \A n \in B : \E s \in SUBSET S : Cardinality(s) = n /\ ~Good(s)
  OBVIOUS
<1> HIDE DEF Good
<1>4. ~(0 \in B)
  BY <1>1, RestSmaller
<1>5. ASSUME NEW n \in B PROVE n - 1 \in B
  <2>1. PICK s \in SUBSET S : Cardinality(s) = n /\ ~Good(s)
    OBVIOUS
  <2>2. s # {} /\ ~Good(Rest(s))
    BY <2>1, <1>1, <1>2
  <2>3. Rest(s) \in SUBSET S /\ Cardinality(Rest(s)) = n - 1
    BY <2>1, <2>2, RestSmaller
  <2>4. n - 1 \in Nat
    BY <2>3, RestSmaller
  <2> QED BY <2>2, <2>3, <2>4
<1>6. B = {}
  BY <1>4, <1>5, NoSmallest
<1>7. Good(S)
  BY <1>6, RestSmaller
<1>8. T \cap S = T
  OBVIOUS
<1> QED BY <1>7, <1>8 DEF Good

\* An interval that grows by one.
LEMMA SumInterval ==
  ASSUME NEW n \in Nat, NEW f, \A a \in 0..(n + 1) : f[a] \in Int
  PROVE  SumOf(f, 0..(n + 1)) = f[n + 1] + SumOf(f, 0..n)
<1>1. IsFiniteSet(0..(n + 1))
  BY FS_Interval
<1>2. n + 1 \in 0..(n + 1) /\ (0..(n + 1)) \ {n + 1} = 0..n
  OBVIOUS
<1> QED BY <1>1, <1>2, SumRemove

\* What is moved on by one place, with nothing new in the first, adds up to
\* the same.
LEMMA SumShift ==
  ASSUME NEW n \in Nat, NEW f, NEW h, \A a \in 0..n : f[a] \in Int /\ h[a + 1] = f[a],
         h[0] = 0
  PROVE  SumOf(h, 0..(n + 1)) = SumOf(f, 0..n)
<1> DEFINE B == {k \in 0..n : SumOf(h, 0..(k + 1)) # SumOf(f, 0..k)}
<1>1. \A a \in 0..(n + 1) : h[a] \in Int
  <2>1. ASSUME NEW a \in 0..(n + 1), a # 0 PROVE h[a] \in Int
    <3>1. a - 1 \in 0..n /\ (a - 1) + 1 = a
      BY <2>1
    <3> QED BY <3>1
  <2> QED BY <2>1
<1>2. ~(0 \in B)
  <2>1. SumOf(h, 0..(0 + 1)) = h[0 + 1] + SumOf(h, 0..0)
    <3>1. \A a \in 0..(0 + 1) : h[a] \in Int
      BY <1>1
    <3> QED BY <3>1, SumInterval
  <2>2. 0..0 = {0} /\ 0 \in 0..n
    OBVIOUS
  <2>3. h[0] \in Int /\ f[0] \in Int /\ h[0 + 1] = f[0]
    BY <2>2
  <2>4. SumOf(h, {0}) = h[0]
    BY <2>3, SumSingleton
  <2>5. SumOf(f, {0}) = f[0]
    BY <2>3, SumSingleton
  <2> QED BY <2>1, <2>2, <2>3, <2>4, <2>5
<1>3. ASSUME NEW k \in B PROVE k - 1 \in B
  <2>1. k # 0
    BY <1>2
  <2>2. PICK m \in 0..n : k = m + 1
    <3>1. k - 1 \in 0..n /\ k = (k - 1) + 1
      BY <2>1
    <3> QED BY <3>1
  <2>3. SumOf(h, 0..(k + 1)) = h[k + 1] + SumOf(h, 0..k)
    BY <1>1, SumInterval
  <2>4. SumOf(f, 0..(m + 1)) = f[m + 1] + SumOf(f, 0..m)
    BY <2>2, SumInterval
  <2>5. h[k + 1] = f[k]
    OBVIOUS
  <2>6. SumOf(h, 0..(m + 1)) # SumOf(f, 0..m)
    BY <2>2, <2>3, <2>4, <2>5
  <2> QED BY <2>2, <2>6
<1>4. B \in SUBSET Nat
  OBVIOUS
<1>5. B = {}
  BY <1>2, <1>3, <1>4, NoSmallest
<1>6. n \in 0..n
  OBVIOUS
<1> QED BY <1>5, <1>6
==============================================================================
