-------------------------------- MODULE Sums --------------------------------
(***************************************************************************)
(* What the conservation arguments need of SumFunctionOnSet, the sum of a  *)
(* function's values over a finite set: it is an integer, it is zero when  *)
(* all values are, and changing the function at one point changes it by    *)
(* the difference.                                                         *)
(*                                                                         *)
(* The community modules define the sum by a recursive function on the     *)
(* subsets of the index set, that is as the function CHOOSEn to satisfy an *)
(* equation.  That there is such a function is proved first.  Induction    *)
(* on a finite set is used in the form "of all counterexamples there is a  *)
(* smallest", which is a statement about sets and needs no predicate as a  *)
(* parameter.                                                              *)
(***************************************************************************)
EXTENDS Integers, Functions, FiniteSetTheorems, TLAPS

\* The element the fold takes out of s first.
First(s) == CHOOSE x \in s : TRUE

\* F sums f over every subset of T.
IsSum(F, f, T) ==
    F = [s \in SUBSET T |-> IF s = {} THEN 0 ELSE f[First(s)] + F[s \ {First(s)}]]

\* Among the subsets of a finite set with some property there is a smallest one.
LEMMA SmallestSubset ==
    ASSUME NEW S, IsFiniteSet(S), NEW Bad, Bad \subseteq SUBSET S, Bad # {}
    PROVE  \E T \in Bad : \A U \in Bad : U \subseteq T => U = T
  <1>1. IsWellFoundedOn(StrictSubsetOrdering(S), SUBSET S)
    BY FS_FiniteSubsetsOfFinite, FS_StrictSubsetOrderingWellFounded
  <1>2. PICK T \in Bad : \A U \in Bad : <<U, T>> \notin StrictSubsetOrdering(S)
    <2> HIDE DEF StrictSubsetOrdering
    <2>. QED
      BY <1>1, WFMin
  <1>. QED
    BY <1>2 DEF StrictSubsetOrdering

LEMMA FirstIn == ASSUME NEW s, s # {} PROVE First(s) \in s
  BY DEF First

\* Taking the first element out gives a smaller set.
LEMMA RestSmaller ==
    ASSUME NEW T, NEW s \in SUBSET T, s # {}
    PROVE  /\ s \ {First(s)} \in SUBSET s
           /\ s \ {First(s)} \in SUBSET T
           /\ s \ {First(s)} # s
  BY FirstIn

\* The equation of a sum, at one set.
LEMMA SumAt ==
    ASSUME NEW F, NEW f, NEW T, IsSum(F, f, T), NEW s \in SUBSET T
    PROVE  F[s] = IF s = {} THEN 0 ELSE f[First(s)] + F[s \ {First(s)}]
  BY DEF IsSum

\* Two sums of f agree where both are defined.
LEMMA SumUnique ==
    ASSUME NEW S, IsFiniteSet(S), NEW f, NEW T \in SUBSET S, NEW U \in SUBSET S,
           NEW F, IsSum(F, f, T), NEW G, IsSum(G, f, U),
           NEW s \in SUBSET (T \cap U)
    PROVE  F[s] = G[s]
  <1> DEFINE Bad == {r \in SUBSET (T \cap U) : F[r] # G[r]}
  <1> SUFFICES ASSUME Bad # {} PROVE FALSE
    OBVIOUS
  <1>1. PICK r \in Bad : \A q \in Bad : q \subseteq r => q = r
    <2>1. Bad \subseteq SUBSET S
      OBVIOUS
    <2> HIDE DEF Bad
    <2>. QED
      BY <2>1, SmallestSubset
  <1>2. r \in SUBSET T /\ r \in SUBSET U /\ F[r] # G[r]
    BY <1>1
  <1>3. r # {}
    BY <1>2, SumAt
  <1> DEFINE q == r \ {First(r)}
  <1>4. q \subseteq r /\ q # r
    BY <1>3, RestSmaller
  <1>5. F[q] = G[q]
    <2>1. q \notin Bad
      BY <1>1, <1>4
    <2>2. q \in SUBSET (T \cap U)
      BY <1>2, <1>4
    <2>. QED
      BY <2>1, <2>2
  <1>6. F[r] = f[First(r)] + F[q] /\ G[r] = f[First(r)] + G[q]
    BY <1>2, <1>3, SumAt
  <1>. QED
    BY <1>2, <1>5, <1>6

\* Every function has a sum over the subsets of a finite set.
LEMMA SumExists ==
    ASSUME NEW S, IsFiniteSet(S), NEW f
    PROVE  \E F : IsSum(F, f, S)
  <1> DEFINE Bad == {T \in SUBSET S : ~\E F : IsSum(F, f, T)}
  <1> SUFFICES ASSUME Bad # {} PROVE FALSE
    OBVIOUS
  <1>1. PICK T \in Bad : \A U \in Bad : U \subseteq T => U = T
    <2>1. Bad \subseteq SUBSET S
      OBVIOUS
    <2> HIDE DEF Bad
    <2>. QED
      BY <2>1, SmallestSubset
  <1>2. /\ T \in SUBSET S
        /\ ~\E F : IsSum(F, f, T)
        /\ \A U \in SUBSET T : U # T => \E F : IsSum(F, f, U)
    BY <1>1
  <1> HIDE DEF Bad
  <1> DEFINE Part(U) == CHOOSE F : IsSum(F, f, U)
             Rest(s) == s \ {First(s)}
             Val(s) == IF s = {} THEN 0 ELSE f[First(s)] + Part(Rest(s))[Rest(s)]
             G == [s \in SUBSET T |-> Val(s)]
  <1>3. \A U \in SUBSET T : U # T => IsSum(Part(U), f, U)
    BY <1>2
  <1> HIDE DEF Part
  <1>4. ASSUME NEW s \in SUBSET T, s # {} PROVE G[Rest(s)] = Part(Rest(s))[Rest(s)]
    <2> DEFINE r == Rest(s)
    <2>1. r \in SUBSET T /\ r # T
      BY <1>4, FirstIn
    <2>2. IsSum(Part(r), f, r)
      BY <1>3, <2>1
    <2>3. CASE r = {}
      <3>1. Part(r)[r] = 0
        BY <2>2, <2>3, SumAt
      <3>. QED
        BY <2>1, <2>3, <3>1
    <2>4. CASE r # {}
      <3> DEFINE q == Rest(r)
      <3>1. q \in SUBSET r /\ q \in SUBSET T /\ q # T
        BY <2>1, <2>4, RestSmaller
      <3>2. Part(r)[r] = f[First(r)] + Part(r)[q]
        BY <2>2, <2>4, SumAt
      <3>3. IsSum(Part(q), f, q)
        BY <1>3, <3>1
      <3>4. Part(r)[q] = Part(q)[q]
        <4>1. r \in SUBSET S /\ q \in SUBSET S /\ q \in SUBSET (r \cap q)
          BY <1>2, <2>1, <3>1
        <4> HIDE DEF q, r
        <4>. QED
          BY <4>1, <2>2, <3>3, SumUnique
      <3>. QED
        BY <2>1, <2>4, <3>2, <3>4
    <2>. QED
      BY <2>3, <2>4
  <1>5. IsSum(G, f, T)
    <2>1. ASSUME NEW s \in SUBSET T
          PROVE  Val(s) = IF s = {} THEN 0 ELSE f[First(s)] + G[s \ {First(s)}]
      BY <1>4
    <2> HIDE DEF Val
    <2>. QED
      BY <2>1 DEF IsSum
  <1>. QED
    BY <1>2, <1>5

\* The community modules' sum is the value of such a function.
LEMMA SumValue ==
    ASSUME NEW S, IsFiniteSet(S), NEW f
    PROVE  \E F : IsSum(F, f, S) /\ SumFunctionOnSet(f, S) = F[S]
  <1>1. SumFunctionOnSet(f, S) = (CHOOSE F : IsSum(F, f, S))[S]
    BY DEF SumFunctionOnSet, FoldFunctionOnSet, MapThenFoldSet, IsSum, First
  <1>. QED
    BY <1>1, SumExists

\* Sums of naturals are naturals, on every subset.
LEMMA SumsAreNat ==
    ASSUME NEW S, IsFiniteSet(S), NEW f, \A x \in S : f[x] \in Nat,
           NEW F, IsSum(F, f, S)
    PROVE  \A T \in SUBSET S : F[T] \in Nat
  <1> DEFINE Bad == {T \in SUBSET S : F[T] \notin Nat}
  <1> SUFFICES ASSUME Bad # {} PROVE FALSE
    OBVIOUS
  <1>1. PICK T \in Bad : \A U \in Bad : U \subseteq T => U = T
    <2>1. Bad \subseteq SUBSET S
      OBVIOUS
    <2> HIDE DEF Bad
    <2>. QED
      BY <2>1, SmallestSubset
  <1>2. T \in SUBSET S /\ F[T] \notin Nat
    BY <1>1
  <1>3. T # {}
    <2>1. F[{}] = 0
      BY SumAt
    <2>. QED
      BY <1>2, <2>1
  <1> DEFINE U == T \ {First(T)}
  <1>4. U \in SUBSET S /\ U \subseteq T /\ U # T
    BY <1>2, <1>3, RestSmaller
  <1>5. F[U] \in Nat
    BY <1>1, <1>4
  <1>6. F[T] = f[First(T)] + F[U]
    BY <1>2, <1>3, SumAt
  <1>7. f[First(T)] \in Nat
    BY <1>2, <1>3, FirstIn
  <1> HIDE DEF U
  <1>. QED
    BY <1>2, <1>5, <1>6, <1>7

\* A sum of naturals is a natural number.
LEMMA SumType ==
    ASSUME NEW S, IsFiniteSet(S), NEW f, \A x \in S : f[x] \in Nat
    PROVE  SumFunctionOnSet(f, S) \in Nat
  <1>1. PICK F : IsSum(F, f, S) /\ SumFunctionOnSet(f, S) = F[S]
    BY SumValue
  <1>. QED
    BY <1>1, SumsAreNat

\* Where every value is zero, so is the sum.
LEMMA SumOfZeros ==
    ASSUME NEW S, IsFiniteSet(S), NEW f, \A x \in S : f[x] = 0
    PROVE  SumFunctionOnSet(f, S) = 0
  <1>1. PICK F : IsSum(F, f, S) /\ SumFunctionOnSet(f, S) = F[S]
    BY SumValue
  <1> DEFINE Bad == {T \in SUBSET S : F[T] # 0}
  <1> SUFFICES ASSUME Bad # {} PROVE FALSE
    BY <1>1
  <1>2. PICK T \in Bad : \A U \in Bad : U \subseteq T => U = T
    <2>1. Bad \subseteq SUBSET S
      OBVIOUS
    <2> HIDE DEF Bad
    <2>. QED
      BY <2>1, SmallestSubset
  <1>3. T \in SUBSET S /\ F[T] # 0
    BY <1>2
  <1>4. T # {}
    BY <1>1, <1>3, SumAt
  <1> DEFINE U == T \ {First(T)}
  <1>5. U \in SUBSET S /\ U \subseteq T /\ U # T
    BY <1>3, <1>4, RestSmaller
  <1>6. F[U] = 0
    BY <1>2, <1>5
  <1>7. F[T] = f[First(T)] + F[U] /\ f[First(T)] = 0
    BY <1>1, <1>3, <1>4, SumAt, FirstIn
  <1>. QED
    BY <1>3, <1>6, <1>7

\* Two functions that differ at x only have sums that differ by as much.
LEMMA SumChange ==
    ASSUME NEW S, IsFiniteSet(S), NEW x \in S,
           NEW f, \A y \in S : f[y] \in Nat,
           NEW g, \A y \in S : g[y] \in Nat,
           \A y \in S \ {x} : f[y] = g[y]
    PROVE  SumFunctionOnSet(g, S) + f[x] = SumFunctionOnSet(f, S) + g[x]
  <1>1. PICK F : IsSum(F, f, S) /\ SumFunctionOnSet(f, S) = F[S]
    BY SumValue
  <1>2. PICK G : IsSum(G, g, S) /\ SumFunctionOnSet(g, S) = G[S]
    BY SumValue
  <1>3. \A T \in SUBSET S : F[T] \in Nat /\ G[T] \in Nat
    BY <1>1, <1>2, SumsAreNat
  <1> DEFINE Good(T) == IF x \in T THEN G[T] + f[x] = F[T] + g[x] ELSE G[T] = F[T]
             Bad == {T \in SUBSET S : ~Good(T)}
  <1> SUFFICES ASSUME Bad # {} PROVE FALSE
    BY <1>1, <1>2
  <1>4. PICK T \in Bad : \A U \in Bad : U \subseteq T => U = T
    <2>1. Bad \subseteq SUBSET S
      OBVIOUS
    <2> HIDE DEF Bad
    <2>. QED
      BY <2>1, SmallestSubset
  <1>5. T \in SUBSET S /\ ~Good(T)
    BY <1>4
  <1>6. T # {}
    BY <1>1, <1>2, <1>5, SumAt
  <1> DEFINE y == First(T)
             U == T \ {y}
  <1>7. U \in SUBSET S /\ U \subseteq T /\ U # T /\ y \in T /\ y \in S
    BY <1>5, <1>6, RestSmaller, FirstIn
  <1>8. Good(U)
    BY <1>4, <1>7
  <1>9. F[T] = f[y] + F[U] /\ G[T] = g[y] + G[U]
    BY <1>1, <1>2, <1>5, <1>6, SumAt
  <1>10. /\ F[U] \in Nat /\ G[U] \in Nat /\ f[y] \in Nat /\ g[y] \in Nat
         /\ f[x] \in Nat /\ g[x] \in Nat
    BY <1>3, <1>7
  <1>11. CASE y = x
    <2>1. G[U] = F[U]
      BY <1>8, <1>11
    <2> HIDE DEF U, y
    <2>. QED
      BY <1>5, <1>7, <1>9, <1>10, <1>11, <2>1
  <1>12. CASE y # x
    <2>1. f[y] = g[y] /\ (x \in U <=> x \in T)
      BY <1>7, <1>12
    <2> HIDE DEF U, y
    <2>. QED
      BY <1>5, <1>8, <1>9, <1>10, <2>1
  <1>. QED
    BY <1>11, <1>12

\* Functions that agree on S have the same sum over it.
LEMMA SumSame ==
    ASSUME NEW S, IsFiniteSet(S), NEW f, NEW g,
           \A y \in S : f[y] \in Nat /\ f[y] = g[y]
    PROVE  SumFunctionOnSet(g, S) = SumFunctionOnSet(f, S)
  <1>1. CASE S = {}
    BY <1>1, SumOfZeros
  <1>2. CASE S # {}
    <2>1. PICK x \in S : TRUE
      BY <1>2
    <2>2. SumFunctionOnSet(g, S) + f[x] = SumFunctionOnSet(f, S) + g[x]
      BY <2>1, SumChange
    <2>3. SumFunctionOnSet(g, S) \in Nat /\ SumFunctionOnSet(f, S) \in Nat
      BY SumType
    <2>. QED
      BY <2>1, <2>2, <2>3
  <1>. QED
    BY <1>1, <1>2
=============================================================================
