---------------------------- MODULE LedgerProofs ----------------------------
(***************************************************************************)
(* The books of the precompiles, for any accounts, amounts and numbers of  *)
(* calls: the task registry, the 2WAY vault and the stability pool, the    *)
(* SWAY token with the swap route and the trustless lock, and progressive  *)
(* staking.                                                                *)
(*                                                                         *)
(* Their properties are about sums of balances over finite sets of         *)
(* accounts.  The first part proves what is needed of such sums, by        *)
(* induction on the size of the set; the induction is the one over a well- *)
(* founded relation, applied to a set instead of a predicate.              *)
(*                                                                         *)
(* Each specification is proved about by itself: no theorem is about two.  *)
(***************************************************************************)
EXTENDS TaskRegistry, TwoWay, SwapRoute, Staking, FiniteSetTheorems, WellFoundedInduction, TLAPS

-----------------------------------------------------------------------------
(* Induction and sums. *)

\* A set of naturals with 0 and with the successors of its members is Nat.
LEMMA SetInduction ==
  ASSUME NEW A \in SUBSET Nat, 0 \in A, \A n \in A : n + 1 \in A
  PROVE  A = Nat
<1> DEFINE B == Nat \ A
           R == OpToRel(<, Nat)
<1>1. SUFFICES ASSUME B # {} PROVE FALSE
  OBVIOUS
<1>2. PICK x \in B : \A y \in B : ~(<<y, x>> \in R)
  <2> HIDE DEF R
  <2>1. IsWellFoundedOn(R, Nat)
    BY NatLessThanWellFounded DEF R
  <2> QED BY <1>1, <2>1, WFMin
<1>3. x - 1 \in B
  OBVIOUS
<1>4. <<x - 1, x>> \in R
  BY <1>3 DEF OpToRel
<1> QED BY <1>2, <1>3, <1>4

\* A family of subsets that has T whenever it has T without any one member has them all.
LEMMA FiniteInduction ==
  ASSUME NEW S, IsFiniteSet(S), NEW A \in SUBSET (SUBSET S), {} \in A,
         \A T \in SUBSET S : T # {} /\ (\A x \in T : T \ {x} \in A) => T \in A
  PROVE  A = SUBSET S
<1> DEFINE C == {n \in Nat : \A T \in SUBSET S : Cardinality(T) = n => T \in A}
<1>1. 0 \in C
  BY FS_EmptySet, FS_Subset
<1>2. ASSUME NEW n \in C PROVE n + 1 \in C
  <2> SUFFICES ASSUME NEW T \in SUBSET S, Cardinality(T) = n + 1 PROVE T \in A
    OBVIOUS
  <2>1. IsFiniteSet(T)
    BY FS_Subset
  <2>2. T # {}
    BY <2>1, FS_EmptySet
  <2>3. ASSUME NEW x \in T PROVE T \ {x} \in A
    <3>1. Cardinality(T \ {x}) = Cardinality(T) - 1
      BY <2>1, FS_RemoveElement
    <3> QED BY <3>1, n + 1 - 1 = n
  <2> QED BY <2>2, <2>3
<1>3. C = Nat
  <2> HIDE DEF C
  <2>1. C \in SUBSET Nat
    BY DEF C
  <2> QED BY <1>1, <1>2, <2>1, SetInduction
<1> QED
  <2>1. \A T \in SUBSET S : Cardinality(T) \in Nat
    BY FS_Subset, FS_CardinalityType
  <2> QED BY <1>3, <2>1

-----------------------------------------------------------------------------
Pick(s) == CHOOSE x \in s : TRUE

Sums(g, f, D) ==
    g = [s \in D |-> IF s = {} THEN 0 ELSE f[Pick(s)] + g[s \ {Pick(s)}]]

SumOfSubsets(f, S) == CHOOSE g : Sums(g, f, SUBSET S)

\* The library's sum is the value, for the whole set, of a function on its subsets.
LEMMA SumUnfolds ==
  ASSUME NEW f, NEW S
  PROVE  SumFunctionOnSet(f, S) = SumOfSubsets(f, S)[S]
BY DEF SumFunctionOnSet, FoldFunctionOnSet, MapThenFoldSet, SumOfSubsets, Sums, Pick

\* What is picked from a set is in it.
LEMMA PickIn ==
  ASSUME NEW s, s # {}
  PROVE  Pick(s) \in s
BY DEF Pick

\* That function exists, by induction on the size of the subsets.
LEMMA SumsExist ==
  ASSUME NEW S, IsFiniteSet(S), NEW f
  PROVE  Sums(SumOfSubsets(f, S), f, SUBSET S)
<1> DEFINE OfSize(n) == {s \in SUBSET S : Cardinality(s) <= n}
           C == {n \in Nat : \E g : Sums(g, f, OfSize(n))}
<1>1. 0 \in C
  <2> DEFINE g == [s \in OfSize(0) |-> 0]
  <2>1. \A s \in OfSize(0) : s = {}
    BY FS_Subset, FS_EmptySet, FS_CardinalityType
  <2>2. Sums(g, f, OfSize(0))
    BY <2>1 DEF Sums
  <2> QED BY <2>2
<1>2. ASSUME NEW n \in C PROVE n + 1 \in C
  <2>1. PICK g : Sums(g, f, OfSize(n))
    OBVIOUS
  <2> DEFINE h == [s \in OfSize(n + 1) |->
                      IF s = {} THEN 0 ELSE f[Pick(s)] + g[s \ {Pick(s)}]]
  <2>2. OfSize(n) \subseteq OfSize(n + 1)
    BY FS_Subset, FS_CardinalityType
  <2>3. ASSUME NEW s \in OfSize(n + 1), s # {} PROVE s \ {Pick(s)} \in OfSize(n)
    <3>1. IsFiniteSet(s) /\ Cardinality(s) \in Nat
      BY FS_Subset, FS_CardinalityType
    <3>2. Cardinality(s \ {Pick(s)}) = Cardinality(s) - 1
      BY <3>1, <2>3, PickIn, FS_RemoveElement
    <3> QED BY <3>1, <3>2
  <2>4. ASSUME NEW s \in OfSize(n) PROVE h[s] = g[s]
    <3> HIDE DEF OfSize
    <3> QED BY <2>1, <2>2 DEF Sums
  <2>5. Sums(h, f, OfSize(n + 1))
    <3> HIDE DEF OfSize
    <3>1. \A s \in OfSize(n + 1) : s # {} => h[s \ {Pick(s)}] = g[s \ {Pick(s)}]
      BY <2>3, <2>4
    <3> QED BY <3>1 DEF Sums
  <2> HIDE DEF h, OfSize
  <2> QED BY <2>5
<1>3. C = Nat
  <2> HIDE DEF C
  <2>1. C \in SUBSET Nat
    BY DEF C
  <2> QED BY <1>1, <1>2, <2>1, SetInduction
<1>4. Cardinality(S) \in Nat
  BY FS_CardinalityType
<1>5. OfSize(Cardinality(S)) = SUBSET S
  BY <1>4, FS_Subset
<1>6. \E g : Sums(g, f, SUBSET S)
  <2>1. PICK g : Sums(g, f, OfSize(Cardinality(S)))
    BY <1>3, <1>4
  <2> QED BY <1>5, <2>1
<1> QED BY <1>6 DEF SumOfSubsets

\* Functions for two sets agree on the subsets of both.
LEMMA SumsAgree ==
  ASSUME NEW S, IsFiniteSet(S), NEW T \in SUBSET S, NEW f, NEW g, NEW h,
         Sums(g, f, SUBSET S), Sums(h, f, SUBSET T)
  PROVE  \A s \in SUBSET T : g[s] = h[s]
<1> DEFINE A == {s \in SUBSET T : g[s] = h[s]}
<1>1. {} \in A
  BY DEF Sums
<1>2. ASSUME NEW s \in SUBSET T, s # {}, \A x \in s : s \ {x} \in A
      PROVE  s \in A
  <2>1. Pick(s) \in s
    BY <1>2, PickIn
  <2>2. g[s \ {Pick(s)}] = h[s \ {Pick(s)}]
    BY <1>2, <2>1
  <2>3. g[s] = f[Pick(s)] + g[s \ {Pick(s)}]
    BY <1>2 DEF Sums
  <2>4. h[s] = f[Pick(s)] + h[s \ {Pick(s)}]
    BY <1>2 DEF Sums
  <2> QED BY <2>2, <2>3, <2>4
<1>3. A = SUBSET T
  <2> HIDE DEF A
  <2>1. A \in SUBSET (SUBSET T) /\ IsFiniteSet(T)
    BY FS_Subset DEF A
  <2> QED BY <1>1, <1>2, <2>1, FiniteInduction
<1> QED BY <1>3

\* The sum over a subset is a value of the function of the whole set.
LEMMA SumOfSubset ==
  ASSUME NEW S, IsFiniteSet(S), NEW T \in SUBSET S, NEW f
  PROVE  SumFunctionOnSet(f, T) = SumOfSubsets(f, S)[T]
<1>1. IsFiniteSet(T)
  BY FS_Subset
<1>2. Sums(SumOfSubsets(f, S), f, SUBSET S) /\ Sums(SumOfSubsets(f, T), f, SUBSET T)
  BY <1>1, SumsExist
<1>3. SumOfSubsets(f, S)[T] = SumOfSubsets(f, T)[T]
  BY <1>2, SumsAgree, SMTT(30)
<1> QED BY <1>3, SumUnfolds

\* The sum of nothing is zero.
LEMMA SumEmpty ==
  ASSUME NEW f
  PROVE  SumFunctionOnSet(f, {}) = 0
<1>1. Sums(SumOfSubsets(f, {}), f, SUBSET {})
  BY FS_EmptySet, SumsExist
<1>2. SumOfSubsets(f, {})[{}] = 0
  BY <1>1 DEF Sums
<1> QED BY <1>2, SumUnfolds

\* A sum of integers is an integer.
LEMMA SumInt ==
  ASSUME NEW S, IsFiniteSet(S), NEW f, \A x \in S : f[x] \in Int
  PROVE  \A T \in SUBSET S : SumFunctionOnSet(f, T) \in Int
<1> DEFINE g == SumOfSubsets(f, S)
           A == {s \in SUBSET S : g[s] \in Int}
<1>1. Sums(g, f, SUBSET S)
  BY SumsExist
<1> HIDE DEF g
<1>2. {} \in A
  BY <1>1 DEF Sums
<1>3. ASSUME NEW s \in SUBSET S, s # {}, \A y \in s : s \ {y} \in A
      PROVE  s \in A
  <2>1. Pick(s) \in s
    BY <1>3, PickIn
  <2>2. g[s] = f[Pick(s)] + g[s \ {Pick(s)}]
    BY <1>1, <1>3 DEF Sums
  <2>3. f[Pick(s)] \in Int /\ g[s \ {Pick(s)}] \in Int
    BY <1>3, <2>1
  <2>4. f[Pick(s)] + g[s \ {Pick(s)}] \in Int
    BY <2>3
  <2> QED BY <2>2, <2>4
<1>4. A = SUBSET S
  <2> HIDE DEF A
  <2>1. A \in SUBSET (SUBSET S)
    BY DEF A
  <2> QED BY <1>2, <1>3, <2>1, FiniteInduction
<1> QED BY <1>4, SumOfSubset DEF g

\* Any member may be taken out of a sum.
LEMMA SumRemove ==
  ASSUME NEW S, IsFiniteSet(S), NEW f, \A x \in S : f[x] \in Int, NEW x \in S
  PROVE  SumFunctionOnSet(f, S) = f[x] + SumFunctionOnSet(f, S \ {x})
<1> DEFINE g == SumOfSubsets(f, S)
           A == {s \in SUBSET S : \A y \in s : g[s] = f[y] + g[s \ {y}]}
<1>1. Sums(g, f, SUBSET S)
  BY SumsExist
<1>2. \A s \in SUBSET S : g[s] \in Int
  BY SumInt, SumOfSubset
<1> HIDE DEF g
<1>3. {} \in A
  OBVIOUS
<1>4. ASSUME NEW s \in SUBSET S, s # {}, \A y \in s : s \ {y} \in A
      PROVE  s \in A
  <2> DEFINE p == Pick(s)
  <2>1. p \in s
    BY <1>4, PickIn
  <2>2. g[s] = f[p] + g[s \ {p}]
    BY <1>1, <1>4 DEF Sums
  <2> HIDE DEF p
  <2>3. ASSUME NEW y \in s, y # p PROVE g[s] = f[y] + g[s \ {y}]
    <3>1. g[s \ {p}] = f[y] + g[(s \ {p}) \ {y}]
      BY <1>4, <2>1, <2>3
    <3>2. g[s \ {y}] = f[p] + g[(s \ {y}) \ {p}]
      BY <1>4, <2>1, <2>3
    <3>3. (s \ {p}) \ {y} = (s \ {y}) \ {p}
      OBVIOUS
    <3> DEFINE c == g[(s \ {p}) \ {y}]
               a == f[p]
               b == f[y]
    <3>4. c \in Int /\ a \in Int /\ b \in Int
      BY <1>2, <2>1
    <3>5. g[s] = a + (b + c) /\ g[s \ {y}] = a + c
      BY <2>2, <3>1, <3>2, <3>3
    <3>6. a + (b + c) = b + (a + c)
      <4> HIDE DEF a, b, c
      <4> QED BY <3>4
    <3> QED BY <3>5, <3>6
  <2> QED BY <2>2, <2>3
<1>5. A = SUBSET S
  <2> HIDE DEF A
  <2>1. A \in SUBSET (SUBSET S)
    BY DEF A
  <2> QED BY <1>3, <1>4, <2>1, FiniteInduction
<1>6. SumFunctionOnSet(f, S) = g[S] /\ SumFunctionOnSet(f, S \ {x}) = g[S \ {x}]
  BY SumOfSubset DEF g
<1> QED BY <1>5, <1>6

\* A sum depends on the values of the members only.
LEMMA SumSame ==
  ASSUME NEW S, IsFiniteSet(S), NEW f, NEW g,
         \A x \in S : f[x] \in Int /\ g[x] = f[x]
  PROVE  SumFunctionOnSet(g, S) = SumFunctionOnSet(f, S)
<1> DEFINE A == {T \in SUBSET S : SumFunctionOnSet(g, T) = SumFunctionOnSet(f, T)}
<1>1. {} \in A
  BY SumEmpty
<1>2. ASSUME NEW T \in SUBSET S, T # {}, \A x \in T : T \ {x} \in A
      PROVE  T \in A
  <2>1. PICK x \in T : TRUE
    BY <1>2
  <2>2. IsFiniteSet(T) /\ \A y \in T : f[y] \in Int /\ g[y] \in Int
    BY FS_Subset
  <2>3. SumFunctionOnSet(g, T) = g[x] + SumFunctionOnSet(g, T \ {x})
    BY <2>2, SumRemove
  <2>4. SumFunctionOnSet(f, T) = f[x] + SumFunctionOnSet(f, T \ {x})
    BY <2>2, SumRemove
  <2> QED BY <1>2, <2>3, <2>4
<1>3. A = SUBSET S
  <2> HIDE DEF A
  <2>1. A \in SUBSET (SUBSET S)
    BY DEF A
  <2> QED BY <1>1, <1>2, <2>1, FiniteInduction
<1> QED BY <1>3

\* Changing one value changes the sum by the difference.
LEMMA SumChanged ==
  ASSUME NEW S, IsFiniteSet(S), NEW f \in [S -> Int], NEW g \in [S -> Int], NEW x \in S,
         \A y \in S : y # x => g[y] = f[y]
  PROVE  /\ SumFunctionOnSet(f, S) \in Int
         /\ SumFunctionOnSet(g, S) = SumFunctionOnSet(f, S) - f[x] + g[x]
<1> DEFINE R == S \ {x}
<1>1. IsFiniteSet(R) /\ SumFunctionOnSet(f, R) \in Int /\ SumFunctionOnSet(f, S) \in Int
  BY SumInt, FS_Subset
<1>2. SumFunctionOnSet(g, R) = SumFunctionOnSet(f, R)
  <2>1. \A y \in R : f[y] \in Int /\ g[y] = f[y]
    OBVIOUS
  <2> HIDE DEF R
  <2> QED BY <1>1, <2>1, SumSame
<1>3. SumFunctionOnSet(g, S) = g[x] + SumFunctionOnSet(g, R)
  BY SumRemove
<1>4. SumFunctionOnSet(f, S) = f[x] + SumFunctionOnSet(f, R)
  BY SumRemove
<1>5. f[x] \in Int /\ g[x] \in Int
  OBVIOUS
<1> HIDE DEF R
<1> QED BY <1>1, <1>2, <1>3, <1>4, <1>5

\* A sum of naturals is a natural, and no member is larger.
LEMMA SumNat ==
  ASSUME NEW S, IsFiniteSet(S), NEW f, \A x \in S : f[x] \in Nat
  PROVE  /\ SumFunctionOnSet(f, S) \in Nat
         /\ \A x \in S : f[x] <= SumFunctionOnSet(f, S)
<1> DEFINE A == {T \in SUBSET S : SumFunctionOnSet(f, T) \in Nat}
<1>1. {} \in A
  BY SumEmpty
<1>2. ASSUME NEW T \in SUBSET S, T # {}, \A x \in T : T \ {x} \in A
      PROVE  T \in A
  <2>1. PICK x \in T : TRUE
    BY <1>2
  <2>2. IsFiniteSet(T) /\ \A y \in T : f[y] \in Int
    BY FS_Subset
  <2>3. SumFunctionOnSet(f, T) = f[x] + SumFunctionOnSet(f, T \ {x})
    BY <2>2, SumRemove
  <2>4. f[x] \in Nat /\ SumFunctionOnSet(f, T \ {x}) \in Nat
    BY <1>2
  <2> QED BY <2>3, <2>4
<1>3. A = SUBSET S
  <2> HIDE DEF A
  <2>1. A \in SUBSET (SUBSET S)
    BY DEF A
  <2> QED BY <1>1, <1>2, <2>1, FiniteInduction
<1>4. ASSUME NEW x \in S PROVE f[x] <= SumFunctionOnSet(f, S)
  <2>1. SumFunctionOnSet(f, S \ {x}) \in Nat
    BY <1>3
  <2>2. SumFunctionOnSet(f, S) = f[x] + SumFunctionOnSet(f, S \ {x})
    BY SumRemove
  <2> QED BY <2>1, <2>2
<1> QED BY <1>3, <1>4

\* A sum of zeros is zero.
LEMMA SumZero ==
  ASSUME NEW S, IsFiniteSet(S), NEW f, \A x \in S : f[x] = 0
  PROVE  SumFunctionOnSet(f, S) = 0
<1> DEFINE A == {T \in SUBSET S : SumFunctionOnSet(f, T) = 0}
<1>1. {} \in A
  BY SumEmpty
<1>2. ASSUME NEW T \in SUBSET S, T # {}, \A x \in T : T \ {x} \in A
      PROVE  T \in A
  <2>1. PICK x \in T : TRUE
    BY <1>2
  <2>2. IsFiniteSet(T) /\ \A y \in T : f[y] \in Int
    BY FS_Subset
  <2>3. SumFunctionOnSet(f, T) = f[x] + SumFunctionOnSet(f, T \ {x})
    BY <2>2, SumRemove
  <2> QED BY <1>2, <2>3
<1>3. A = SUBSET S
  <2> HIDE DEF A
  <2>1. A \in SUBSET (SUBSET S)
    BY DEF A
  <2> QED BY <1>1, <1>2, <2>1, FiniteInduction
<1> QED BY <1>3

\* Sums are added member by member.
LEMMA SumAdd ==
  ASSUME NEW S, IsFiniteSet(S), NEW f, NEW g, NEW h,
         \A x \in S : f[x] \in Int /\ g[x] \in Int /\ h[x] = f[x] + g[x]
  PROVE  SumFunctionOnSet(h, S) = SumFunctionOnSet(f, S) + SumFunctionOnSet(g, S)
<1> DEFINE A == {T \in SUBSET S :
                   SumFunctionOnSet(h, T) = SumFunctionOnSet(f, T) + SumFunctionOnSet(g, T)}
<1>1. {} \in A
  BY SumEmpty
<1>2. ASSUME NEW T \in SUBSET S, T # {}, \A x \in T : T \ {x} \in A
      PROVE  T \in A
  <2>1. PICK x \in T : TRUE
    BY <1>2
  <2> DEFINE R == T \ {x}
  <2>2. /\ IsFiniteSet(T) /\ \A y \in T : f[y] \in Int
        /\ \A y \in T : g[y] \in Int
        /\ \A y \in T : h[y] \in Int
    BY FS_Subset
  <2>3. SumFunctionOnSet(f, T) = f[x] + SumFunctionOnSet(f, R)
    BY <2>2, SumRemove
  <2>4. SumFunctionOnSet(g, T) = g[x] + SumFunctionOnSet(g, R)
    BY <2>2, SumRemove
  <2>5. SumFunctionOnSet(h, T) = h[x] + SumFunctionOnSet(h, R)
    BY <2>2, SumRemove
  <2>6. SumFunctionOnSet(h, R) = SumFunctionOnSet(f, R) + SumFunctionOnSet(g, R)
    BY <1>2
  <2>7. R \in SUBSET S
    OBVIOUS
  <2>8. f[x] \in Int /\ g[x] \in Int /\ h[x] = f[x] + g[x]
    OBVIOUS
  <2> HIDE DEF R
  <2>9. SumFunctionOnSet(f, R) \in Int
    BY <2>7, SumInt
  <2>10. SumFunctionOnSet(g, R) \in Int
    BY <2>7, SumInt
  <2>11. SumFunctionOnSet(h, T) = SumFunctionOnSet(f, T) + SumFunctionOnSet(g, T)
    BY <2>3, <2>4, <2>5, <2>6, <2>8, <2>9, <2>10
  <2> QED BY <2>11
<1> HIDE DEF A
<1>3. A \in SUBSET (SUBSET S)
  BY DEF A
<1>4. A = SUBSET S
  BY <1>1, <1>2, <1>3, FiniteInduction
<1> QED BY <1>4 DEF A

\* A bound of every member, both sides scaled, is a bound of the sum.
LEMMA SumScaledBound ==
  ASSUME NEW S, IsFiniteSet(S), NEW f, NEW g, NEW k \in Int, NEW a \in Int,
         \A x \in S : f[x] \in Int /\ g[x] \in Int /\ k * f[x] <= a * g[x]
  PROVE  k * SumFunctionOnSet(f, S) <= a * SumFunctionOnSet(g, S)
<1> DEFINE A == {T \in SUBSET S : k * SumFunctionOnSet(f, T) <= a * SumFunctionOnSet(g, T)}
<1>0. k * 0 = 0 /\ a * 0 = 0 /\ \A m, x, y \in Int : m * (x + y) = m * x + m * y
  OBVIOUS
<1>1. {} \in A
  BY <1>0, SumEmpty
<1>2. ASSUME NEW T \in SUBSET S, T # {}, \A x \in T : T \ {x} \in A
      PROVE  T \in A
  <2>1. PICK x \in T : TRUE
    BY <1>2
  <2> DEFINE R == T \ {x}
  <2>2. /\ IsFiniteSet(T) /\ \A y \in T : f[y] \in Int
        /\ \A y \in T : g[y] \in Int
    BY FS_Subset
  <2>3. SumFunctionOnSet(f, T) = f[x] + SumFunctionOnSet(f, R)
    BY <2>2, SumRemove
  <2>4. SumFunctionOnSet(g, T) = g[x] + SumFunctionOnSet(g, R)
    BY <2>2, SumRemove
  <2>5. k * SumFunctionOnSet(f, R) <= a * SumFunctionOnSet(g, R)
    BY <1>2
  <2>6. R \in SUBSET S
    OBVIOUS
  <2>7. f[x] \in Int /\ g[x] \in Int /\ k * f[x] <= a * g[x]
    OBVIOUS
  <2> HIDE DEF R
  <2>8. SumFunctionOnSet(f, R) \in Int
    BY <2>6, SumInt
  <2>9. SumFunctionOnSet(g, R) \in Int
    BY <2>6, SumInt
  <2>10. k * SumFunctionOnSet(f, T) = k * f[x] + k * SumFunctionOnSet(f, R)
    BY <1>0, <2>3, <2>7, <2>8
  <2>11. a * SumFunctionOnSet(g, T) = a * g[x] + a * SumFunctionOnSet(g, R)
    BY <1>0, <2>4, <2>7, <2>9
  <2>12. /\ k * f[x] \in Int /\ k * SumFunctionOnSet(f, R) \in Int
         /\ a * g[x] \in Int /\ a * SumFunctionOnSet(g, R) \in Int
    BY <2>7, <2>8, <2>9
  <2>13. k * SumFunctionOnSet(f, T) <= a * SumFunctionOnSet(g, T)
    BY <2>5, <2>7, <2>10, <2>11, <2>12
  <2> QED BY <2>13
<1> HIDE DEF A
<1>3. A \in SUBSET (SUBSET S)
  BY DEF A
<1>4. A = SUBSET S
  BY <1>1, <1>2, <1>3, FiniteInduction
<1> QED BY <1>4 DEF A

-----------------------------------------------------------------------------
(* The 2WAY vault and the stability pool. *)

\* reduceTotalDebt and its kin give a natural, and take no more than they are asked.
LEMMA LessNat ==
  ASSUME NEW n \in Nat, NEW m \in Nat
  PROVE  Less(n, m) \in Nat /\ Less(n, m) <= n /\ n - m <= Less(n, m)
BY DEF Less

\* The fee of a mint is a natural number.
LEMMA FeeNat ==
  ASSUME NEW n \in VaultAmounts, NEW s \in Coins
  PROVE  ProtocolFee(n, s) \in Nat
<1>1. n \in Nat /\ FeeBps[s] \in Nat
  BY TwoWayAssumptions
<1>2. n * FeeBps[s] \in Nat
  BY <1>1
<1>3. ASSUME NEW x \in Nat PROVE x \div 10000 \in Nat
  OBVIOUS
<1> QED BY <1>2, <1>3 DEF ProtocolFee

\* Half and the other half of a reward make up the reward.
LEMMA BookRewardsAdd ==
  ASSUME VaultTypeOK, NEW n \in Nat, BookRewards(n)
  PROVE  /\ wayRewards' \in Nat /\ swayRewards' \in Nat /\ totalRewards' \in Nat
         /\ wayRewards + swayRewards = totalRewards => wayRewards' + swayRewards' = totalRewards'
BY DEF BookRewards, VaultTypeOK

\* Every call of the vault and the pool keeps the types.
LEMMA TwoWayTypeStep ==
  ASSUME VaultTypeOK, VaultNext
  PROVE  VaultTypeOK'
<1> USE TwoWayAssumptions
<1>0. VaultCall => vaultCalls' \in Nat
  BY DEF VaultCall, VaultTypeOK
<1>1. ASSUME NEW v \in Vaults, NEW s \in Coins, NEW n \in Collaterals,
             VaultDeposit(v, s, n) \/ VaultWithdraw(v, s, n)
      PROVE  VaultTypeOK'
  <2>1. coll' \in [Vaults -> [Coins -> Nat \cup {NoColl}]]
    <3>1. Prefix[v] \in Vaults /\ n \in Nat
      OBVIOUS
    <3>2. CASE VaultDeposit(v, s, n)
      BY <3>1, <3>2 DEF VaultDeposit, VaultTypeOK
    <3>3. CASE VaultWithdraw(v, s, n)
      <4>1. coll[Prefix[v]] \in [Coins -> Nat \cup {NoColl}]
        BY <3>1 DEF VaultTypeOK
      <4>2. coll[Prefix[v]][s] - n \in Nat
        BY <3>1, <3>3, <4>1 DEF VaultWithdraw, Held, Coll
      <4>3. [coll[Prefix[v]] EXCEPT ![s] = @ - n] \in [Coins -> Nat \cup {NoColl}]
        BY <4>1, <4>2
      <4> QED BY <3>1, <3>3, <4>3 DEF VaultWithdraw, Coll, VaultTypeOK
    <3> QED BY <1>1, <3>2, <3>3
  <2> QED BY <1>0, <1>1, <2>1
        DEF VaultDeposit, VaultWithdraw, VaultTypeOK, rewards, pool
<1>2. ASSUME NEW u \in Users, NEW v \in Vaults, NEW n \in VaultAmounts, Burn(u, v, n)
      PROVE  VaultTypeOK'
  <2>1. /\ debt' \in [Vaults -> Nat] /\ totalDebt' \in Nat
        /\ minted' \in [Users -> Nat]
    BY <1>2, LessNat DEF Burn, VaultTypeOK, LessDebt
  <2> QED BY <1>0, <1>2, <2>1 DEF Burn, VaultTypeOK, rewards
<1>3. ASSUME NEW u \in Users, NEW v \in Vaults, NEW n \in VaultAmounts, NEW s \in Coins,
             Mint(u, v, n, s)
      PROVE  VaultTypeOK'
  <2>1. ProtocolFee(n, s) \in Nat
    BY FeeNat
  <2>2. BookRewards(ProtocolFee(n, s))
    BY <1>3 DEF Mint
  <2>3. wayRewards' \in Nat /\ swayRewards' \in Nat /\ totalRewards' \in Nat
    BY <2>1, <2>2, BookRewardsAdd
  <2>4. lpFee' \in [Users -> Nat] /\ booked' \in [Users -> Nat]
    BY <1>3, <2>1 DEF Mint, VaultTypeOK
  <2>5. \/ /\ debt' = [debt EXCEPT ![v] = @ + n] /\ totalDebt' = totalDebt + n
           /\ minted' = [minted EXCEPT ![u] = @ + n]
        \/ UNCHANGED <<debt, totalDebt, minted>>
    BY <1>3 DEF Mint
  <2>6. debt' \in [Vaults -> Nat] /\ totalDebt' \in Nat /\ minted' \in [Users -> Nat]
    <3>1. n \in Nat
      OBVIOUS
    <3>2. /\ [debt EXCEPT ![v] = @ + n] \in [Vaults -> Nat] /\ totalDebt + n \in Nat
          /\ [minted EXCEPT ![u] = @ + n] \in [Users -> Nat]
      BY <3>1 DEF VaultTypeOK
    <3> QED BY <2>5, <3>2, Zenon DEF VaultTypeOK
  <2> QED BY <1>0, <1>3, <2>3, <2>4, <2>6 DEF Mint, VaultTypeOK
<1>4. ASSUME NEW v \in Vaults, Liquidate(v)
      PROVE  VaultTypeOK'
  <2>1. debt' \in [Vaults -> Nat] /\ totalDebt' \in Nat
    BY <1>4, LessNat DEF Liquidate, VaultTypeOK, LessDebt
  <2> QED BY <1>0, <1>4, <2>1 DEF Liquidate, VaultTypeOK, rewards, pool
<1>5. ASSUME NEW v \in Vaults, Absorb(v)
      PROVE  VaultTypeOK'
  <2>1. debt[v] \in Nat /\ (debt[v] * 1000) \div 10000 \in Nat
    BY DEF VaultTypeOK
  <2>2. twoWayBalance' \in Nat
    BY <1>5, <2>1 DEF Absorb, VaultTypeOK
  <2>3. wayRewards' \in Nat /\ swayRewards' \in Nat /\ totalRewards' \in Nat
    BY <1>5, <2>1, BookRewardsAdd DEF Absorb, VaultTypeOK
  <2> QED BY <1>0, <1>5, <2>2, <2>3 DEF Absorb, VaultTypeOK, vault
<1>6. ASSUME NEW u \in Users, NEW s \in Coins, NEW p \in Prices, SetPrice(u, s, p)
      PROVE  VaultTypeOK'
  BY <1>0, <1>6 DEF SetPrice, VaultTypeOK, rewards, pool
<1>7. ASSUME NEW u \in Users, NEW n \in VaultAmounts, PoolDeposit(u, n)
      PROVE  VaultTypeOK'
  <2>1. dep' \in [Users -> Nat] /\ totalDeposits' \in Nat /\ twoWayBalance' \in Nat
    BY <1>7 DEF PoolDeposit, VaultTypeOK
  <2> QED BY <1>0, <1>7, <2>1 DEF PoolDeposit, VaultTypeOK, vault, rewards
<1>8. ASSUME NEW u \in Users, NEW n \in VaultAmounts, PoolWithdraw(u, n)
      PROVE  VaultTypeOK'
  <2>1. dep' \in [Users -> Nat] /\ totalDeposits' \in Nat /\ twoWayBalance' \in Nat
    BY <1>8 DEF PoolWithdraw, WriteSlot, VaultTypeOK
  <2> QED BY <1>0, <1>8, <2>1 DEF PoolWithdraw, VaultTypeOK, vault, rewards
<1>9. ASSUME NEW u \in Users, ClaimRewards(u)
      PROVE  VaultTypeOK'
  <2>1. lpFee' \in [Users -> Nat] /\ claimed' \in [Users -> Nat]
    BY <1>9 DEF ClaimRewards, FeesAfterClaim, VaultTypeOK
  <2> QED BY <1>0, <1>9, <2>1 DEF ClaimRewards, VaultTypeOK, vault, pool
<1> QED BY <1>1, <1>2, <1>3, <1>4, <1>5, <1>6, <1>7, <1>8, <1>9 DEF VaultNext

\* The variables of the two precompiles keep their types.
THEOREM TwoWayTypeCorrect == VaultSpec => []VaultTypeOK
<1>1. VaultInit => VaultTypeOK
  BY DEF VaultInit, VaultTypeOK, NoColl
<1>2. VaultTypeOK /\ UNCHANGED vaultVars => VaultTypeOK'
  BY DEF VaultTypeOK, vaultVars, vault, rewards, pool
<1>3. VaultTypeOK /\ [VaultNext]_vaultVars => VaultTypeOK'
  BY <1>2, TwoWayTypeStep
<1> QED BY <1>1, <1>3, PTL DEF VaultSpec

\* Nobody mints with a deposit in the pool or deposits with a debt, in whatever
\* order mints, burns, deposits and withdrawals come.
THEOREM MintersDoNotDeposit == VaultSpec => []Exclusive
<1>1. VaultInit => Exclusive
  BY DEF VaultInit, Exclusive
<1>2. VaultTypeOK /\ Exclusive /\ [VaultNext]_vaultVars => Exclusive'
  <2> SUFFICES ASSUME VaultTypeOK, Exclusive, [VaultNext]_vaultVars PROVE Exclusive'
    OBVIOUS
  <2>0. VaultAmounts \subseteq Nat
    BY TwoWayAssumptions
  <2>1. ASSUME NEW u \in Users, NEW v \in Vaults, NEW n \in VaultAmounts, Burn(u, v, n)
        PROVE  Exclusive'
    <3>1. Less(0, n) = 0
      BY <2>0 DEF Less
    <3> QED BY <2>1, <3>1 DEF Burn, Exclusive, VaultTypeOK
  <2>2. ASSUME NEW u \in Users, NEW v \in Vaults, NEW n \in VaultAmounts, NEW s \in Coins,
               Mint(u, v, n, s)
        PROVE  Exclusive'
    <3>1. dep[u] = 0 /\ dep' = dep
      BY <2>2 DEF Mint, MayMintDebt
    <3>2. minted' = [minted EXCEPT ![u] = @ + n] \/ minted' = minted
      BY <2>2 DEF Mint
    <3> QED BY <3>1, <3>2 DEF Exclusive, VaultTypeOK
  <2>3. ASSUME NEW u \in Users, NEW n \in VaultAmounts, PoolDeposit(u, n) PROVE Exclusive'
    BY <2>3 DEF PoolDeposit, Exclusive, VaultTypeOK
  <2>4. ASSUME NEW u \in Users, NEW n \in VaultAmounts, PoolWithdraw(u, n) PROVE Exclusive'
    <3>1. dep' = [dep EXCEPT ![u] = @ - n] /\ minted' = minted /\ n > 0 /\ n <= dep[u]
      BY <2>4 DEF PoolWithdraw
    <3> QED BY <2>0, <3>1 DEF Exclusive, VaultTypeOK
  <2>5. CASE UNCHANGED <<dep, minted>>
    BY <2>5 DEF Exclusive
  <2> QED
    BY <2>1, <2>2, <2>3, <2>4, <2>5, ZenonT(60) DEF VaultNext, VaultDeposit, VaultWithdraw,
       Liquidate, Absorb, SetPrice, ClaimRewards, vaultVars, pool
<1> QED BY <1>1, <1>2, TwoWayTypeCorrect, PTL DEF VaultSpec

\* Users and vaults are finitely many.
LEMMA TwoWayFinite == IsFiniteSet(Users) /\ IsFiniteSet(Vaults)
BY TwoWayAssumptions

\* A call that takes from the total at least what it takes from one vault keeps the bound.
LEMMA DebtBoundStep ==
  ASSUME VaultTypeOK, TotalDebtBound, VaultTypeOK',
         NEW v \in Vaults, \A w \in Vaults : w # v => debt'[w] = debt[w],
         totalDebt' <= totalDebt - debt[v] + debt'[v] \/ totalDebt' = 0
  PROVE  TotalDebtBound'
<1>1. /\ IsFiniteSet(Vaults) /\ debt \in [Vaults -> Int] /\ debt' \in [Vaults -> Int]
      /\ debt[v] \in Nat /\ debt'[v] \in Nat /\ totalDebt' \in Nat
  BY TwoWayFinite DEF VaultTypeOK
<1>2. SumFunctionOnSet(debt', Vaults) = SumFunctionOnSet(debt, Vaults) - debt[v] + debt'[v]
  BY <1>1, SumChanged
<1>3. SumFunctionOnSet(debt, Vaults) \in Nat /\ debt[v] <= SumFunctionOnSet(debt, Vaults)
  BY <1>1, SumNat DEF VaultTypeOK
<1>4. totalDebt <= SumFunctionOnSet(debt, Vaults)
  BY DEF TotalDebtBound
<1>5. totalDebt' <= SumFunctionOnSet(debt', Vaults)
  BY <1>1, <1>2, <1>3, <1>4 DEF VaultTypeOK
<1> QED BY <1>5 DEF TotalDebtBound

\* The debt that is reported never exceeds what the vaults owe together, in
\* whatever order vaults are minted from, burnt too far and liquidated.
THEOREM DebtNotOverstated ==
  VaultSpec => []TotalDebtBound
<1>1. VaultInit => TotalDebtBound
  <2> SUFFICES ASSUME VaultInit PROVE TotalDebtBound
    OBVIOUS
  <2>1. SumFunctionOnSet(debt, Vaults) = 0
    BY TwoWayFinite, SumZero DEF VaultInit
  <2> QED BY <2>1 DEF VaultInit, TotalDebtBound
<1>2. VaultTypeOK /\ VaultTypeOK' /\ TotalDebtBound /\ [VaultNext]_vaultVars => TotalDebtBound'
  <2> SUFFICES ASSUME VaultTypeOK, VaultTypeOK', TotalDebtBound, [VaultNext]_vaultVars
               PROVE  TotalDebtBound'
    OBVIOUS
  <2>0. VaultAmounts \subseteq Nat
    BY TwoWayAssumptions
  <2>1. ASSUME NEW u \in Users, NEW v \in Vaults, NEW n \in VaultAmounts, Burn(u, v, n)
        PROVE  TotalDebtBound'
    <3>1. n \in Nat /\ debt[v] \in Nat /\ totalDebt \in Nat
      BY <2>0 DEF VaultTypeOK
    <3>2. debt' = [debt EXCEPT ![v] = Less(debt[v], n)] /\ totalDebt' = Less(totalDebt, n)
      BY <2>1 DEF Burn, LessDebt
    <3>3. Less(debt[v], n) \in Nat /\ totalDebt' \in Nat /\ debt[v] - n <= Less(debt[v], n)
      BY <3>1, <3>2, LessNat
    <3>4. totalDebt' = totalDebt - n \/ totalDebt' = 0
      BY <3>2 DEF Less
    <3>5. totalDebt' <= totalDebt - debt[v] + Less(debt[v], n) \/ totalDebt' = 0
      BY <3>1, <3>3, <3>4
    <3>6. debt'[v] = Less(debt[v], n) /\ \A w \in Vaults : w # v => debt'[w] = debt[w]
      BY <3>2 DEF VaultTypeOK
    <3> QED BY <3>5, <3>6, DebtBoundStep
  <2>2. ASSUME NEW u \in Users, NEW v \in Vaults, NEW n \in VaultAmounts, NEW s \in Coins,
               Mint(u, v, n, s)
        PROVE  TotalDebtBound'
    <3>1. n \in Nat /\ debt[v] \in Nat /\ totalDebt \in Nat
      BY <2>0 DEF VaultTypeOK
    <3>2. CASE debt' = [debt EXCEPT ![v] = @ + n] /\ totalDebt' = totalDebt + n
      <4>1. debt'[v] = debt[v] + n /\ \A w \in Vaults : w # v => debt'[w] = debt[w]
        BY <3>2 DEF VaultTypeOK
      <4>2. totalDebt' <= totalDebt - debt[v] + debt'[v]
        BY <3>1, <3>2, <4>1
      <4> QED BY <4>1, <4>2, DebtBoundStep
    <3>3. CASE UNCHANGED <<debt, totalDebt>>
      BY <3>3 DEF TotalDebtBound
    <3> QED BY <2>2, <3>2, <3>3 DEF Mint
  <2>3. ASSUME NEW v \in Vaults, Liquidate(v) PROVE TotalDebtBound'
    <3>1. debt[v] \in Nat /\ totalDebt \in Nat
      BY DEF VaultTypeOK
    <3>2. debt' = [debt EXCEPT ![v] = 0] /\ totalDebt' = Less(totalDebt, debt[v])
      BY <2>3 DEF Liquidate, LessDebt
    <3>3. debt'[v] = 0 /\ \A w \in Vaults : w # v => debt'[w] = debt[w]
      BY <3>2 DEF VaultTypeOK
    <3>4. totalDebt' <= totalDebt - debt[v] + debt'[v] \/ totalDebt' = 0
      BY <3>1, <3>2, <3>3 DEF Less
    <3> QED BY <3>3, <3>4, DebtBoundStep
  <2>4. CASE UNCHANGED <<debt, totalDebt>>
    BY <2>4 DEF TotalDebtBound
  <2> QED
    BY <2>1, <2>2, <2>3, <2>4, ZenonT(60) DEF VaultNext, VaultDeposit, VaultWithdraw,
       Absorb, SetPrice, PoolDeposit, PoolWithdraw, ClaimRewards, vaultVars, vault
<1> QED BY <1>1, <1>2, TwoWayTypeCorrect, PTL DEF VaultSpec

\* Every call of the vault and the pool keeps the books.
LEMMA PoolBooksStep ==
  ASSUME VaultTypeOK, PoolBooks, VaultNext
  PROVE  PoolBooks'
<1> DEFINE Deposited == SumFunctionOnSet(dep, Users)
           D == totalDeposits = Deposited
           R == wayRewards + swayRewards = totalRewards
           F == \A u \in Users : booked[u] = claimed[u] + lpFee[u]
<1>0. VaultAmounts \subseteq Nat /\ IsFiniteSet(Users) /\ dep \in [Users -> Int]
  BY TwoWayFinite, TwoWayAssumptions DEF VaultTypeOK
<1>1. D /\ R /\ F
  BY DEF PoolBooks
<1>2. D' /\ R' /\ F' => PoolBooks'
  BY DEF PoolBooks
<1>3. UNCHANGED <<dep, totalDeposits>> => D'
  BY <1>1
<1>4. UNCHANGED <<wayRewards, swayRewards, totalRewards>> => R'
  BY <1>1
<1>5. UNCHANGED <<booked, claimed, lpFee>> => F'
  BY <1>1
<1>6. ASSUME NEW n \in Nat, BookRewards(n) PROVE R'
  BY <1>1, <1>6, BookRewardsAdd
<1>7. ASSUME NEW u \in Users, NEW v \in Vaults, NEW n \in VaultAmounts, NEW s \in Coins,
             Mint(u, v, n, s)
      PROVE  PoolBooks'
  <2>1. ProtocolFee(n, s) \in Nat
    BY FeeNat
  <2>2. R'
    BY <1>6, <1>7, <2>1 DEF Mint
  <2>3. F'
    BY <1>1, <1>7, <2>1 DEF Mint, VaultTypeOK
  <2>4. D'
    BY <1>3, <1>7 DEF Mint
  <2> QED BY <1>2, <2>2, <2>3, <2>4
<1>8. ASSUME NEW u \in Users, NEW n \in VaultAmounts, PoolDeposit(u, n) PROVE PoolBooks'
  <2>1. dep[u] + n \in Int /\ Deposited \in Nat /\ n \in Nat
    BY <1>0, SumNat DEF VaultTypeOK
  <2>2. SumFunctionOnSet(dep', Users) = Deposited - dep[u] + (dep[u] + n)
    <3>1. /\ dep' \in [Users -> Int] /\ dep'[u] = dep[u] + n
          /\ \A w \in Users : w # u => dep'[w] = dep[w]
      BY <1>0, <1>8, <2>1 DEF PoolDeposit
    <3>2. SumFunctionOnSet(dep', Users) = SumFunctionOnSet(dep, Users) - dep[u] + dep'[u]
      BY <1>0, <3>1, SumChanged
    <3> QED BY <3>1, <3>2
  <2>3. D'
    BY <1>0, <1>1, <1>8, <2>1, <2>2 DEF PoolDeposit
  <2> QED BY <1>2, <1>4, <1>5, <1>8, <2>3 DEF PoolDeposit, rewards
<1>9. ASSUME NEW u \in Users, NEW n \in VaultAmounts, PoolWithdraw(u, n) PROVE PoolBooks'
  <2>1. dep[u] - n \in Int /\ Deposited \in Nat /\ dep[u] <= Deposited /\ n \in Nat /\ n <= dep[u]
    BY <1>0, <1>9, SumNat DEF VaultTypeOK, PoolWithdraw
  <2>2. SumFunctionOnSet(dep', Users) = Deposited - dep[u] + (dep[u] - n)
    <3>1. /\ dep' \in [Users -> Int] /\ dep'[u] = dep[u] - n
          /\ \A w \in Users : w # u => dep'[w] = dep[w]
      BY <1>0, <1>9, <2>1 DEF PoolWithdraw
    <3>2. SumFunctionOnSet(dep', Users) = SumFunctionOnSet(dep, Users) - dep[u] + dep'[u]
      BY <1>0, <3>1, SumChanged
    <3> QED BY <3>1, <3>2
  <2>3. totalDeposits' = totalDeposits - n
    BY <1>0, <1>1, <1>9, <2>1 DEF PoolWithdraw, WriteSlot
  <2>4. D'
    BY <1>0, <1>1, <2>1, <2>2, <2>3
  <2> QED BY <1>2, <1>4, <1>5, <1>9, <2>4 DEF PoolWithdraw, rewards
<1>10. ASSUME NEW u \in Users, ClaimRewards(u) PROVE PoolBooks'
  <2>1. F'
    BY <1>1, <1>10 DEF ClaimRewards, FeesAfterClaim, VaultTypeOK
  <2>2. R'
    BY <1>10 DEF ClaimRewards
  <2> QED BY <1>2, <1>3, <1>10, <2>1, <2>2 DEF ClaimRewards, pool
<1>11. ASSUME NEW v \in Vaults, Absorb(v) PROVE PoolBooks'
  <2>1. (debt[v] * 1000) \div 10000 \in Nat
    BY DEF VaultTypeOK
  <2>2. R'
    BY <1>4, <1>6, <1>11, <2>1 DEF Absorb
  <2> QED BY <1>2, <1>3, <1>5, <1>11, <2>2 DEF Absorb
<1>12. CASE UNCHANGED <<dep, totalDeposits, rewards, booked, claimed>>
  BY <1>2, <1>3, <1>4, <1>5, <1>12 DEF rewards
<1> HIDE DEF D, R, F
<1> QED
  BY <1>7, <1>8, <1>9, <1>10, <1>11, <1>12 DEF VaultNext, VaultDeposit, VaultWithdraw,
     Liquidate, SetPrice, Burn, pool

\* The pool's total is the sum of its deposits, the two buckets make up the
\* rewards, and every mint fee has been claimed once or is still due.
THEOREM PoolBooksBalance ==
  VaultSpec => []PoolBooks
<1>1. VaultInit => PoolBooks
  <2> SUFFICES ASSUME VaultInit PROVE PoolBooks
    OBVIOUS
  <2>1. SumFunctionOnSet(dep, Users) = 0
    BY TwoWayFinite, SumZero DEF VaultInit
  <2> QED BY <2>1 DEF VaultInit, PoolBooks
<1>2. PoolBooks /\ UNCHANGED vaultVars => PoolBooks'
  BY DEF PoolBooks, vaultVars, vault, rewards, pool
<1>3. VaultTypeOK /\ PoolBooks /\ [VaultNext]_vaultVars => PoolBooks'
  BY <1>2, PoolBooksStep
<1> QED BY <1>1, <1>3, TwoWayTypeCorrect, PTL DEF VaultSpec

-----------------------------------------------------------------------------
(* The SWAY token and the swap route. *)

Buckets == {"futureTasks", "dexLP", "ecosystem"}

\* The holders and the buckets of SWAY are finitely many.
LEMMA SwayFinite ==
  IsFiniteSet(SwayHolders) /\ IsFiniteSet(Buckets) /\ DOMAIN Allocation = Buckets
<1>1. IsFiniteSet({"0x18"}) /\ IsFiniteSet({"0x23"}) /\ IsFiniteSet({"futureTasks"})
      /\ IsFiniteSet({"dexLP"}) /\ IsFiniteSet({"ecosystem"})
  BY FS_Singleton
<1>2. IsFiniteSet({"0x18"} \cup {"0x23"}) /\ IsFiniteSet({"futureTasks"} \cup {"dexLP"})
  BY <1>1, FS_Union
<1>3. IsFiniteSet(({"futureTasks"} \cup {"dexLP"}) \cup {"ecosystem"})
  BY <1>1, <1>2, FS_Union
<1>4. /\ Minters = {"0x18"} \cup {"0x23"}
      /\ Buckets = ({"futureTasks"} \cup {"dexLP"}) \cup {"ecosystem"}
  BY DEF Minters, Buckets
<1>5. IsFiniteSet(Traders)
  BY SwapAssumptions
<1>6. IsFiniteSet(Traders \cup Minters)
  BY <1>2, <1>4, <1>5, FS_Union
<1>7. DOMAIN Allocation = Buckets
  BY DEF Allocation, Buckets
<1> QED BY <1>3, <1>4, <1>6, <1>7 DEF SwayHolders

\* What the holders have and what the buckets have left.
InHands(b) == SumFunctionOnSet(b, SwayHolders)
Left(b) == SumFunctionOnSet(b, Buckets)

\* The types of the token's state, and the books in terms of these sums.
SwayBooks ==
  /\ swayBal \in [SwayHolders -> Nat] /\ bucket \in [Buckets -> Nat]
  /\ swaySupply \in Nat /\ burned \in Nat
  /\ swaySupply = InitialSupply + InHands(swayBal)
  /\ InHands(swayBal) + burned + Left(bucket) = InitialSupply

\* The books say what is to be shown.
LEMMA BooksSuffice ==
  ASSUME SwayBooks
  PROVE  SwayConserved
<1>1. InHands(swayBal) \in Nat /\ Left(bucket) \in Nat
  BY SwayFinite, SumNat DEF SwayBooks, InHands, Left
<1>2. SumFunctionOnSet(swayBal, SwayHolders) = InHands(swayBal)
      /\ SumFunctionOnSet(bucket, DOMAIN Allocation) = Left(bucket)
  BY SwayFinite DEF InHands, Left
<1>3. swaySupply <= HardCeiling
  BY <1>1, SwapAssumptions DEF SwayBooks
<1>4. \A b \in DOMAIN Allocation : bucket[b] >= 0
  BY SwayFinite DEF SwayBooks
<1> QED BY <1>2, <1>3, <1>4 DEF SwayBooks, SwayConserved

\* The genesis allocation adds up to the initial supply.
LEMMA BooksInitially ==
  ASSUME SwapInit
  PROVE  SwayBooks
<1>1. swayBal = [h \in SwayHolders |-> 0] /\ burned = 0 /\ swaySupply = InitialSupply
  BY DEF SwapInit
<1>2. InHands(swayBal) = 0
  BY <1>1, SwayFinite, SumZero DEF InHands
<1>3. PICK k \in Nat : InitialSupply = 20 * k
  <2>1. InitialSupply \in Nat /\ InitialSupply % 20 = 0
    BY SwapAssumptions
  <2>2. InitialSupply = 20 * (InitialSupply \div 20) /\ InitialSupply \div 20 \in Nat
    BY <2>1
  <2> QED BY <2>2
<1>4. /\ bucket \in [Buckets -> Nat]
      /\ bucket["futureTasks"] = 9 * k /\ bucket["dexLP"] = 4 * k /\ bucket["ecosystem"] = 7 * k
  <2>1. bucket = [b \in Buckets |-> (InitialSupply * Allocation[b]) \div 100]
    BY SwayFinite DEF SwapInit
  <2>2. Allocation["futureTasks"] = 45 /\ Allocation["dexLP"] = 20
        /\ Allocation["ecosystem"] = 35
    BY DEF Allocation
  <2>3. (20 * k) * 45 = 100 * (9 * k) /\ (20 * k) * 20 = 100 * (4 * k) /\ (20 * k) * 35 = 100 * (7 * k)
    OBVIOUS
  <2>4. \A m \in Nat : (100 * m) \div 100 = m
    OBVIOUS
  <2>5. 9 * k \in Nat /\ 4 * k \in Nat /\ 7 * k \in Nat
    OBVIOUS
  <2>6. (InitialSupply * 45) \div 100 = 9 * k /\ (InitialSupply * 20) \div 100 = 4 * k
        /\ (InitialSupply * 35) \div 100 = 7 * k
    BY <1>3, <2>3, <2>4, <2>5
  <2>7. /\ bucket["futureTasks"] = (InitialSupply * Allocation["futureTasks"]) \div 100
        /\ bucket["dexLP"] = (InitialSupply * Allocation["dexLP"]) \div 100
        /\ bucket["ecosystem"] = (InitialSupply * Allocation["ecosystem"]) \div 100
        /\ bucket = [b \in Buckets |-> bucket[b]]
    BY <2>1 DEF Buckets
  <2>8. /\ bucket["futureTasks"] = 9 * k /\ bucket["dexLP"] = 4 * k
        /\ bucket["ecosystem"] = 7 * k
    BY <2>2, <2>6, <2>7
  <2> QED BY <2>5, <2>7, <2>8 DEF Buckets
<1>5. Left(bucket) = 20 * k
  <2> DEFINE S2 == Buckets \ {"futureTasks"}
             S3 == S2 \ {"dexLP"}
             S4 == S3 \ {"ecosystem"}
  <2>1. "futureTasks" \in Buckets /\ "dexLP" \in S2 /\ "ecosystem" \in S3 /\ S4 = {}
    BY DEF Buckets
  <2>2. IsFiniteSet(Buckets) /\ IsFiniteSet(S2) /\ IsFiniteSet(S3)
    BY SwayFinite, FS_Subset
  <2>3. \A b \in Buckets : bucket[b] \in Int
    BY <1>4
  <2>4. (\A b \in S2 : bucket[b] \in Int) /\ (\A b \in S3 : bucket[b] \in Int)
    BY <2>3
  <2>5. SumFunctionOnSet(bucket, Buckets) = bucket["futureTasks"] + SumFunctionOnSet(bucket, S2)
    BY <2>1, <2>2, <2>3, SumRemove
  <2> HIDE DEF S2
  <2>6. SumFunctionOnSet(bucket, S2) = bucket["dexLP"] + SumFunctionOnSet(bucket, S3)
    BY <2>1, <2>2, <2>4, SumRemove
  <2> HIDE DEF S3
  <2>7. SumFunctionOnSet(bucket, S3) = bucket["ecosystem"] + SumFunctionOnSet(bucket, S4)
    BY <2>1, <2>2, <2>4, SumRemove
  <2>8. SumFunctionOnSet(bucket, S4) = 0
    BY <2>1, SumEmpty
  <2> QED BY <1>4, <2>5, <2>6, <2>7, <2>8 DEF Left
<1>6. InitialSupply \in Nat
  BY SwapAssumptions
<1> QED BY <1>1, <1>2, <1>3, <1>4, <1>5, <1>6 DEF SwayBooks

\* swayMintInternal moves an amount from a bucket to a holder.
LEMMA MintKeepsBooks ==
  ASSUME SwayBooks, NEW to \in SwayHolders, NEW n \in Nat, NEW b \in Buckets,
         MayMint(n, b), MintInternal(to, n, b), burned' = burned
  PROVE  SwayBooks'
<1>1. bucket[b] - n \in Nat /\ bucket[b] \in Nat /\ swayBal[to] \in Nat
  BY DEF MayMint, SwayBooks
<1>2. /\ swayBal' \in [SwayHolders -> Nat] /\ swayBal'[to] = swayBal[to] + n
      /\ \A h \in SwayHolders : h # to => swayBal'[h] = swayBal[h]
  BY DEF MintInternal, SwayBooks
<1>3. /\ bucket' \in [Buckets -> Nat] /\ bucket'[b] = bucket[b] - n
      /\ \A c \in Buckets : c # b => bucket'[c] = bucket[c]
  BY <1>1 DEF MintInternal, SwayBooks
<1>4. swaySupply' = swaySupply + n /\ swaySupply \in Nat /\ burned \in Nat /\ InitialSupply \in Nat
  BY SwapAssumptions DEF MintInternal, SwayBooks
<1>5. InHands(swayBal) \in Int /\ InHands(swayBal') = InHands(swayBal) - swayBal[to] + swayBal'[to]
  <2>1. swayBal \in [SwayHolders -> Int] /\ swayBal' \in [SwayHolders -> Int]
    BY <1>2 DEF SwayBooks
  <2> QED BY <1>2, <2>1, SwayFinite, SumChanged DEF InHands
<1>6. Left(bucket) \in Int /\ Left(bucket') = Left(bucket) - bucket[b] + bucket'[b]
  <2>1. bucket \in [Buckets -> Int] /\ bucket' \in [Buckets -> Int]
    BY <1>3 DEF SwayBooks
  <2> QED BY <1>3, <2>1, SwayFinite, SumChanged DEF Left
<1>7. InHands(swayBal') = InHands(swayBal) + n /\ Left(bucket') = Left(bucket) - n
  BY <1>1, <1>2, <1>3, <1>5, <1>6
<1>8. /\ swaySupply' = InitialSupply + InHands(swayBal')
      /\ InHands(swayBal') + burned' + Left(bucket') = InitialSupply
  BY <1>4, <1>5, <1>6, <1>7 DEF SwayBooks
<1> QED BY <1>2, <1>3, <1>4, <1>8 DEF SwayBooks

\* selSwayBurn moves an amount from a holder to what was burned.
LEMMA BurnKeepsBooks ==
  ASSUME SwayBooks, NEW from \in SwayHolders, NEW n \in Nat, SwayBurn(from, n)
  PROVE  SwayBooks'
<1>1. swayBal[from] \in Nat /\ swayBal[from] - n \in Nat
  BY DEF SwayBurn, SwayBooks
<1>2. /\ swayBal' \in [SwayHolders -> Nat] /\ swayBal'[from] = swayBal[from] - n
      /\ \A h \in SwayHolders : h # from => swayBal'[h] = swayBal[h]
  BY <1>1 DEF SwayBurn, SwayBooks
<1>3. /\ swaySupply' = swaySupply - n /\ burned' = burned + n /\ bucket' = bucket
      /\ swaySupply \in Nat /\ burned \in Nat /\ InitialSupply \in Nat
  BY SwapAssumptions DEF SwayBurn, SwayBooks
<1>4. InHands(swayBal) \in Int /\ InHands(swayBal') = InHands(swayBal) - swayBal[from] + swayBal'[from]
  <2>1. swayBal \in [SwayHolders -> Int] /\ swayBal' \in [SwayHolders -> Int]
    BY <1>2 DEF SwayBooks
  <2> QED BY <1>2, <2>1, SwayFinite, SumChanged DEF InHands
<1>5. InHands(swayBal') = InHands(swayBal) - n /\ InHands(swayBal') \in Nat /\ Left(bucket) \in Nat
  <2>1. InHands(swayBal') \in Nat /\ Left(bucket) \in Nat
    BY <1>2, SwayFinite, SumNat DEF InHands, Left, SwayBooks
  <2> QED BY <1>1, <1>2, <1>4, <2>1
<1>6. /\ swaySupply' = InitialSupply + InHands(swayBal')
      /\ InHands(swayBal') + burned' + Left(bucket') = InitialSupply /\ swaySupply' \in Nat
  BY <1>3, <1>4, <1>5 DEF SwayBooks
<1> QED BY <1>2, <1>3, <1>6 DEF SwayBooks

\* Every step keeps the books of SWAY.
LEMMA BooksStep ==
  ASSUME SwayBooks, [SwapNext]_swapVars
  PROVE  SwayBooks'
<1>1. CASE UNCHANGED <<swayBal, swaySupply, bucket, burned>>
  BY <1>1 DEF SwayBooks
<1>2. ASSUME NEW to \in Traders, NEW n \in Nat, Reward(to, n), burned' = burned
      PROVE  SwayBooks'
  <2>1. to \in SwayHolders /\ "dexLP" \in Buckets
    BY DEF SwayHolders, Buckets
  <2> QED BY <1>1, <1>2, <2>1, MintKeepsBooks DEF Reward
<1>3. ASSUME NEW h \in SwayHolders, NEW n \in BurnAmounts, SwayMint(h, n) \/ SwayBurn(h, n)
      PROVE  SwayBooks'
  <2>1. n \in Nat /\ "dexLP" \in Buckets
    BY SwapAssumptions DEF Buckets
  <2>2. CASE SwayMint(h, n)
    BY <2>1, <2>2, MintKeepsBooks DEF SwayMint
  <2> QED BY <1>3, <2>1, <2>2, BurnKeepsBooks
<1>4. ASSUME NEW c \in Minters, NEW n \in BurnAmounts, SwayMintToCaller(c, n)
      PROVE  SwayBooks'
  <2> DEFINE b == IF c = "0x18" THEN "dexLP" ELSE "futureTasks"
  <2>1. n \in Nat /\ b \in Buckets /\ c \in SwayHolders
    BY SwapAssumptions DEF Buckets, SwayHolders
  <2>2. MayMint(n, b) /\ MintInternal(c, n, b) /\ burned' = burned
    BY <1>4 DEF SwayMintToCaller
  <2> QED BY <2>1, <2>2, MintKeepsBooks
<1>5. CASE SwayStep
  <2>1. ASSUME NEW h \in Addresses, SwaySwapFee(h) PROVE SwayBooks'
    BY <1>1, <2>1 DEF SwaySwapFee
  <2> QED BY <1>3, <1>4, <1>5, <2>1 DEF SwayStep
<1>6. CASE RouteStep
  <2>1. ASSUME NEW u \in Traders, NEW p \in Pairs, CreatePair(u, p) PROVE SwayBooks'
    BY <1>1, <2>1 DEF CreatePair, token
  <2>2. ASSUME NEW u \in Traders, NEW d \in Deposits, AddLiquidity(u, d) PROVE SwayBooks'
    <3>1. BaseReward \in Nat
      BY SwapAssumptions
    <3> QED BY <1>2, <2>2, <3>1 DEF AddLiquidity
  <2>3. ASSUME NEW u \in Traders, NEW n \in SwapAmounts, NEW least, Swap(u, n, least)
        PROVE  SwayBooks'
    <3>1. n * 3 \in Nat
      BY SwapAssumptions
    <3>2. \A m \in Nat : m \div 1000 \in Nat
      OBVIOUS
    <3>3. (n * 3) \div 1000 \in Nat
      BY <3>1, <3>2
    <3> QED BY <1>2, <2>3, <3>3 DEF Swap
  <2> QED BY <1>6, <2>1, <2>2, <2>3 DEF RouteStep
<1>7. CASE LockStep
  BY <1>1, <1>7 DEF LockStep, token, swapHistory
<1> QED BY <1>1, <1>5, <1>6, <1>7 DEF SwapNext, swapVars, token, swapHistory

\* In whatever order SWAY is minted, given as a reward and burned, what holders
\* have was taken from a bucket and not burned since, no bucket is overdrawn and
\* the hard ceiling is kept.
THEOREM SwayIsConserved ==
  SwapSpec => []SwayConserved
<1>1. SwapInit => SwayBooks
  BY BooksInitially
<1>2. SwayBooks /\ [SwapNext]_swapVars => SwayBooks'
  BY BooksStep
<1>3. SwayBooks => SwayConserved
  BY BooksSuffice
<1> QED BY <1>1, <1>2, <1>3, PTL DEF SwapSpec

-----------------------------------------------------------------------------
(* The locks *)

Headers == [type : {"time", "vesting", "multisig"}, block : Nat, made : {0, 1}]

\* The state of the lock precompile.
LockTypes ==
  /\ height \in 0 .. MaxHeight
  /\ lock \in [Ids -> Headers]
  /\ vesting \in [Ids -> [end : Nat, cliff : Nat]]
  /\ earliest \in [Ids -> Nat]
  /\ extensions \in Nat

\* Creating a lock writes a header that some call has made, of whatever kind.
Created(id) ==
  \E h \in Headers :
     /\ h.made = 1 /\ lock' = [lock EXCEPT ![id] = h]
     /\ UNCHANGED <<height, extensions>>

\* A number modulo the word is a natural.
LEMMA Uint64Nat ==
  ASSUME NEW n \in Nat
  PROVE  Uint64(n) \in Nat
BY LockAssumptions DEF Uint64

\* encodeLockHeader gives a header that is marked as made.
LEMMA HeaderMade ==
  ASSUME NEW k \in {"time", "vesting", "multisig"}, NEW n \in Nat
  PROVE  Header(k, n) \in Headers /\ Header(k, n).made = 1
BY DEF Header, Headers

\* generateLockID gives an id.
LEMMA LockIDIn ==
  ASSUME LockTypes, NEW t \in Terms
  PROVE  LockID(t) \in Ids
BY DEF LockID, Ids, LockTypes

\* What a creation promises is a natural.
LEMMA PromiseNat ==
  ASSUME LockTypes, NEW id \in Ids, NEW first \in Nat, NEW last, Promise(id, first, last)
  PROVE  earliest' \in [Ids -> Nat] /\ extensions' = extensions
BY DEF Promise, Lesser, LockTypes

\* A promised block, or 0, is a natural.
LEMMA FittingNat ==
  ASSUME NEW sum, NEW first \in Nat
  PROVE  Fitting(sum, first) \in Nat
BY DEF Fitting

\* trustlessCreateTimeLock keeps the types and makes a lock.
LEMMA TimeLockTypes ==
  ASSUME LockTypes, NEW t \in Terms, NEW p \in Nat, CreateTimeLock(t, p)
  PROVE  LockTypes' /\ Created(LockID(t))
<1> DEFINE h == Header("time", Uint64(height + Uint64(p)))
           until == height + Greater(MinLockPeriod, p)
           first == Fitting(height + p, until)
           id == LockID(t)
<1>1. height \in Nat /\ MinLockPeriod \in Nat /\ Uint64(p) \in Nat
  BY Uint64Nat, LockAssumptions DEF LockTypes
<1>2. h \in Headers /\ h.made = 1
  BY <1>1, Uint64Nat, HeaderMade
<1>3. first \in Nat
  <2>1. until \in Nat
    BY <1>1 DEF Greater
  <2> QED BY <2>1, FittingNat
<1>4. id \in Ids
  BY LockIDIn
<1>5. /\ lock' = [lock EXCEPT ![id] = h] /\ height' = height /\ vesting' = vesting
      /\ Promise(id, first, until)
  BY DEF CreateTimeLock
<1> HIDE DEF h, until, first, id
<1>6. earliest' \in [Ids -> Nat] /\ extensions' = extensions
  BY <1>3, <1>4, <1>5, PromiseNat
<1>7. lock' \in [Ids -> Headers]
  BY <1>2, <1>4, <1>5 DEF LockTypes
<1>8. Created(id)
  BY <1>2, <1>5, <1>6 DEF Created
<1> QED BY <1>5, <1>6, <1>7, <1>8 DEF LockTypes, id

\* trustlessCreateVestingLock keeps the types and makes a lock.
LEMMA VestingLockTypes ==
  ASSUME LockTypes, NEW t \in Terms, NEW s \in Schedules, CreateVestingLock(t, s)
  PROVE  LockTypes' /\ Created(LockID(t))
<1> DEFINE h == Header("vesting", s.start)
           first == Lesser(s.cliff, s.end)
           id == LockID(t)
<1>1. s.start \in Nat /\ s.end \in Nat /\ s.cliff \in Nat
  BY LockAssumptions
<1>2. h \in Headers /\ h.made = 1
  BY <1>1, HeaderMade
<1>3. first \in Nat
  BY <1>1 DEF Lesser
<1>4. id \in Ids
  BY LockIDIn
<1>5. /\ lock' = [lock EXCEPT ![id] = h] /\ height' = height
      /\ vesting' = [vesting EXCEPT ![id] = [end |-> s.end, cliff |-> s.cliff]]
      /\ Promise(id, first, s.end)
  BY DEF CreateVestingLock
<1> HIDE DEF h, first, id
<1>6. earliest' \in [Ids -> Nat] /\ extensions' = extensions
  BY <1>3, <1>4, <1>5, PromiseNat
<1>7. lock' \in [Ids -> Headers]
  BY <1>2, <1>4, <1>5 DEF LockTypes
<1>8. vesting' \in [Ids -> [end : Nat, cliff : Nat]]
  BY <1>1, <1>4, <1>5 DEF LockTypes
<1>9. Created(id)
  BY <1>2, <1>5, <1>6 DEF Created
<1> QED BY <1>5, <1>6, <1>7, <1>8, <1>9 DEF LockTypes, id

\* trustlessCreateMultiSigLock keeps the types and makes a lock.
LEMMA MultiSigLockTypes ==
  ASSUME LockTypes, NEW t \in Terms, NEW k \in Thresholds, CreateMultiSigLock(t, k)
  PROVE  LockTypes' /\ Created(LockID(t))
<1> DEFINE h == Header("multisig", k)
           id == LockID(t)
<1>1. k \in Nat /\ Never \in Nat
  BY LockAssumptions DEF Never
<1>2. h \in Headers /\ h.made = 1
  BY <1>1, HeaderMade
<1>4. id \in Ids
  BY LockIDIn
<1>5. /\ lock' = [lock EXCEPT ![id] = h] /\ height' = height /\ vesting' = vesting
      /\ Promise(id, Never, Never)
  BY DEF CreateMultiSigLock
<1> HIDE DEF h, id
<1>6. earliest' \in [Ids -> Nat] /\ extensions' = extensions
  BY <1>1, <1>4, <1>5, PromiseNat
<1>7. lock' \in [Ids -> Headers]
  BY <1>2, <1>4, <1>5 DEF LockTypes
<1>8. Created(id)
  BY <1>2, <1>5, <1>6 DEF Created
<1> QED BY <1>5, <1>6, <1>7, <1>8 DEF LockTypes, id

\* trustlessRelease changes the type of one header and nothing else of it.
LEMMA ReleaseTypes ==
  ASSUME LockTypes, NEW id \in Ids, Release(id)
  PROVE  /\ LockTypes' /\ \A i \in Ids : lock'[i].made = lock[i].made
         /\ lock'[id].block = lock[id].block /\ \A i \in Ids : i # id => lock'[i] = lock[i]
<1>1. lock' = [lock EXCEPT ![id].type = "time"] /\ lock \in [Ids -> Headers]
  BY DEF Release, LockTypes
<1>2. lock[id] \in Headers /\ [lock[id] EXCEPT !.type = "time"] \in Headers
      /\ [lock[id] EXCEPT !.type = "time"].made = lock[id].made
      /\ [lock[id] EXCEPT !.type = "time"].block = lock[id].block
  BY <1>1 DEF Headers
<1>3. /\ lock' \in [Ids -> Headers] /\ \A i \in Ids : lock'[i].made = lock[i].made
      /\ lock'[id].block = lock[id].block /\ \A i \in Ids : i # id => lock'[i] = lock[i]
  BY <1>1, <1>2
<1> QED BY <1>3 DEF Release, LockTypes

\* trustlessExtend changes the block of one header and nothing else of it.
LEMMA ExtendTypes ==
  ASSUME LockTypes, NEW id \in Ids, NEW n \in Additions, Extend(id, n)
  PROVE  /\ LockTypes' /\ \A i \in Ids : lock'[i].made = lock[i].made /\ lock'[i].type = lock[i].type
         /\ lock'[id].block = Uint64(lock[id].block + Uint64(n))
         /\ \A i \in Ids : i # id => lock'[i] = lock[i]
<1> DEFINE b == Uint64(lock[id].block + Uint64(n))
<1>1. lock' = [lock EXCEPT ![id].block = b] /\ lock \in [Ids -> Headers]
  BY DEF Extend, LockTypes
<1>2. lock[id] \in Headers /\ lock[id].block \in Nat
  BY <1>1 DEF Headers
<1>3. b \in Nat
  <2>1. n \in Nat
    BY LockAssumptions
  <2>2. lock[id].block + Uint64(n) \in Nat
    BY <1>2, <2>1, Uint64Nat
  <2> QED BY <2>2, Uint64Nat
<1> HIDE DEF b
<1>4. /\ [lock[id] EXCEPT !.block = b] \in Headers
      /\ [lock[id] EXCEPT !.block = b].made = lock[id].made
      /\ [lock[id] EXCEPT !.block = b].type = lock[id].type
      /\ [lock[id] EXCEPT !.block = b].block = b
  BY <1>2, <1>3 DEF Headers
<1>5. /\ lock' \in [Ids -> Headers]
      /\ \A i \in Ids : lock'[i].made = lock[i].made /\ lock'[i].type = lock[i].type
      /\ lock'[id].block = b /\ \A i \in Ids : i # id => lock'[i] = lock[i]
  BY <1>1, <1>4
<1>6. earliest' \in [Ids -> Nat]
  <2>1. earliest' = [earliest EXCEPT ![id] = Fitting(lock[id].block + n, @)]
    BY DEF Extend
  <2>2. Fitting(lock[id].block + n, earliest[id]) \in Nat
    BY FittingNat DEF LockTypes
  <2> QED BY <2>1, <2>2 DEF LockTypes
<1> QED BY <1>5, <1>6 DEF Extend, LockTypes, b

\* No step of the lock precompile takes the mark of a lock away.
LEMMA LockStepTypes ==
  ASSUME LockTypes, LockNext
  PROVE  LockTypes' /\ \A i \in Ids : lock[i].made = 1 => lock'[i].made = 1
<1>1. CASE NextBlock
  BY <1>1, LockAssumptions DEF NextBlock, LockTypes, history
<1>2. ASSUME NEW id \in Ids, Created(id)
      PROVE  \A i \in Ids : lock[i].made = 1 => lock'[i].made = 1
  BY <1>2 DEF Created, LockTypes
<1>3. CASE Create
  <2>1. PICK t \in Terms : \/ \E p \in Periods : CreateTimeLock(t, p)
                           \/ \E s \in Schedules : CreateVestingLock(t, s)
                           \/ \E k \in Thresholds : CreateMultiSigLock(t, k)
    BY <1>3 DEF Create
  <2>2. Periods \subseteq Nat
    BY LockAssumptions
  <2>3. LockTypes' /\ Created(LockID(t))
    <3>1. ASSUME NEW p \in Periods, CreateTimeLock(t, p) PROVE LockTypes' /\ Created(LockID(t))
      BY <2>2, <3>1, TimeLockTypes
    <3>2. ASSUME NEW s \in Schedules, CreateVestingLock(t, s)
          PROVE  LockTypes' /\ Created(LockID(t))
      BY <3>2, VestingLockTypes
    <3>3. ASSUME NEW k \in Thresholds, CreateMultiSigLock(t, k)
          PROVE  LockTypes' /\ Created(LockID(t))
      BY <3>3, MultiSigLockTypes
    <3> QED BY <2>1, <3>1, <3>2, <3>3
  <2> QED BY <1>2, <2>3, LockIDIn
<1>4. CASE Withdraw
  BY <1>4, ReleaseTypes DEF Withdraw
<1>5. CASE Prolong
  BY <1>5, ExtendTypes DEF Prolong
<1> QED BY <1>1, <1>3, <1>4, <1>5 DEF LockNext

-----------------------------------------------------------------------------
(* The liquidity *)

\* There are finitely many ids up to a height.
LEMMA IdsFinite ==
  IsFiniteSet(Ids)
<1> DEFINE P == Terms \X (0 .. MaxHeight)
           f == [q \in P |-> [terms |-> q[1], block |-> q[2]]]
<1>1. IsFiniteSet(Terms)
  BY SwapAssumptions
<1>2. IsFiniteSet(0 .. MaxHeight)
  BY FS_Interval, LockAssumptions
<1>3. IsFiniteSet(P)
  BY <1>1, <1>2, FS_Product
<1>4. f \in Surjection(P, Ids)
  <2>1. f \in [P -> Ids]
    BY DEF Ids
  <2>2. ASSUME NEW id \in Ids PROVE \E q \in P : f[q] = id
    <3>1. id.terms \in Terms /\ id.block \in 0 .. MaxHeight
          /\ id = [terms |-> id.terms, block |-> id.block]
      BY DEF Ids
    <3>2. <<id.terms, id.block>> \in P
      BY <3>1
    <3> QED BY <3>1, <3>2
  <2> QED BY <2>1, <2>2 DEF Surjection
<1> HIDE DEF P, f
<1> QED BY <1>3, <1>4, FS_Surjection

\* The total is the liquidity that was put under the locks, which is locked, and
\* the liquidity of short names.
LiquidityBooks ==
  /\ LockTypes
  /\ provided \in [Ids -> Nat] /\ liquidity \in Nat /\ bare \in Nat
  /\ liquidity = SumFunctionOnSet(provided, Ids) + bare
  /\ \A id \in Ids : provided[id] > 0 => lock[id].made = 1

\* No liquidity and no lock at first.
LEMMA LiquidityInitially ==
  ASSUME SwapInit
  PROVE  LiquidityBooks
<1>1. LockTypes
  BY LockAssumptions DEF SwapInit, LockInit, LockTypes, EmptyHeader, Headers, Never
<1>2. SumFunctionOnSet(provided, Ids) = 0
  BY IdsFinite, SumZero DEF SwapInit
<1> QED BY <1>1, <1>2 DEF LiquidityBooks, SwapInit

\* Every step keeps the liquidity under locks.
LEMMA LiquidityStep ==
  ASSUME LPPeriod >= MinLockPeriod,
         LiquidityBooks, [SwapNext]_swapVars
  PROVE  LiquidityBooks'
<1>0. LockTypes
  BY DEF LiquidityBooks
<1>1. CASE UNCHANGED <<lockVars, liquidity, provided, bare>>
  BY <1>1 DEF LiquidityBooks, LockTypes, lockVars, history
<1>2. ASSUME NEW u \in Traders, NEW d \in Deposits, AddLiquidity(u, d)
      PROVE  LiquidityBooks'
  <2> DEFINE n == d[1] + d[2]
             id == LockID(n)
  <2>1. n \in Nat /\ n \in Terms /\ LPPeriod \in Nat
    BY SwapAssumptions
  <2>2. id \in Ids
    BY <1>0, <2>1, LockIDIn
  <2>12. liquidity \in Nat /\ bare \in Nat /\ SumFunctionOnSet(provided, Ids) \in Int
    <3>1. provided \in [Ids -> Int]
      BY DEF LiquidityBooks
    <3> QED BY <3>1, IdsFinite, SumInt DEF LiquidityBooks
  <2>13. CASE u \in ShortNamed
    <3>1. /\ liquidity' = liquidity + n /\ bare' = bare + n /\ provided' = provided
          /\ UNCHANGED lockVars
      BY <1>2, <2>13 DEF AddLiquidity, LockAccepts
    <3>2. LockTypes' /\ lock' = lock
      BY <1>0, <3>1 DEF LockTypes, lockVars, history
    <3> HIDE DEF n
    <3>3. liquidity' = SumFunctionOnSet(provided', Ids) + bare'
      BY <2>1, <2>12, <3>1 DEF LiquidityBooks
    <3>4. liquidity' \in Nat /\ bare' \in Nat
      BY <2>1, <2>12, <3>1
    <3> QED BY <3>1, <3>2, <3>3, <3>4 DEF LiquidityBooks
  <2>14. SUFFICES ASSUME u \notin ShortNamed PROVE LiquidityBooks'
    BY <2>13
  <2>3. LockAccepts(u)
    BY <2>14 DEF LongEnough, LockedFor, LockAccepts
  <2>4. /\ liquidity' = liquidity + n /\ CreateTimeLock(n, LPPeriod)
        /\ provided' = [provided EXCEPT ![id] = @ + n] /\ bare' = bare
    BY <1>2, <2>3, <2>14 DEF AddLiquidity, LockedFor
  <2> HIDE DEF n, id
  <2>5. LockTypes' /\ Created(id)
    BY <1>0, <2>1, <2>4, TimeLockTypes DEF id
  <2>6. lock'[id].made = 1 /\ \A i \in Ids : i # id => lock'[i] = lock[i]
    BY <1>0, <2>2, <2>5 DEF Created, LockTypes
  <2>7. /\ provided' \in [Ids -> Nat] /\ provided'[id] = provided[id] + n
        /\ \A i \in Ids : i # id => provided'[i] = provided[i]
    BY <2>1, <2>2, <2>4 DEF LiquidityBooks
  <2>8. \A i \in Ids : provided'[i] > 0 => lock'[i].made = 1
    BY <2>6, <2>7 DEF LiquidityBooks
  <2>9. /\ SumFunctionOnSet(provided, Ids) \in Int
        /\ SumFunctionOnSet(provided', Ids)
              = SumFunctionOnSet(provided, Ids) - provided[id] + provided'[id]
    <3>1. provided \in [Ids -> Int] /\ provided' \in [Ids -> Int]
      BY <2>7 DEF LiquidityBooks
    <3> QED BY <2>2, <2>7, <3>1, IdsFinite, SumChanged
  <2>10. provided[id] \in Nat /\ liquidity \in Nat
    BY <2>2 DEF LiquidityBooks
  <2>11. liquidity' \in Nat /\ liquidity' = SumFunctionOnSet(provided', Ids) + bare'
    BY <2>1, <2>4, <2>7, <2>9, <2>10, <2>12 DEF LiquidityBooks
  <2>15. bare' \in Nat
    BY <2>4, <2>12
  <2> QED BY <2>5, <2>7, <2>8, <2>11, <2>15 DEF LiquidityBooks
<1>3. CASE LockStep
  <2>1. LockNext /\ liquidity' = liquidity /\ provided' = provided /\ bare' = bare
    BY <1>3 DEF LockStep, route, swapHistory
  <2>2. LockTypes' /\ \A i \in Ids : lock[i].made = 1 => lock'[i].made = 1
    BY <1>0, <2>1, LockStepTypes
  <2> QED BY <2>1, <2>2 DEF LiquidityBooks
<1>4. CASE SwayStep
  BY <1>1, <1>4 DEF SwayStep, SwayMint, SwayBurn, SwayMintToCaller, SwaySwapFee,
     route
<1>5. CASE RouteStep
  BY <1>1, <1>2, <1>5 DEF RouteStep, CreatePair, Swap, route
<1> QED BY <1>1, <1>3, <1>4, <1>5 DEF SwapNext, swapVars, route, swapHistory

\* As long as the route asks for a period the lock accepts, which its constant of
\* 30 days does, all liquidity that callers with a name of 20 bytes or more added
\* stands under a lock, although the route ignores the lock's answer; whatever
\* else is in the total was added under a shorter name.
THEOREM LiquidityIsLocked ==
  ASSUME LPPeriod >= MinLockPeriod
  PROVE  SwapSpec => []LiquidityLocked
<1>1. SwapInit => LiquidityBooks
  BY LiquidityInitially
<1>2. LiquidityBooks /\ [SwapNext]_swapVars => LiquidityBooks'
  BY LiquidityStep
<1>3. LiquidityBooks => LiquidityLocked
  BY DEF LiquidityBooks, LiquidityLocked
<1> QED BY <1>1, <1>2, <1>3, PTL DEF SwapSpec

-----------------------------------------------------------------------------
(* No lock is released too early. *)

\* The header of a made lock opens it at a block that its creations allow, or
\* such a block has come already.
Opens(id) ==
  /\ lock[id].type = "time" => earliest[id] <= lock[id].block \/ earliest[id] <= height
  /\ lock[id].type = "vesting" => earliest[id] <= vesting[id].end /\ earliest[id] <= vesting[id].cliff

HeldSince ==
  /\ LockTypes
  /\ \A id \in Ids : lock[id].made = 1 => Opens(id)

\* A number below the word is itself.
LEMMA Uint64Small ==
  ASSUME NEW n \in Nat, n < Word
  PROVE  Uint64(n) = n
BY LockAssumptions DEF Uint64

\* A step that writes the lock of one id and keeps the others.
LEMMA HeldElsewhere ==
  ASSUME HeldSince, LockTypes', NEW id \in Ids, height' = height,
         \A i \in Ids : i # id =>
            lock'[i] = lock[i] /\ earliest'[i] = earliest[i] /\ vesting'[i] = vesting[i],
         lock'[id].made = 1 => Opens(id)'
  PROVE  HeldSince'
<1>1. ASSUME NEW i \in Ids, lock'[i].made = 1 PROVE Opens(i)'
  BY <1>1 DEF HeldSince, Opens
<1> QED BY <1>1 DEF HeldSince

\* A time lock opens no earlier than its creation promises; when the block does
\* not fit, nothing is promised.
LEMMA HeldByTimeLock ==
  ASSUME HeldSince, NEW t \in Terms, NEW p \in Nat, CreateTimeLock(t, p)
  PROVE  HeldSince'
<1>0. LockTypes
  BY DEF HeldSince
<1>1. height \in Nat /\ MinLockPeriod \in Nat /\ Word \in Nat
  BY <1>0, LockAssumptions DEF LockTypes
<1> DEFINE b == Uint64(height + Uint64(p))
           first == Fitting(height + p, height + p)
<1>2. PICK id \in Ids : id = LockID(t)
  BY <1>0, LockIDIn
<1>3. /\ lock' = [lock EXCEPT ![id] = Header("time", b)]
      /\ earliest' = [earliest EXCEPT ![id] = Lesser(@, first)]
      /\ height' = height /\ vesting' = vesting
  <2>1. Greater(MinLockPeriod, p) = p
    BY <1>1 DEF CreateTimeLock, LongEnough, Greater
  <2> QED BY <1>2, <2>1 DEF CreateTimeLock, Promise
<1>4. first <= b \/ first <= height
  <2>1. CASE height + p < Word
    <3>1. p < Word /\ height + p \in Nat
      BY <1>1, <2>1
    <3>2. Uint64(p) = p /\ Uint64(height + p) = height + p
      BY <2>1, <3>1, Uint64Small
    <3> QED BY <1>1, <2>1, <3>1, <3>2 DEF Fitting
  <2>2. CASE ~(height + p < Word)
    BY <1>1, <2>2 DEF Fitting
  <2> QED BY <2>1, <2>2
<1>5. first \in Nat /\ b \in Nat
  <2>1. Uint64(p) \in Nat
    BY Uint64Nat
  <2>2. height + Uint64(p) \in Nat /\ height + p \in Nat
    BY <1>1, <2>1
  <2> QED BY <2>2, Uint64Nat, FittingNat
<1> HIDE DEF b, first
<1>6. LockTypes'
  BY <1>0, TimeLockTypes
<1>7. lock'[id].type = "time" /\ lock'[id].block = b
  BY <1>0, <1>2, <1>3 DEF LockTypes, Header
<1>8. earliest'[id] <= first /\ earliest'[id] \in Nat
  BY <1>0, <1>2, <1>3, <1>5 DEF LockTypes, Lesser
<1>9. Opens(id)'
  BY <1>1, <1>3, <1>4, <1>5, <1>7, <1>8 DEF Opens
<1>10. \A i \in Ids : i # id =>
          lock'[i] = lock[i] /\ earliest'[i] = earliest[i] /\ vesting'[i] = vesting[i]
  BY <1>0, <1>3 DEF LockTypes
<1> QED BY <1>2, <1>3, <1>6, <1>9, <1>10, HeldElsewhere

\* A vesting lock opens no earlier than its creation promises.
LEMMA HeldByVestingLock ==
  ASSUME HeldSince, NEW t \in Terms, NEW s \in Schedules, CreateVestingLock(t, s)
  PROVE  HeldSince'
<1>0. LockTypes
  BY DEF HeldSince
<1>1. s.end \in Nat /\ s.cliff \in Nat
  BY LockAssumptions
<1>3. PICK id \in Ids : id = LockID(t)
  BY <1>0, LockIDIn
<1>4. /\ lock' = [lock EXCEPT ![id] = Header("vesting", s.start)]
      /\ earliest' = [earliest EXCEPT ![id] = Lesser(@, Lesser(s.cliff, s.end))]
      /\ vesting' = [vesting EXCEPT ![id] = [end |-> s.end, cliff |-> s.cliff]]
      /\ height' = height
  BY <1>3 DEF CreateVestingLock, Promise
<1>5. LockTypes'
  BY <1>0, VestingLockTypes
<1>6. /\ lock'[id].type = "vesting"
      /\ vesting'[id].end = s.end /\ vesting'[id].cliff = s.cliff
  BY <1>0, <1>3, <1>4 DEF LockTypes, Header
<1>7. earliest'[id] <= s.cliff /\ earliest'[id] <= s.end
  BY <1>0, <1>1, <1>3, <1>4 DEF LockTypes, Lesser
<1>8. Opens(id)'
  BY <1>6, <1>7 DEF Opens
<1>11. \A i \in Ids : i # id =>
          lock'[i] = lock[i] /\ earliest'[i] = earliest[i] /\ vesting'[i] = vesting[i]
  BY <1>0, <1>4 DEF LockTypes
<1> QED BY <1>3, <1>4, <1>5, <1>8, <1>11, HeldElsewhere

\* A multi-signature lock does not open.
LEMMA HeldByMultiSigLock ==
  ASSUME HeldSince, NEW t \in Terms, NEW k \in Thresholds, CreateMultiSigLock(t, k)
  PROVE  HeldSince'
<1>0. LockTypes
  BY DEF HeldSince
<1>3. PICK id \in Ids : id = LockID(t)
  BY <1>0, LockIDIn
<1>4. /\ lock' = [lock EXCEPT ![id] = Header("multisig", k)]
      /\ earliest' = [earliest EXCEPT ![id] = Lesser(@, Never)]
      /\ height' = height /\ vesting' = vesting
  BY <1>3 DEF CreateMultiSigLock, Promise
<1>5. LockTypes'
  BY <1>0, MultiSigLockTypes
<1>6. lock'[id].type = "multisig"
  BY <1>0, <1>3, <1>4 DEF LockTypes, Header
<1>8. Opens(id)'
  BY <1>6 DEF Opens
<1>11. \A i \in Ids : i # id =>
          lock'[i] = lock[i] /\ earliest'[i] = earliest[i] /\ vesting'[i] = vesting[i]
  BY <1>0, <1>4 DEF LockTypes
<1> QED BY <1>3, <1>4, <1>5, <1>8, <1>11, HeldElsewhere

\* What can be released has come to a block its creations allow.
LEMMA ReleaseAllowed ==
  ASSUME HeldSince, NEW id \in Ids, lock[id].made = 1, ReleasableAmount(id) > 0
  PROVE  earliest[id] <= height
<1>1. /\ lock[id] \in Headers /\ Opens(id) /\ lock[id] # EmptyHeader
      /\ height \in Nat /\ earliest[id] \in Nat /\ lock[id].block \in Nat
      /\ vesting[id].end \in Nat /\ vesting[id].cliff \in Nat
  BY DEF HeldSince, LockTypes, Headers, EmptyHeader
<1>2. CASE lock[id].type = "time"
  <2>1. ReleasableAmount(id) = IF Reached(lock[id].block) THEN 1 ELSE 0
    BY <1>1, <1>2 DEF ReleasableAmount
  <2> QED BY <1>1, <1>2, <2>1 DEF Reached, Opens
<1>3. CASE lock[id].type = "vesting"
  <2>1. ReleasableAmount(id) = IF Reached(vesting[id].end) THEN 1
                                  ELSE IF Reached(vesting[id].cliff) THEN VestedShare(id) ELSE 0
    BY <1>1, <1>3 DEF ReleasableAmount
  <2> QED BY <1>1, <1>3, <2>1 DEF Reached, Opens
<1>4. CASE lock[id].type = "multisig"
  <2>1. ReleasableAmount(id) = 0
    BY <1>1, <1>4 DEF ReleasableAmount
  <2> QED BY <2>1
<1> QED BY <1>1, <1>2, <1>3, <1>4 DEF Headers

\* A released lock stays one whose block has come.
LEMMA HeldByRelease ==
  ASSUME HeldSince, NEW id \in Ids, Release(id)
  PROVE  HeldSince'
<1>0. LockTypes
  BY DEF HeldSince
<1>1. /\ LockTypes' /\ \A i \in Ids : lock'[i].made = lock[i].made
      /\ \A i \in Ids : i # id => lock'[i] = lock[i]
  BY <1>0, ReleaseTypes
<1>2. /\ height' = height /\ vesting' = vesting /\ earliest' = earliest
      /\ ReleasableAmount(id) > 0 /\ lock' = [lock EXCEPT ![id].type = "time"]
  BY DEF Release
<1>3. lock'[id].type = "time"
  BY <1>0, <1>2 DEF LockTypes, Headers
<1>6. lock'[id].made = 1 => Opens(id)'
  BY <1>1, <1>2, <1>3, ReleaseAllowed DEF Opens
<1> QED BY <1>1, <1>2, <1>6, HeldElsewhere

\* An extension whose block fits opens a lock no earlier; one whose block does
\* not fit ends the promise.
LEMMA HeldByExtend ==
  ASSUME HeldSince, NEW id \in Ids, NEW n \in Additions, Extend(id, n)
  PROVE  HeldSince'
<1>0. LockTypes
  BY DEF HeldSince
<1>1. /\ LockTypes' /\ \A i \in Ids : lock'[i].made = lock[i].made /\ lock'[i].type = lock[i].type
      /\ lock'[id].block = Uint64(lock[id].block + Uint64(n))
      /\ \A i \in Ids : i # id => lock'[i] = lock[i]
  BY <1>0, ExtendTypes
<1>2. /\ height' = height /\ vesting' = vesting /\ lock[id].type = "time"
      /\ earliest' = [earliest EXCEPT ![id] = Fitting(lock[id].block + n, @)]
  BY DEF Extend, Extendable
<1>3. /\ n \in Nat /\ lock[id].block \in Nat /\ Word \in Nat
      /\ height \in Nat /\ earliest[id] \in Nat
  BY <1>0, LockAssumptions DEF LockTypes, Headers
<1>4. /\ earliest'[id] = Fitting(lock[id].block + n, earliest[id])
      /\ \A i \in Ids : i # id => earliest'[i] = earliest[i]
  BY <1>0, <1>2 DEF LockTypes
<1>5. ASSUME lock'[id].made = 1 PROVE Opens(id)'
  <2>1. Opens(id) /\ lock'[id].type = "time"
    BY <1>1, <1>2, <1>5 DEF HeldSince
  <2>2. CASE lock[id].block + n < Word
    <3>1. n < Word /\ lock[id].block + n \in Nat
      BY <1>3, <2>2
    <3>2. Uint64(n) = n /\ Uint64(lock[id].block + n) = lock[id].block + n
      BY <1>3, <2>2, <3>1, Uint64Small
    <3>3. lock'[id].block = lock[id].block + n /\ earliest'[id] = earliest[id]
      BY <1>1, <1>4, <2>2, <3>2 DEF Fitting
    <3> QED BY <1>2, <1>3, <2>1, <3>3 DEF Opens
  <2>3. CASE ~(lock[id].block + n < Word)
    <3>1. earliest'[id] = 0
      BY <1>4, <2>3 DEF Fitting
    <3> QED BY <1>2, <1>3, <2>1, <3>1 DEF Opens
  <2> QED BY <2>2, <2>3
<1> QED BY <1>1, <1>2, <1>4, <1>5, HeldElsewhere

\* Every step keeps the locks held.
LEMMA HeldStep ==
  ASSUME HeldSince, [SwapNext]_swapVars
  PROVE  HeldSince'
<1>0. LockTypes
  BY DEF HeldSince
<1>1. CASE UNCHANGED lockVars
  BY <1>1 DEF HeldSince, Opens, LockTypes, lockVars, history
<1>2. ASSUME NEW u \in Traders, NEW d \in Deposits, AddLiquidity(u, d)
      PROVE  HeldSince'
  <2>1. d[1] + d[2] \in Terms /\ LPPeriod \in Nat
    BY SwapAssumptions
  <2>2. CreateTimeLock(d[1] + d[2], LPPeriod) \/ UNCHANGED lockVars
    BY <1>2 DEF AddLiquidity, LockedFor
  <2> QED BY <1>1, <2>1, <2>2, HeldByTimeLock
<1>3. CASE NextBlock
  <2>1. /\ height' = height + 1 /\ height' \in 0 .. MaxHeight
        /\ UNCHANGED <<lock, vesting, earliest, extensions>>
    BY <1>0, <1>3, LockAssumptions DEF NextBlock, LockTypes, history
  <2>2. LockTypes'
    BY <1>0, <2>1 DEF LockTypes
  <2>3. ASSUME NEW id \in Ids, Opens(id) PROVE Opens(id)'
    <3>1. earliest[id] \in Nat /\ height \in Nat
      BY <1>0 DEF LockTypes
    <3> QED BY <2>1, <2>3, <3>1 DEF Opens
  <2> QED BY <2>1, <2>2, <2>3 DEF HeldSince
<1>4. CASE Create
  <2>1. PICK t \in Terms : \/ \E p \in Periods : CreateTimeLock(t, p)
                           \/ \E s \in Schedules : CreateVestingLock(t, s)
                           \/ \E k \in Thresholds : CreateMultiSigLock(t, k)
    BY <1>4 DEF Create
  <2>2. \A p \in Periods : p \in Nat
    BY LockAssumptions
  <2>3. ASSUME NEW p \in Periods, CreateTimeLock(t, p) PROVE HeldSince'
    BY <2>2, <2>3, HeldByTimeLock
  <2>4. ASSUME NEW s \in Schedules, CreateVestingLock(t, s) PROVE HeldSince'
    BY <2>4, HeldByVestingLock
  <2>5. ASSUME NEW k \in Thresholds, CreateMultiSigLock(t, k) PROVE HeldSince'
    BY <2>5, HeldByMultiSigLock
  <2> QED BY <2>1, <2>3, <2>4, <2>5
<1>5. CASE Withdraw
  BY <1>5, HeldByRelease DEF Withdraw
<1>6. CASE Prolong
  BY <1>6, HeldByExtend DEF Prolong
<1>7. CASE SwayStep
  BY <1>1, <1>7 DEF SwayStep, SwayMint, SwayBurn, SwayMintToCaller, SwaySwapFee
<1>8. CASE RouteStep
  BY <1>1, <1>2, <1>8 DEF RouteStep, CreatePair, Swap
<1> QED BY <1>1, <1>3, <1>4, <1>5, <1>6, <1>7, <1>8 DEF SwapNext, LockStep, LockNext, swapVars

\* Only trustlessRelease counts a release.
LEMMA OnlyRelease ==
  ASSUME LockTypes, released \in [Ids -> Nat], [SwapNext]_swapVars, NEW id \in Ids,
         released'[id] > released[id]
  PROVE  Release(id)
<1>1. released[id] \in Nat
  OBVIOUS
<1>2. released' # released
  BY <1>1
<1>3. CASE Withdraw
  <2>1. PICK i \in Ids : Release(i)
    BY <1>3 DEF Withdraw
  <2>2. released' = [released EXCEPT ![i] = @ + 1]
    BY <2>1 DEF Release
  <2>3. i = id
    BY <1>1, <2>2
  <2> QED BY <2>1, <2>3
<1>4. ~(UNCHANGED lockVars)
  BY <1>2 DEF lockVars, history
<1>5. ASSUME NEW t, NEW p, CreateTimeLock(t, p) PROVE FALSE
  BY <1>2, <1>5 DEF CreateTimeLock, Promise
<1>6. CASE LockNext
  BY <1>2, <1>3, <1>5, <1>6 DEF LockNext, NextBlock, Create, CreateVestingLock,
     CreateMultiSigLock, Promise, Prolong, Extend, history
<1>7. ~SwayStep
  BY <1>4 DEF SwayStep, SwayMint, SwayBurn, SwayMintToCaller, SwaySwapFee
<1>8. ~RouteStep
  BY <1>4, <1>5 DEF RouteStep, CreatePair, Swap, AddLiquidity
<1> QED BY <1>4, <1>6, <1>7, <1>8 DEF SwapNext, LockStep, swapVars

\* No lock that a call has created is released before the earliest block any of
\* its creations allows, whichever kind overwrites which, whatever schedule,
\* period and extension its callers choose, and also for the liquidity the route
\* locks.  Nothing is assumed of the inputs: what a period or an extension that
\* does not fit into 64 bits does to the promise is part of the statement.
THEOREM NotReleasedEarly ==
  SwapSpec => NotBeforeEarliest
<1> DEFINE Inv == HeldSince /\ released \in [Ids -> Nat]
<1>1. SwapInit => Inv
  <2> SUFFICES ASSUME SwapInit PROVE Inv
    OBVIOUS
  <2>1. LiquidityBooks
    BY LiquidityInitially
  <2>2. LockTypes /\ lock = [id \in Ids |-> EmptyHeader]
        /\ released = [id \in Ids |-> 0]
    BY <2>1 DEF LiquidityBooks, SwapInit, LockInit
  <2> QED BY <2>2 DEF HeldSince, EmptyHeader
<1>2. Inv /\ [SwapNext]_swapVars => Inv'
  <2> SUFFICES ASSUME Inv, [SwapNext]_swapVars PROVE Inv'
    OBVIOUS
  <2>1. HeldSince'
    BY HeldStep
  <2>2. \/ UNCHANGED released
        \/ \E id \in Ids : released' = [released EXCEPT ![id] = @ + 1]
    BY DEF SwapNext, LockStep, LockNext, NextBlock, Create, CreateTimeLock,
       CreateVestingLock, CreateMultiSigLock, Promise, Withdraw, Release,
       Prolong, Extend, SwayStep, SwayMint, SwayBurn, SwayMintToCaller,
       SwaySwapFee, RouteStep, CreatePair, Swap, AddLiquidity, lockVars, swapVars,
       history
  <2>3. released' \in [Ids -> Nat]
    BY <2>2
  <2> QED BY <2>1, <2>3
<1>3. Inv /\ [SwapNext]_swapVars
        => [\A id \in Ids : Releases(id) => height >= earliest[id]]_lockVars
  <2> SUFFICES ASSUME Inv, [SwapNext]_swapVars, NEW id \in Ids, Releases(id)
               PROVE  height >= earliest[id]
    OBVIOUS
  <2>1. LockTypes /\ height \in Nat /\ earliest[id] \in Nat
    BY DEF HeldSince, LockTypes
  <2>2. Release(id) /\ lock[id].made = 1
    BY <2>1, OnlyRelease DEF Releases
  <2>3. earliest[id] <= height
    BY <2>2, ReleaseAllowed DEF Release
  <2> QED BY <2>1, <2>3
<1> HIDE DEF Inv
<1> QED BY <1>1, <1>2, <1>3, PTL DEF SwapSpec, NotBeforeEarliest

-----------------------------------------------------------------------------
(* Progressive staking. *)

\* The sums of Staking.
LEMMA StakingSums ==
  /\ \A f : Total(f) = SumFunctionOnSet(f, Validators)
  /\ \A f : SumFunction(f) = SumFunctionOnSet(f, DOMAIN f)
BY DEF Total, SumFunction

\* The tokens above a bound are a natural number.
LEMMA OverNat ==
  ASSUME NEW s \in Nat, NEW b \in Nat
  PROVE  Over(s, b) \in Nat
BY DEF Over

\* A hundred times the reward of a stake, before the division: 15 percent of
\* everything, less what is lost above each bound.
Percent(s) ==
  15 * s - 7 * Over(s, 1001) - 4 * Over(s, 10001) - 2 * Over(s, 100001) - Over(s, 1000001)

\* The sum over the five brackets.
LEMMA FiveBrackets ==
  ASSUME NEW f, DOMAIN f = 1 .. 5, \A i \in 1 .. 5 : f[i] \in Int
  PROVE  SumFunctionOnSet(f, 1 .. 5) = f[1] + f[2] + f[3] + f[4] + f[5]
<1> DEFINE S2 == (1 .. 5) \ {1}
           S3 == S2 \ {2}
           S4 == S3 \ {3}
           S5 == S4 \ {4}
           S6 == S5 \ {5}
<1>1. 1 \in 1 .. 5 /\ 2 \in S2 /\ 3 \in S3 /\ 4 \in S4 /\ 5 \in S5
  OBVIOUS
<1>0. \A i : i \notin S6
  <2>1. SUFFICES ASSUME NEW i \in S6 PROVE FALSE
    OBVIOUS
  <2>2. i \in 1 .. 5 /\ i # 1 /\ i # 2 /\ i # 3 /\ i # 4 /\ i # 5
    OBVIOUS
  <2> QED BY <2>2
<1>2. IsFiniteSet(1 .. 5)
  <2>1. \A a, b \in Int : IsFiniteSet(a .. b)
    BY FS_Interval
  <2>2. 1 \in Int /\ 5 \in Int
    OBVIOUS
  <2> QED BY <2>1, <2>2, Zenon
<1>3. IsFiniteSet(S2) /\ IsFiniteSet(S3) /\ IsFiniteSet(S4) /\ IsFiniteSet(S5)
  BY <1>2, FS_Subset
<1>4. /\ \A i \in S2 : f[i] \in Int
      /\ \A i \in S3 : f[i] \in Int
      /\ \A i \in S4 : f[i] \in Int
      /\ \A i \in S5 : f[i] \in Int
  OBVIOUS
<1>5. f[1] \in Int /\ f[2] \in Int /\ f[3] \in Int /\ f[4] \in Int /\ f[5] \in Int
  OBVIOUS
<1>6. SumFunctionOnSet(f, 1 .. 5) = f[1] + SumFunctionOnSet(f, S2)
  BY <1>1, <1>2, SumRemove
<1> HIDE DEF S2
<1>7. SumFunctionOnSet(f, S2) = f[2] + SumFunctionOnSet(f, S3)
  BY <1>1, <1>3, <1>4, SumRemove
<1> HIDE DEF S3
<1>8. SumFunctionOnSet(f, S3) = f[3] + SumFunctionOnSet(f, S4)
  BY <1>1, <1>3, <1>4, SumRemove
<1> HIDE DEF S4
<1>9. SumFunctionOnSet(f, S4) = f[4] + SumFunctionOnSet(f, S5)
  BY <1>1, <1>3, <1>4, SumRemove
<1> HIDE DEF S5
<1>10. SumFunctionOnSet(f, S5) = f[5] + SumFunctionOnSet(f, S6)
  BY <1>1, <1>3, <1>4, SumRemove
<1>11. SumFunctionOnSet(f, S6) = 0
  <2> HIDE DEF S6
  <2>1. S6 = {}
    BY <1>0
  <2> QED BY <2>1, SumEmpty
<1> QED BY <1>5, <1>6, <1>7, <1>8, <1>9, <1>10, <1>11

\* CalculateReward is a hundredth of Percent, rounded down, from the minimum stake on.
LEMMA RewardIsPercent ==
  ASSUME NEW s \in Nat
  PROVE  /\ Percent(s) \in Nat
         /\ CalculateReward(s) = IF s < 100 THEN 0 ELSE Percent(s) \div 100
<1> DEFINE B == Brackets
           o1 == Over(s, 1001)
           o2 == Over(s, 10001)
           o3 == Over(s, 100001)
           o4 == Over(s, 1000001)
           f == [i \in 1 .. 5 |-> TokensIn(B, s, i) * B[i].apy]
<1>1. /\ Len(B) = 5
      /\ B[1].above = 0 /\ B[2].above = 1001 /\ B[3].above = 10001 /\ B[4].above = 100001
      /\ B[5].above = 1000001
      /\ B[1].apy = 15 /\ B[2].apy = 8 /\ B[3].apy = 4 /\ B[4].apy = 2 /\ B[5].apy = 1
  BY DEF Brackets
<1>2. /\ o1 \in Nat /\ o2 \in Nat /\ o3 \in Nat /\ o4 \in Nat /\ Over(s, 0) = s
      /\ o1 <= s /\ o2 <= o1 /\ o3 <= o2 /\ o4 <= o3
  BY DEF Over
<1>3. /\ TokensIn(B, s, 1) = s - o1 /\ TokensIn(B, s, 2) = o1 - o2
      /\ TokensIn(B, s, 3) = o2 - o3 /\ TokensIn(B, s, 4) = o3 - o4
      /\ TokensIn(B, s, 5) = o4
  BY <1>1, <1>2 DEF TokensIn
<1> HIDE DEF B, o1, o2, o3, o4
<1>4. /\ f[1] = (s - o1) * 15 /\ f[2] = (o1 - o2) * 8 /\ f[3] = (o2 - o3) * 4
      /\ f[4] = (o3 - o4) * 2 /\ f[5] = o4 * 1
  BY <1>1, <1>3
<1>5. f[1] \in Int /\ f[2] \in Int /\ f[3] \in Int /\ f[4] \in Int /\ f[5] \in Int /\ DOMAIN f = 1 .. 5
  BY <1>2, <1>4
<1> HIDE DEF f
<1>6. \A i \in 1 .. 5 : f[i] \in Int
  <2>1. \A i \in 1 .. 5 : i = 1 \/ i = 2 \/ i = 3 \/ i = 4 \/ i = 5
    OBVIOUS
  <2> QED BY <1>5, <2>1
<1>7. SumFunctionOnSet(f, 1 .. 5) = f[1] + f[2] + f[3] + f[4] + f[5]
  BY <1>5, <1>6, FiveBrackets
<1>8. Percent(s) = f[1] + f[2] + f[3] + f[4] + f[5]
  BY <1>2, <1>4 DEF Percent, o1, o2, o3, o4
<1>9. Percent(s) \in Nat
  BY <1>2, <1>4, <1>8
<1>10. CalculateReward(s) = IF s < 100 THEN 0 ELSE SumFunction(f) \div 100
  BY <1>1 DEF CalculateReward, MarginalReward, MinStake, f, B
<1>11. SumFunction(f) = Percent(s)
  BY <1>5, <1>7, <1>8, StakingSums
<1> QED BY <1>9, <1>10, <1>11

\* A reward is a natural number.
LEMMA RewardNat ==
  ASSUME NEW s \in Nat
  PROVE  CalculateReward(s) \in Nat
<1>1. \A n \in Nat : n \div 100 \in Nat
  OBVIOUS
<1> QED BY <1>1, RewardIsPercent

-----------------------------------------------------------------------------
(* Smaller stakes have the higher yield. *)

\* The part of a stake above a bound grows with the stake.
LEMMA OverConvex ==
  ASSUME NEW s \in Nat, NEW t \in Nat, s < t, NEW b \in Nat
  PROVE  Over(s, b) * t <= Over(t, b) * s
<1>1. CASE s <= b
  <2>1. Over(s, b) = 0 /\ Over(t, b) \in Nat
    BY <1>1, OverNat DEF Over
  <2>2. 0 * t = 0 /\ \A n \in Nat : n * s >= 0
    OBVIOUS
  <2> QED BY <2>1, <2>2
<1>2. CASE s > b
  <2>1. Over(s, b) = s - b /\ Over(t, b) = t - b
    BY <1>2 DEF Over
  <2>2. (s - b) * t = s * t - b * t /\ (t - b) * s = s * t - b * s /\ b * s <= b * t
        /\ s * t \in Nat /\ b * t \in Nat /\ b * s \in Nat
    OBVIOUS
  <2> QED BY <2>1, <2>2
<1> QED BY <1>1, <1>2

\* Per token, the larger stake is promised no more.
LEMMA PercentConcave ==
  ASSUME NEW s \in Nat, NEW t \in Nat, s < t
  PROVE  Percent(t) * s <= Percent(s) * t
<1> DEFINE a1 == Over(s, 1001)
           a2 == Over(s, 10001)
           a3 == Over(s, 100001)
           a4 == Over(s, 1000001)
           b1 == Over(t, 1001)
           b2 == Over(t, 10001)
           b3 == Over(t, 100001)
           b4 == Over(t, 1000001)
<1>1. /\ a1 \in Nat /\ a2 \in Nat /\ a3 \in Nat /\ a4 \in Nat
      /\ b1 \in Nat /\ b2 \in Nat /\ b3 \in Nat /\ b4 \in Nat
  BY DEF Over
<1>2. a1 * t <= b1 * s /\ a2 * t <= b2 * s /\ a3 * t <= b3 * s /\ a4 * t <= b4 * s
  BY OverConvex
<1>3. /\ Percent(s) = 15 * s - 7 * a1 - 4 * a2 - 2 * a3 - a4
      /\ Percent(t) = 15 * t - 7 * b1 - 4 * b2 - 2 * b3 - b4
  BY DEF Percent
<1> HIDE DEF a1, a2, a3, a4, b1, b2, b3, b4
<1>4. ASSUME NEW x \in Nat, NEW y \in Nat, NEW c1 \in Nat, NEW c2 \in Nat, NEW c3 \in Nat, NEW c4 \in Nat
      PROVE  (15 * x - 7 * c1 - 4 * c2 - 2 * c3 - c4) * y
               = 15 * (x * y) - 7 * (c1 * y) - 4 * (c2 * y) - 2 * (c3 * y) - c4 * y
  <2>1. \A m, n \in Int : (m - n) * y = m * y - n * y
    OBVIOUS
  <2>2. /\ 15 * x - 7 * c1 - 4 * c2 - 2 * c3 \in Int /\ 15 * x - 7 * c1 - 4 * c2 \in Int
        /\ 15 * x - 7 * c1 \in Int /\ 15 * x \in Int /\ 7 * c1 \in Int /\ 4 * c2 \in Int
        /\ 2 * c3 \in Int /\ c4 \in Int
    OBVIOUS
  <2>3. (15 * x - 7 * c1 - 4 * c2 - 2 * c3 - c4) * y
           = (15 * x) * y - (7 * c1) * y - (4 * c2) * y - (2 * c3) * y - c4 * y
    BY <2>1, <2>2
  <2>4. /\ (15 * x) * y = 15 * (x * y) /\ (7 * c1) * y = 7 * (c1 * y)
        /\ (4 * c2) * y = 4 * (c2 * y) /\ (2 * c3) * y = 2 * (c3 * y)
    OBVIOUS
  <2> QED BY <2>3, <2>4
<1>5. Percent(s) * t = 15 * (s * t) - 7 * (a1 * t) - 4 * (a2 * t) - 2 * (a3 * t) - a4 * t
  BY <1>1, <1>3, <1>4
<1>6. Percent(t) * s = 15 * (t * s) - 7 * (b1 * s) - 4 * (b2 * s) - 2 * (b3 * s) - b4 * s
  BY <1>1, <1>3, <1>4
<1>7. /\ s * t = t * s /\ s * t \in Nat
      /\ a1 * t \in Nat /\ a2 * t \in Nat /\ a3 * t \in Nat /\ a4 * t \in Nat
      /\ b1 * s \in Nat /\ b2 * s \in Nat /\ b3 * s \in Nat /\ b4 * s \in Nat
  BY <1>1
<1> QED BY <1>2, <1>5, <1>6, <1>7

\* Per token, the larger stake earns no more, up to the rounding of one token.
LEMMA YieldFalls ==
  ASSUME NEW s \in Nat, NEW t \in Nat, 100 <= s, s < t
  PROVE  (CalculateReward(s) + 1) * t > CalculateReward(t) * s
<1> DEFINE p == Percent(s)
           q == Percent(t)
           r == CalculateReward(s)
           z == CalculateReward(t)
<1>1. p \in Nat /\ q \in Nat /\ r = p \div 100 /\ z = q \div 100
  BY RewardIsPercent
<1>2. q * s <= p * t
  BY PercentConcave
<1> HIDE DEF p, q, r, z
<1>3. r \in Nat /\ z \in Nat /\ p < 100 * (r + 1) /\ 100 * z <= q
  BY <1>1
<1>4. p * t < (100 * (r + 1)) * t
  <2>1. \A m, n \in Nat : m < n => m * t < n * t
    OBVIOUS
  <2> QED BY <1>1, <1>3, <2>1
<1>5. (100 * z) * s <= q * s
  <2>1. \A m, n \in Nat : m <= n => m * s <= n * s
    OBVIOUS
  <2> QED BY <1>1, <1>3, <2>1
<1>6. /\ (100 * (r + 1)) * t = 100 * ((r + 1) * t) /\ (100 * z) * s = 100 * (z * s)
      /\ (r + 1) * t \in Nat /\ z * s \in Nat /\ p * t \in Nat /\ q * s \in Nat
  BY <1>1, <1>3
<1>7. (r + 1) * t > z * s
  BY <1>2, <1>4, <1>5, <1>6
<1> QED BY <1>7 DEF r, z

-----------------------------------------------------------------------------
(* What a block pays. *)

\* Rounding down, t parts of n are no more than n.
LEMMA ShareBound ==
  ASSUME NEW n \in Nat, NEW t \in Nat, t > 0
  PROVE  n \div t \in Nat /\ t * (n \div t) <= n
OBVIOUS

\* The parts that validators get of what is available are together at most that.
LEMMA PaidWithinAvailable ==
  ASSUME NEW c \in [Validators -> Nat], NEW a \in Nat, NEW t \in Nat, t > 0,
         t = SumFunctionOnSet(c, Validators),
         NEW r, r = [v \in Validators |-> (a * c[v]) \div t]
  PROVE  /\ r \in [Validators -> Nat]
         /\ SumFunctionOnSet(r, Validators) \in Nat
         /\ SumFunctionOnSet(r, Validators) <= a
<1>1. IsFiniteSet(Validators)
  BY StakingSums, StakingAssumption
<1>2. \A v \in Validators : a * c[v] \in Nat /\ c[v] \in Nat
  OBVIOUS
<1>3. \A v \in Validators : r[v] \in Nat /\ t * r[v] <= a * c[v]
  <2> TAKE v \in Validators
  <2>1. r[v] = (a * c[v]) \div t
    OBVIOUS
  <2> QED BY <1>2, <2>1, ShareBound
<1>4. DOMAIN r = Validators /\ r = [v \in Validators |-> r[v]]
  OBVIOUS
<1>5. r \in [Validators -> Nat]
  BY <1>3, <1>4
<1> DEFINE P == SumFunctionOnSet(r, Validators)
<1>6. P \in Nat
  BY <1>1, <1>3, SumNat
<1>7. t * P <= a * t
  <2>1. \A v \in Validators : r[v] \in Int /\ c[v] \in Int /\ t * r[v] <= a * c[v]
    BY <1>2, <1>3
  <2>2. t \in Int /\ a \in Int
    OBVIOUS
  <2>3. t * SumFunctionOnSet(r, Validators) <= a * SumFunctionOnSet(c, Validators)
    BY <1>1, <2>1, <2>2, SumScaledBound
  <2> QED BY <2>3
<1> HIDE DEF P
<1>8. P <= a
  <2>1. SUFFICES ASSUME P > a PROVE FALSE
    BY <1>6
  <2>2. t * P > t * a
    BY <1>6, <2>1
  <2> QED BY <1>6, <1>7, <2>2
<1> QED BY <1>5, <1>6, <1>8 DEF P

\* The state that the books depend on.
StakingTypes ==
  /\ stake \in [Validators -> Nat] /\ balance \in [Validators -> Nat]
  /\ rate \in Nat /\ accrued \in Nat /\ owed \in Nat /\ epochMinted \in Nat /\ blockHeight \in Nat

\* The carry, what is available of it, the parts of the validators and their sum.
Carry == IF TotalAnnual = 0 THEN accrued ELSE accrued + PerBlockEmission
Slice == IF TotalAnnual = 0 THEN 0 ELSE Available(Carry, EpochMintedAt(blockHeight + 1))
Parts == [v \in Validators |-> IF TotalAnnual = 0 THEN 0
            ELSE (Slice * CalculateReward(stake[v])) \div TotalAnnual]
Paid == SumFunctionOnSet(Parts, Validators)

\* What a block pays is within the slice, the slice within the carry and the cap.
LEMMA BlockPays ==
  ASSUME StakingTypes
  PROVE  /\ Carry \in Nat /\ accrued <= Carry /\ Slice \in Nat /\ 1314 * Slice <= Carry
         /\ Parts \in [Validators -> Nat] /\ Paid \in Nat /\ Paid <= Slice
         /\ EpochMintedAt(blockHeight + 1) \in Nat /\ EpochCap \in Nat
         /\ EpochCap > 0 /\ Slice > 0 => EpochMintedAt(blockHeight + 1) + Slice <= EpochCap
<1> DEFINE c == [v \in Validators |-> CalculateReward(stake[v])]
           t == TotalAnnual
           m == EpochMintedAt(blockHeight + 1)
           K == EpochCap
<1>1. IsFiniteSet(Validators) /\ EpochLength \in Nat \ {0}
  BY StakingSums, StakingAssumption
<1>2. c \in [Validators -> Nat] /\ t = SumFunctionOnSet(c, Validators)
  <2>1. \A v \in Validators : CalculateReward(stake[v]) \in Nat
    BY RewardNat DEF StakingTypes
  <2>2. t = SumFunctionOnSet(c, Validators)
    BY StakingSums DEF TotalAnnual
  <2> QED BY <2>1, <2>2
<1>3. t \in Nat
  <2> HIDE DEF c
  <2>1. \A v \in Validators : c[v] \in Nat
    BY <1>2
  <2> QED BY <1>1, <1>2, <2>1, SumNat
<1>4. m \in Nat
  BY DEF EpochMintedAt, StakingTypes
<1>5. PerBlockEmission \in Nat
  BY DEF PerBlockEmission, StakingTypes
<1>6. K \in Nat
  <2>1. PerBlockEmission * EpochLength \in Nat
    BY <1>1, <1>5
  <2>2. \A n \in Nat : n \div 1314 \in Nat
    OBVIOUS
  <2> QED BY <2>1, <2>2 DEF EpochCap, Unit
<1> HIDE DEF t, m, K, c
<1>7. Carry \in Nat /\ accrued <= Carry
  BY <1>5 DEF Carry, StakingTypes
<1>8. /\ Slice \in Nat /\ 1314 * Slice <= Carry
      /\ K > 0 /\ Slice > 0 => m + Slice <= K
  <2> DEFINE w == Carry \div 1314
  <2>1. w \in Nat /\ 1314 * w <= Carry
    BY <1>7
  <2>2. Slice = IF t = 0 THEN 0 ELSE IF K = 0 THEN w ELSE IF m >= K THEN 0
                ELSE IF m + w > K THEN K - m ELSE w
    BY DEF Slice, Available, Unit, t, m, K
  <2> HIDE DEF w
  <2> QED BY <1>4, <1>6, <1>7, <2>1, <2>2
<1>9. Parts \in [Validators -> Nat] /\ Paid \in Nat /\ Paid <= Slice
  <2>1. CASE t = 0
    <3>1. Parts = [v \in Validators |-> 0]
      BY <2>1 DEF Parts, t
    <3>2. Paid = 0
      <4>1. \A v \in Validators : Parts[v] = 0
        BY <3>1
      <4> QED BY <1>1, <4>1, SumZero DEF Paid
    <3> QED BY <1>8, <3>1, <3>2
  <2>2. CASE t # 0
    <3>1. t > 0
      BY <1>3, <2>2
    <3>2. Parts = [v \in Validators |-> (Slice * c[v]) \div t]
      BY <2>2 DEF Parts, t, c
    <3> QED BY <1>2, <1>3, <1>8, <3>1, <3>2, PaidWithinAvailable DEF Paid
  <2> QED BY <2>1, <2>2
<1> QED BY <1>4, <1>6, <1>7, <1>8, <1>9 DEF m, K

\* ProduceBlock in terms of what it pays.
LEMMA BlockStep ==
  ASSUME StakingTypes, ProduceBlock
  PROVE  /\ accrued' = Carry - 1314 * Paid
         /\ epochMinted' = EpochMintedAt(blockHeight + 1) + Paid
         /\ balance' = [v \in Validators |-> balance[v] + Parts[v]]
         /\ owed' = owed + (Carry - accrued)
         /\ blockHeight' = blockHeight + 1 /\ UNCHANGED <<stake, rate>>
<1>1. Paid \in Nat
  BY BlockPays
<1>2. Total(Parts) = Paid
  BY StakingSums DEF Paid
<1>3. accrued' = Carry - (IF Paid = 0 THEN 0 ELSE 1314 * Paid)
  BY <1>2 DEF ProduceBlock, Carry, Slice, Parts, LeavesCarry, Unit
<1>4. /\ epochMinted' = EpochMintedAt(blockHeight + 1) + Paid
      /\ balance' = [v \in Validators |-> balance[v] + Parts[v]]
      /\ owed' = owed + (Carry - accrued)
      /\ blockHeight' = blockHeight + 1 /\ UNCHANGED <<stake, rate>>
  BY <1>2 DEF ProduceBlock, Carry, Slice, Parts
<1>5. 1314 * 0 = 0
  OBVIOUS
<1> QED BY <1>1, <1>3, <1>4, <1>5

\* The balances grow by what a block pays.
LEMMA BalanceGrows ==
  ASSUME StakingTypes, ProduceBlock
  PROVE  /\ balance' \in [Validators -> Nat] /\ Total(balance) \in Nat
         /\ Total(balance') = Total(balance) + Paid
<1>1. Parts \in [Validators -> Nat] /\ balance \in [Validators -> Nat]
  BY BlockPays DEF StakingTypes
<1>2. balance' = [v \in Validators |-> balance[v] + Parts[v]]
  BY BlockStep
<1>3. \A v \in Validators : /\ balance[v] \in Nat /\ Parts[v] \in Nat
                            /\ balance'[v] = balance[v] + Parts[v]
  BY <1>1, <1>2
<1>4. balance' \in [Validators -> Nat]
  BY <1>2, <1>3
<1>5. IsFiniteSet(Validators)
  BY StakingSums, StakingAssumption
<1>6. SumFunctionOnSet(balance, Validators) \in Nat
  BY <1>3, <1>5, SumNat
<1>7. SumFunctionOnSet(balance', Validators) = SumFunctionOnSet(balance, Validators) + Paid
  <2>1. \A v \in Validators : /\ balance[v] \in Int /\ Parts[v] \in Int
                              /\ balance'[v] = balance[v] + Parts[v]
    BY <1>3
  <2> QED BY <1>5, <2>1, SumAdd DEF Paid
<1> QED BY <1>4, <1>6, <1>7, StakingSums

\* Every step keeps the types: the carry is never negative.
LEMMA StakingTypeStep ==
  ASSUME StakingTypes, [StakingNext]_stakingVars
  PROVE  StakingTypes'
<1>1. CASE ProduceBlock
  <2>1. accrued' \in Nat
    <3>1. /\ Carry \in Nat /\ Slice \in Nat /\ 1314 * Slice <= Carry /\ Paid \in Nat /\ Paid <= Slice
          /\ accrued' = Carry - 1314 * Paid
      BY <1>1, BlockPays, BlockStep
    <3> QED BY <3>1
  <2>2. owed' \in Nat /\ epochMinted' \in Nat /\ blockHeight' \in Nat /\ rate' = rate /\ stake' = stake
    <3>1. /\ Carry \in Nat /\ accrued <= Carry /\ Paid \in Nat /\ EpochMintedAt(blockHeight + 1) \in Nat
          /\ owed' = owed + (Carry - accrued) /\ blockHeight' = blockHeight + 1
          /\ epochMinted' = EpochMintedAt(blockHeight + 1) + Paid /\ rate' = rate /\ stake' = stake
      BY <1>1, BlockPays, BlockStep
    <3> QED BY <3>1 DEF StakingTypes
  <2> QED BY <1>1, <2>1, <2>2, BalanceGrows DEF StakingTypes
<1>2. ASSUME NEW v \in Validators, NEW s \in StakeSizes, RegisterStake(v, s) PROVE StakingTypes'
  <2>1. s \in Nat
    BY StakingAssumption
  <2> QED BY <1>2, <2>1 DEF RegisterStake, Change, StakingTypes
<1>3. ASSUME NEW v \in Validators, RemoveStake(v) \/ ClaimReward(v) PROVE StakingTypes'
  BY <1>3 DEF RemoveStake, ClaimReward, Change, StakingTypes
<1>4. ASSUME NEW p \in Rates, SetInflation(p) PROVE StakingTypes'
  <2>1. p \in Nat
    BY StakingAssumption
  <2> QED BY <1>4, <2>1 DEF SetInflation, Change, StakingTypes
<1>5. CASE UNCHANGED stakingVars
  BY <1>5 DEF stakingVars, StakingTypes
<1> QED BY <1>1, <1>2, <1>3, <1>4, <1>5 DEF StakingNext, AtBound

\* The types hold always.
LEMMA StakingTyped == StakingSpec => []StakingTypes
<1>1. StakingInit => StakingTypes
  BY DEF StakingInit, Zero, StakingTypes
<1>2. StakingTypes /\ [StakingNext]_stakingVars => StakingTypes'
  BY StakingTypeStep
<1> QED BY <1>1, <1>2, PTL DEF StakingSpec

\* What has been paid and the carry are together all that has been emitted, for
\* any validators, stakes, rates and epochs, through all the roundings.
THEOREM EmissionKept == StakingSpec => []NoEmissionLost
<1>1. StakingInit => NoEmissionLost
  <2> SUFFICES ASSUME StakingInit PROVE NoEmissionLost
    OBVIOUS
  <2>1. IsFiniteSet(Validators)
    BY StakingSums, StakingAssumption
  <2>2. \A v \in Validators : balance[v] = 0
    BY DEF StakingInit, Zero
  <2>3. Total(balance) = 0
    BY <2>1, <2>2, StakingSums, SumZero
  <2> QED BY <2>3 DEF StakingInit, NoEmissionLost, Unit
<1>2. StakingTypes /\ NoEmissionLost /\ [StakingNext]_stakingVars => NoEmissionLost'
  <2> SUFFICES ASSUME StakingTypes, NoEmissionLost, [StakingNext]_stakingVars PROVE NoEmissionLost'
    OBVIOUS
  <2>1. CASE ProduceBlock
    <3>1. /\ Carry \in Nat /\ Paid \in Nat /\ accrued \in Nat /\ owed \in Nat
          /\ accrued' = Carry - 1314 * Paid /\ owed' = owed + (Carry - accrued)
      BY <2>1, BlockPays, BlockStep DEF StakingTypes
    <3>2. Total(balance) \in Nat /\ Total(balance') = Total(balance) + Paid
      BY <2>1, BalanceGrows
    <3>3. 1314 * Total(balance) + accrued = owed
      BY DEF NoEmissionLost, Unit
    <3>4. PICK c \in Nat, p \in Nat, t \in Nat, u \in Nat :
            c = Carry /\ p = Paid /\ t = Total(balance) /\ u = Total(balance')
      <4>1. Total(balance') \in Nat
        BY <3>1, <3>2
      <4> QED BY <3>1, <3>2, <4>1, Zenon
    <3>5. 1314 * u + (c - 1314 * p) = owed + (c - accrued)
      <4>1. u = t + p /\ 1314 * t + accrued = owed
        BY <3>2, <3>3, <3>4
      <4> QED BY <3>1, <4>1
    <3>6. 1314 * Total(balance') + accrued' = owed'
      BY <3>1, <3>4, <3>5
    <3> QED BY <3>6 DEF NoEmissionLost, Unit, Total
  <2>2. CASE UNCHANGED <<balance, accrued, owed>>
    BY <2>2, StakingSums DEF NoEmissionLost, Unit
  <2> QED BY <2>1, <2>2 DEF StakingNext, RegisterStake, RemoveStake, ClaimReward,
             SetInflation, Change, AtBound, stakingVars
<1> QED BY <1>1, <1>2, StakingTyped, PTL DEF StakingSpec

\* No block mints past the cap of its epoch, whenever rates and stakes change.
THEOREM EpochIsCapped == StakingSpec => EpochCapped
<1>1. StakingTypes /\ [StakingNext]_stakingVars
        => [Total(balance') > Total(balance) /\ EpochCap > 0
              => epochMinted' <= EpochCap]_stakingVars
  <2> SUFFICES ASSUME StakingTypes, [StakingNext]_stakingVars, Total(balance') > Total(balance),
                      EpochCap > 0
               PROVE  epochMinted' <= EpochCap
    OBVIOUS
  <2>1. CASE ProduceBlock
    <3>1. Total(balance) \in Nat /\ Total(balance') = Total(balance) + Paid
      BY <2>1, BalanceGrows
    <3>2. /\ Paid \in Nat /\ Slice \in Nat /\ Paid <= Slice /\ EpochMintedAt(blockHeight + 1) \in Nat
          /\ EpochCap \in Nat
          /\ EpochCap > 0 /\ Slice > 0 => EpochMintedAt(blockHeight + 1) + Slice <= EpochCap
          /\ epochMinted' = EpochMintedAt(blockHeight + 1) + Paid
      BY <2>1, BlockPays, BlockStep
    <3> QED BY <3>1, <3>2
  <2>2. CASE UNCHANGED balance
    <3>1. \A v \in Validators : balance[v] \in Nat
      BY DEF StakingTypes
    <3>2. IsFiniteSet(Validators)
      BY StakingSums, StakingAssumption
    <3>3. Total(balance) \in Nat /\ Total(balance') = Total(balance)
      BY <2>2, <3>1, <3>2, SumNat, StakingSums
    <3> QED BY <3>3
  <2> QED BY <2>1, <2>2 DEF StakingNext, RegisterStake, RemoveStake, ClaimReward,
             SetInflation, Change, AtBound, stakingVars
<1> QED BY <1>1, StakingTyped, PTL DEF StakingSpec, EpochCapped

\* Of two rewarded stakes, of whatever size, the larger one never has the higher
\* yield, up to the rounding of one token.
THEOREM SmallerStakesEarnMore == StakingSpec => []AntiWhale
<1>1. StakingTypes => AntiWhale
  <2> SUFFICES ASSUME StakingTypes, NEW v \in Validators, NEW w \in Validators,
                      100 <= stake[v], stake[v] < stake[w]
               PROVE  (CalculateReward(stake[v]) + 1) * stake[w]
                          > CalculateReward(stake[w]) * stake[v]
    BY DEF AntiWhale, MinStake
  <2>1. stake[v] \in Nat /\ stake[w] \in Nat
    BY DEF StakingTypes
  <2> QED BY <2>1, YieldFalls
<1> QED BY <1>1, StakingTyped, PTL

-----------------------------------------------------------------------------
(* The task registry. *)

USE TaskAssumption

(* A payment out of a balance that covers it leaves every balance a        *)
(* natural number, also when payer and payee are the same.                 *)
LEMMA TransferType ==
  ASSUME NEW b \in [Holders -> Nat], NEW from \in Holders, NEW to \in Holders, NEW n \in Nat,
         b[from] >= n
  PROVE  Transfer(b, from, to, n) \in [Holders -> Nat]
<1> DEFINE b1 == [b EXCEPT ![from] = @ - n]
<1>1. b1 \in [Holders -> Nat]
  OBVIOUS
<1> HIDE DEF b1
<1>2. [b1 EXCEPT ![to] = @ + n] \in [Holders -> Nat]
  BY <1>1
<1> QED BY <1>2 DEF Transfer, b1

\* The counter of calls stays within its bound.
LEMMA CallType == TypeOK /\ Call => calls' \in 0..MaxCalls
  BY DEF TypeOK, Call

\* Accounts, addresses and the three system accounts are holders.
LEMMA HoldersOf ==
  /\ Accounts \subseteq Holders /\ Addrs \subseteq Holders
  /\ "treasury" \in Holders /\ "registry" \in Holders /\ "pool" \in Holders
  BY DEF Holders

(* verifyAndPay keeps the types and pays at most what it counts. *)
LEMMA VerifyAndPayType ==
  ASSUME TypeOK, NEW t \in Tasks, NEW c \in Addrs, VerifyAndPay(t, c)
  PROVE  TypeOK'
<1>1. RewardOf[t] \in Nat
  OBVIOUS
<1>2. bal' \in [Holders -> Nat]
  <2>1. bal \in [Holders -> Nat] /\ c \in Holders /\ "treasury" \in Holders
    BY HoldersOf DEF TypeOK
  <2>2. \/ bal["treasury"] >= RewardOf[t] /\ bal' = Transfer(bal, "treasury", c, RewardOf[t])
        \/ bal' = bal
    BY DEF VerifyAndPay, TaskReward, Funded
  <2> QED BY <1>1, <2>1, <2>2, TransferType
<1>3. paid' \in Nat /\ moved' \in Nat
  BY <1>1 DEF VerifyAndPay, TaskReward, TypeOK
<1>4. claim' \in [Holders -> [task: Tasks \cup {"none"}, status: {"none", "claimed", "verified"}]]
  BY HoldersOf DEF VerifyAndPay, TypeOK
<1>5. calls' \in 0..MaxCalls
  BY CallType DEF VerifyAndPay
<1> QED BY <1>2, <1>3, <1>4, <1>5 DEF VerifyAndPay, TypeOK, bounties, shared

\* The calls about quests keep the types.
LEMMA QuestType ==
  ASSUME TypeOK, Quest PROVE TypeOK'
<1>1. ASSUME NEW a \in Accounts, NEW t \in Tasks, TaskClaim(a, t) PROVE TypeOK'
  <2>1. claim' \in [Holders -> [task: Tasks \cup {"none"},
                                status: {"none", "claimed", "verified"}]]
    BY <1>1, HoldersOf DEF TaskClaim, TypeOK
  <2> QED BY <1>1, <2>1, CallType DEF TaskClaim, TypeOK, bounties, shared
<1>2. ASSUME NEW a \in Accounts, NEW t \in Tasks, NEW c \in Addrs,
             TaskVerify(a, t, c) \/ TaskAutoVerify(a, t, c)
      PROVE  TypeOK'
  BY <1>2, VerifyAndPayType DEF TaskVerify, TaskAutoVerify
<1>3. ASSUME NEW a \in Accounts, NEW c \in Addrs \cup {NoAddr}, QuestSetAutopilot(a, c)
      PROVE  TypeOK'
  BY <1>3, CallType DEF QuestSetAutopilot, TypeOK, bounties, shared
<1>4. ASSUME NEW n \in Amounts, QuestFund(n) PROVE TypeOK'
  <2>1. bal' \in [Holders -> Nat] /\ made' \in Nat
    BY <1>4, HoldersOf DEF QuestFund, TypeOK
  <2> QED BY <1>4, <2>1, CallType DEF QuestFund, TypeOK, quest, bounties, shared
<1>5. ASSUME NEW n \in Amounts, QuestAddSupply(n) PROVE TypeOK'
  <2>1. supply' \in Nat
    BY <1>5 DEF QuestAddSupply, TypeOK
  <2> QED BY <1>5, <2>1, CallType DEF QuestAddSupply, TypeOK, bounties, shared
<1>6. ASSUME NEW a \in Accounts, GiveawayClaim(a) PROVE TypeOK'
  <2>1. bal' \in [Holders -> Nat]
    BY <1>6, TransferType, HoldersOf DEF GiveawayClaim, PoolPays, TypeOK
  <2> QED BY <1>6, <2>1, CallType DEF GiveawayClaim, TypeOK, quest, bounties, shared
<1> QED BY <1>1, <1>2, <1>3, <1>4, <1>5, <1>6 DEF Quest

\* The calls about bounties keep the types.
LEMMA BountyType ==
  ASSUME TypeOK, Bounty PROVE TypeOK'
<1>1. ASSUME NEW b \in Bounties, NEW head \in {0, 1}, NEW n \in Amounts, RegisterBounty(b, head, n)
      PROVE  TypeOK'
  <2>1. BountyWord(head, n) \in Nat
    BY DEF BountyWord
  <2>2. bounty' \in [Bounties -> Nat]
    BY <1>1, <2>1 DEF RegisterBounty, TypeOK
  <2> QED BY <1>1, <2>2, CallType DEF RegisterBounty, TypeOK, quest, shared
<1>2. ASSUME NEW a \in Holders, NEW b \in Bounties, NEW v \in {"claimed", "verified"},
             fixes' = [fixes EXCEPT ![a][b] = v]
      PROVE  fixes' \in [Holders -> [Bounties -> {"none", "claimed", "verified"}]]
  BY <1>2 DEF TypeOK
<1>3. ASSUME NEW a \in Accounts, NEW b \in Bounties, ClaimFix(a, b) PROVE TypeOK'
  <2>1. fixes' \in [Holders -> [Bounties -> {"none", "claimed", "verified"}]]
    BY <1>2, <1>3, HoldersOf DEF ClaimFix
  <2> QED BY <1>3, <2>1, CallType DEF ClaimFix, TypeOK, quest, shared
<1>4. ASSUME NEW a \in Accounts, NEW b \in Bounties, NEW c \in Addrs, VerifyFix(a, b, c)
      PROVE  TypeOK'
  <2>1. fixes' \in [Holders -> [Bounties -> {"none", "claimed", "verified"}]]
    BY <1>2, <1>4, HoldersOf DEF VerifyFix
  <2>2. bounty[b] \in Nat
    BY DEF TypeOK
  <2>3. bal' \in [Holders -> Nat]
    BY <1>4, <2>2, TransferType, HoldersOf DEF VerifyFix, Funded, TypeOK
  <2> QED BY <1>4, <2>1, <2>3, CallType DEF VerifyFix, TypeOK, quest, shared
<1>5. ASSUME NEW a \in Accounts, NEW b \in Bounties, NEW c \in Addrs, NEW n \in Amounts,
             DelegateMicroTask(a, b, c, n)
      PROVE  TypeOK'
  <2>1. n * Shift \in Nat
    OBVIOUS
  <2>2. delegated' \in [Accounts -> [Bounties -> [Addrs -> Nat]]]
    BY <1>5, <2>1 DEF DelegateMicroTask, TypeOK
  <2> QED BY <1>5, <2>2, CallType DEF DelegateMicroTask, TypeOK, quest, shared
<1> QED BY <1>1, <1>3, <1>4, <1>5 DEF Bounty

\* The calls about community tasks keep the types.
LEMMA CommunityType ==
  ASSUME TypeOK, Community PROVE TypeOK'
<1>1. ASSUME NEW t \in Tasks, NEW n \in Amounts, NEW minLevel \in {0, 1}, NEW mode \in {0, 1},
             CreateTask(t, n, minLevel, mode)
      PROVE  TypeOK'
  <2>1. task' \in [Tasks -> [minLevel: {0, 1}, mode: {0, 1}, reward: Nat]]
    BY <1>1 DEF CreateTask, TypeOK
  <2> QED BY <1>1, <2>1, CallType DEF CreateTask, TypeOK, quest, bounties
<1>2. ASSUME NEW a \in Accounts, NEW t \in Tasks, NEW n \in Amounts, EscrowTask(a, t, n)
      PROVE  TypeOK'
  <2>1. bal' \in [Holders -> Nat]
    BY <1>2, TransferType, HoldersOf DEF EscrowTask, TypeOK
  <2>2. escrow' \in [Tasks -> Nat]
    BY <1>2 DEF EscrowTask, TypeOK
  <2> QED BY <1>2, <2>1, <2>2, CallType DEF EscrowTask, TypeOK, quest, bounties
<1>3. ASSUME NEW a \in Accounts, NEW t \in Tasks, NEW c \in Addrs, VerifyCommunity(a, t, c)
      PROVE  TypeOK'
  <2> DEFINE n == task[t].reward
             payer == IF escrow[t] > 0 THEN "registry" ELSE "treasury"
  <2>1. n \in Nat /\ payer \in Holders /\ c \in Holders
    BY HoldersOf DEF TypeOK
  <2>2. \/ bal[payer] >= n /\ bal' = Transfer(bal, payer, c, n) /\ made' = made
        \/ bal' = [bal EXCEPT ![c] = @ + n] /\ made' = made + n
    BY <1>3 DEF VerifyCommunity
  <2>3. claim' = [claim EXCEPT ![c] = [task |-> t, status |-> "verified"]]
    BY <1>3 DEF VerifyCommunity
  <2>4. escrow' = [escrow EXCEPT ![t] = IF @ > n THEN @ - n ELSE 0]
    BY <1>3 DEF VerifyCommunity
  <2> HIDE DEF n, payer
  <2>5. bal' \in [Holders -> Nat] /\ made' \in Nat
    BY <2>1, <2>2, TransferType DEF TypeOK
  <2>6. claim' \in [Holders -> [task: Tasks \cup {"none"},
                                status: {"none", "claimed", "verified"}]]
    BY <2>1, <2>3 DEF TypeOK
  <2>7. escrow' \in [Tasks -> Nat]
    BY <2>1, <2>4 DEF TypeOK
  <2> QED BY <1>3, <2>5, <2>6, <2>7, CallType DEF VerifyCommunity, TypeOK, bounties
<1> QED BY <1>1, <1>2, <1>3 DEF Community

\* Every step keeps the types.
LEMMA TypeInductive == TypeOK /\ [Next]_vars => TypeOK'
<1>1. TypeOK /\ UNCHANGED vars => TypeOK'
  BY DEF TypeOK, vars, quest, bounties, shared
<1> QED BY <1>1, QuestType, BountyType, CommunityType DEF Next, View

(* Every variable keeps its type: no call overdraws the treasury, the      *)
(* registry, the pool or an account.                                       *)
THEOREM TaskTypeCorrect == Spec => []TypeOK
<1>1. Init => TypeOK
  BY HoldersOf DEF Init, TypeOK, NoClaim, NoTask
<1> QED BY <1>1, TypeInductive, PTL DEF Spec

-----------------------------------------------------------------------------
(* The cap never falls. *)
LEMMA CapGrows ==
  ASSUME NEW s \in Nat, NEW n \in Nat
  PROVE  (s * QuestPct) \div 100 <= ((s + n) * QuestPct) \div 100
<1>1. s * QuestPct <= (s + n) * QuestPct
  OBVIOUS
<1>2. s * QuestPct \in Nat /\ (s + n) * QuestPct \in Nat
  OBVIOUS
<1>3. ASSUME NEW x \in Nat, NEW y \in Nat, x <= y PROVE x \div 100 <= y \div 100
  BY <1>3
<1> QED BY <1>1, <1>2, <1>3

\* Every step keeps the cap.
LEMMA CapInductive == TypeOK /\ CapKept /\ [Next]_vars => CapKept'
<1> SUFFICES ASSUME TypeOK, CapKept, [Next]_vars PROVE CapKept'
  OBVIOUS
<1>1. ASSUME NEW t \in Tasks, NEW c \in Addrs, VerifyAndPay(t, c) PROVE CapKept'
  <2>1. RewardOf[t] \in Nat /\ supply' = supply /\ paid' = paid + RewardOf[t]
        /\ paid + RewardOf[t] <= QuestCap
    BY <1>1 DEF VerifyAndPay, WithinCap, TaskReward
  <2>2. moved' = moved \/ moved' = moved + RewardOf[t]
    BY <1>1 DEF VerifyAndPay, TaskReward
  <2> QED BY <2>1, <2>2 DEF CapKept, QuestCap, TypeOK
<1>2. ASSUME NEW n \in Amounts, QuestAddSupply(n) PROVE CapKept'
  <2>1. supply' = supply + n /\ paid' = paid /\ moved' = moved /\ n \in Nat /\ supply \in Nat
    BY <1>2 DEF QuestAddSupply, TypeOK
  <2>2. QuestCap <= QuestCap'
    BY <2>1, CapGrows DEF QuestCap
  <2>3. QuestCap \in Nat /\ QuestCap' \in Nat
    BY <2>1 DEF QuestCap
  <2> QED BY <2>1, <2>2, <2>3 DEF CapKept, TypeOK
<1>3. CASE UNCHANGED <<paid, supply, moved>>
  BY <1>3 DEF CapKept, QuestCap
<1> QED
  BY <1>1, <1>2, <1>3 DEF Next, Quest, Bounty, Community, View, vars, quest, TaskClaim,
     TaskVerify, TaskAutoVerify, QuestSetAutopilot, QuestFund, GiveawayClaim, RegisterBounty,
     ClaimFix, VerifyFix, DelegateMicroTask, CreateTask, EscrowTask, VerifyCommunity

(* Whatever is verified, by whom and how often, the quests never pay more  *)
(* than is counted nor count more than the cap of the live supply.         *)
THEOREM CapCorrect == Spec => []CapKept
<1>1. Init => CapKept
  <2>1. (GenesisSupply * QuestPct) \div 100 \in Nat
    <3>1. GenesisSupply * QuestPct \in Nat
      OBVIOUS
    <3>2. ASSUME NEW x \in Nat PROVE x \div 100 \in Nat
      OBVIOUS
    <3> QED BY <3>1, <3>2
  <2> QED BY <2>1 DEF Init, CapKept, QuestCap
<1> QED BY <1>1, CapInductive, TaskTypeCorrect, PTL DEF Spec

-----------------------------------------------------------------------------
\* The holders are finitely many.
LEMMA HoldersFinite == IsFiniteSet(Holders)
<1>1. IsFiniteSet({"treasury", "registry", "pool"})
  <2>1. IsFiniteSet({"treasury"}) /\ IsFiniteSet({"registry"}) /\ IsFiniteSet({"pool"})
    BY FS_Singleton
  <2>2. IsFiniteSet({"treasury"} \cup {"registry"})
    BY <2>1, FS_Union
  <2>3. IsFiniteSet(({"treasury"} \cup {"registry"}) \cup {"pool"})
    BY <2>1, <2>2, FS_Union
  <2>4. {"treasury", "registry", "pool"} = ({"treasury"} \cup {"registry"}) \cup {"pool"}
    OBVIOUS
  <2> QED BY <2>3, <2>4
<1>2. IsFiniteSet(Accounts \cup Addrs)
  BY FS_Union
<1> QED BY <1>1, <1>2, FS_Union DEF Holders

(* What all holders have together. *)
Worth(b) == SumFunctionOnSet(b, Holders)

\* What all have together is a natural number.
LEMMA WorthNat ==
  ASSUME NEW b \in [Holders -> Nat]
  PROVE  Worth(b) \in Nat
BY HoldersFinite, SumNat DEF Worth

\* A credit of n adds n to what all have together.
LEMMA CreditAdds ==
  ASSUME NEW b \in [Holders -> Int], NEW c \in [Holders -> Int], NEW h \in Holders, NEW n \in Int,
         c[h] = b[h] + n, \A k \in Holders : k # h => c[k] = b[k]
  PROVE  Worth(c) = Worth(b) + n
<1>1. Worth(b) \in Int /\ Worth(c) = Worth(b) - b[h] + c[h]
  BY HoldersFinite, SumChanged DEF Worth
<1>2. b[h] \in Int
  OBVIOUS
<1> QED BY <1>1, <1>2

\* A transfer changes nothing of it, also from an account to itself.
LEMMA TransferKeeps ==
  ASSUME NEW b \in [Holders -> Nat], NEW from \in Holders, NEW to \in Holders, NEW n \in Nat
  PROVE  Worth(Transfer(b, from, to, n)) = Worth(b)
<1> DEFINE c == [b EXCEPT ![from] = @ - n]
           d == [c EXCEPT ![to] = @ + n]
<1>1. /\ c \in [Holders -> Int] /\ c[from] = b[from] + (-n)
      /\ \A k \in Holders : k # from => c[k] = b[k]
  OBVIOUS
<1>2. b \in [Holders -> Int] /\ -n \in Int /\ Worth(b) \in Int
  BY WorthNat
<1>3. Transfer(b, from, to, n) = d
  BY DEF Transfer
<1> HIDE DEF c
<1>4. /\ d \in [Holders -> Int] /\ d[to] = c[to] + n
      /\ \A k \in Holders : k # to => d[k] = c[k]
  BY <1>1
<1> HIDE DEF d
<1>5. Worth(c) = Worth(b) + (-n)
  BY <1>1, <1>2, CreditAdds
<1>6. Worth(d) = Worth(c) + n
  BY <1>1, <1>4, CreditAdds, SMTT(30)
<1> QED BY <1>2, <1>3, <1>5, <1>6

\* Every step changes the balances and what was made by the same amount.
LEMMA ConservedInductive ==
  ASSUME TypeOK, TypeOK', [Next]_vars, Worth(bal) = Worth(GenesisBal) + made
  PROVE  Worth(bal') = Worth(GenesisBal) + made'
<1> USE HoldersOf
<1>0. Worth(GenesisBal) \in Nat /\ made \in Nat /\ bal \in [Holders -> Int] /\ bal' \in [Holders -> Int]
  BY WorthNat DEF TypeOK
<1>1. ASSUME NEW h \in Holders, NEW n \in Nat, bal' = [bal EXCEPT ![h] = @ + n], made' = made + n
      PROVE  Worth(bal') = Worth(GenesisBal) + made'
  <2>1. bal'[h] = bal[h] + n /\ \A k \in Holders : k # h => bal'[k] = bal[k]
    BY <1>0, <1>1
  <2>2. Worth(bal') = Worth(bal) + n
    BY <1>0, <2>1, CreditAdds
  <2> QED BY <1>0, <1>1, <2>2
<1>2. ASSUME NEW from \in Holders, NEW to \in Holders, NEW n \in Nat,
             bal' = Transfer(bal, from, to, n), made' = made
      PROVE  Worth(bal') = Worth(GenesisBal) + made'
  <2>1. Worth(Transfer(bal, from, to, n)) = Worth(bal)
    <3>1. bal \in [Holders -> Nat]
      BY DEF TypeOK
    <3> QED BY <3>1, TransferKeeps
  <2> QED BY <1>2, <2>1
<1>3. CASE UNCHANGED <<bal, made>>
  BY <1>3
<1>4. ASSUME NEW t \in Tasks, NEW c \in Addrs, VerifyAndPay(t, c)
      PROVE  Worth(bal') = Worth(GenesisBal) + made'
  <2>1. RewardOf[t] \in Nat
    OBVIOUS
  <2>2. made' = made /\ (bal' = Transfer(bal, "treasury", c, RewardOf[t]) \/ bal' = bal)
    BY <1>4 DEF VerifyAndPay, TaskReward
  <2> QED BY <1>2, <1>3, <2>1, <2>2
<1>5. ASSUME NEW n \in Amounts, QuestFund(n) PROVE Worth(bal') = Worth(GenesisBal) + made'
  BY <1>1, <1>5 DEF QuestFund
<1>6. ASSUME NEW a \in Accounts, GiveawayClaim(a) PROVE Worth(bal') = Worth(GenesisBal) + made'
  <2>1. made' = made /\ (bal' = Transfer(bal, "pool", a, GiveawayReward) \/ bal' = bal)
    BY <1>6 DEF GiveawayClaim, PoolPays
  <2> QED BY <1>2, <1>3, <2>1
<1>7. ASSUME NEW a \in Accounts, NEW b \in Bounties, NEW c \in Addrs, VerifyFix(a, b, c)
      PROVE  Worth(bal') = Worth(GenesisBal) + made'
  <2>1. made' = made /\ (bal' = Transfer(bal, "treasury", c, bounty[b]) \/ bal' = bal)
    BY <1>7 DEF VerifyFix
  <2>2. bounty[b] \in Nat
    BY DEF TypeOK
  <2> QED BY <1>2, <1>3, <2>1, <2>2
<1>8. ASSUME NEW a \in Accounts, NEW t \in Tasks, NEW n \in Amounts, EscrowTask(a, t, n)
      PROVE  Worth(bal') = Worth(GenesisBal) + made'
  <2>1. n \in Nat /\ made' = made /\ bal' = Transfer(bal, a, "registry", n)
    BY <1>8 DEF EscrowTask
  <2> QED BY <1>2, <2>1
<1>9. ASSUME NEW a \in Accounts, NEW t \in Tasks, NEW c \in Addrs, VerifyCommunity(a, t, c)
      PROVE  Worth(bal') = Worth(GenesisBal) + made'
  <2> DEFINE n == task[t].reward
             payer == IF escrow[t] > 0 THEN "registry" ELSE "treasury"
  <2>1. n \in Nat /\ payer \in Holders
    BY DEF TypeOK
  <2>2. \/ bal' = Transfer(bal, payer, c, n) /\ made' = made
        \/ bal' = [bal EXCEPT ![c] = @ + n] /\ made' = made + n
    BY <1>9 DEF VerifyCommunity
  <2> HIDE DEF n, payer
  <2>3. CASE bal' = Transfer(bal, payer, c, n) /\ made' = made
    BY <1>2, <2>1, <2>3
  <2>4. CASE bal' = [bal EXCEPT ![c] = @ + n] /\ made' = made + n
    BY <1>1, <2>1, <2>4
  <2> QED BY <2>2, <2>3, <2>4
<1> QED
  BY <1>3, <1>4, <1>5, <1>6, <1>7, <1>8, <1>9 DEF Next, Quest, Bounty, Community, View, vars,
     TaskClaim, TaskVerify, TaskAutoVerify, QuestSetAutopilot, QuestAddSupply, RegisterBounty,
     ClaimFix, DelegateMicroTask, CreateTask

(* Whoever is paid, refused, escrowed for or verified, and in whatever     *)
(* order, the balances together are those of genesis and what questFund    *)
(* and the unbacked payouts of verifyCommunity have made.                  *)
THEOREM BalancesConserved == Spec => []WayConserved
<1> DEFINE Books == Worth(bal) = Worth(GenesisBal) + made
<1>1. Init => Books
  <2>1. Worth(GenesisBal) \in Nat
    BY WorthNat
  <2> QED BY <2>1 DEF Init
<1>2. TypeOK /\ TypeOK' /\ Books /\ [Next]_vars => Books'
  BY ConservedInductive
<1>3. TypeOK /\ Books => WayConserved
  BY DEF TypeOK, WayConserved, Worth, SumFunction
<1> HIDE DEF Books
<1> QED BY <1>1, <1>2, <1>3, TaskTypeCorrect, PTL DEF Spec
=============================================================================
