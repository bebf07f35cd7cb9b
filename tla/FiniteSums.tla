----------------------------- MODULE FiniteSums -----------------------------
(***************************************************************************)
(* Sums over finite sets, as the models write them (SumFunctionOnSet of    *)
(* the community modules).  The provers have no induction over sets: the   *)
(* two principles that are needed, for the naturals and for finite sets,   *)
(* are stated with a set in the place of the predicate, and follow from    *)
(* the least element that every set of naturals has.                       *)
(***************************************************************************)
EXTENDS Integers, FiniteSets, Functions, FiniteSetTheorems, WellFoundedInduction, TLAPS

(***************************************************************************)
(* A non-empty set of naturals has a least element.                        *)
(***************************************************************************)
LEMMA LeastExists ==
    ASSUME NEW S \in SUBSET Nat, S # {}
    PROVE  \E x \in S : \A y \in S : x =< y
<1>1. \E x \in S : \A y \in S : ~ (<<y, x>> \in OpToRel(<, Nat))
    BY WFMin, NatLessThanWellFounded
<1>2. ASSUME NEW x \in S, NEW y \in S, <<y, x>> \notin OpToRel(<, Nat)
      PROVE  x =< y
    BY <1>2 DEF OpToRel
<1>3. QED
    BY <1>1, <1>2

(***************************************************************************)
(* Induction on the naturals, for the property of being in Q.              *)
(***************************************************************************)
LEMMA NatInduct ==
    ASSUME NEW Q, 0 \in Q, \A n \in Nat : n \in Q => n + 1 \in Q
    PROVE  Nat \subseteq Q
<1> DEFINE Bad == { n \in Nat : n \notin Q }
<1> SUFFICES ASSUME Bad # {} PROVE FALSE
    OBVIOUS
<1>1. PICK n \in Bad : \A m \in Bad : n =< m
    BY LeastExists
<1>2. n \in Nat /\ n # 0 /\ n - 1 \in Nat
    OBVIOUS
<1>3. n - 1 \in Q
    BY <1>1, <1>2
<1>4. QED
    BY <1>2, <1>3

(***************************************************************************)
(* Induction on the subsets of a finite set.                               *)
(***************************************************************************)
LEMMA SetInduct ==
    ASSUME NEW S, IsFiniteSet(S), NEW Q, {} \in Q,
           \A T \in SUBSET S : \A x \in S \ T : T \in Q => T \cup {x} \in Q
    PROVE  SUBSET S \subseteq Q
<1> DEFINE R == { n \in Nat : \A T \in SUBSET S : Cardinality(T) = n => T \in Q }
<1>1. \A T \in SUBSET S : IsFiniteSet(T) /\ Cardinality(T) \in Nat
    BY FS_Subset, FS_CardinalityType
<1>2. 0 \in R
    BY <1>1, FS_EmptySet
<1>3. ASSUME NEW n \in Nat, n \in R
      PROVE  n + 1 \in R
  <2> SUFFICES ASSUME NEW T \in SUBSET S, Cardinality(T) = n + 1
               PROVE  T \in Q
      BY <1>3
  <2> HIDE DEF R
  <2>1. T # {}
    <3>1. Cardinality({}) = 0
        BY FS_EmptySet
    <3>2. QED
        BY <3>1
  <2>2. PICK x \in T : TRUE
      BY <2>1
  <2>3. Cardinality(T \ {x}) = n
    <3>1. IsFiniteSet(T)
        BY <1>1
    <3>2. Cardinality(T \ {x}) = Cardinality(T) - 1
        BY <3>1, FS_RemoveElement
    <3>3. QED
        BY <3>2
  <2>4. T \ {x} \in SUBSET S /\ T \ {x} \in Q
      BY <1>3, <2>3 DEF R
  <2>5. (T \ {x}) \cup {x} = T /\ x \in S \ (T \ {x})
      BY <2>2
  <2>6. QED
      BY <2>2, <2>4, <2>5
<1>4. Nat \subseteq R
  <2> HIDE DEF R
  <2> QED
      BY <1>2, <1>3, NatInduct
<1>5. QED
    BY <1>1, <1>4
-----------------------------------------------------------------------------
\* The element that is added last, and the sums of all the subsets of S.
Pick(s) == CHOOSE x \in s : TRUE

PartialSums(f, S) ==
    CHOOSE iter : iter = [s \in SUBSET S |-> IF s = {} THEN 0
                                            ELSE f[Pick(s)] + iter[s \ {Pick(s)}]]

LEMMA SumIsPartial ==
    ASSUME NEW f, NEW S
    PROVE  SumFunctionOnSet(f, S) = PartialSums(f, S)[S]
BY DEF SumFunctionOnSet, FoldFunctionOnSet, MapThenFoldSet, PartialSums, Pick

(***************************************************************************)
(* The equation of the recursion has at most one solution.                 *)
(***************************************************************************)
Sums(f, S, g) ==
    \A s \in SUBSET S : g[s] = IF s = {} THEN 0 ELSE f[Pick(s)] + g[s \ {Pick(s)}]

LEMMA PickFacts ==
    ASSUME NEW S, IsFiniteSet(S), NEW s \in SUBSET S, s # {}
    PROVE  /\ Pick(s) \in s
           /\ s \ {Pick(s)} \in SUBSET S
           /\ Cardinality(s) \in Nat
           /\ Cardinality(s \ {Pick(s)}) = Cardinality(s) - 1
<1>1. Pick(s) \in s
    BY DEF Pick
<1>2. IsFiniteSet(s) /\ Cardinality(s) \in Nat
    BY FS_Subset, FS_CardinalityType
<1>3. Cardinality(s \ {Pick(s)}) = Cardinality(s) - 1
    BY <1>1, <1>2, FS_RemoveElement
<1>4. QED
    BY <1>1, <1>2, <1>3

LEMMA SumsUnique ==
    ASSUME NEW S, IsFiniteSet(S), NEW e, NEW f, \A x \in S : e[x] = f[x],
           NEW g, Sums(e, S, g), NEW h, Sums(f, S, h)
    PROVE  \A s \in SUBSET S : g[s] = h[s]
<1> DEFINE Q == { n \in Nat : \A s \in SUBSET S : Cardinality(s) = n => g[s] = h[s] }
<1>1. 0 \in Q
  <2> SUFFICES ASSUME NEW s \in SUBSET S, Cardinality(s) = 0 PROVE g[s] = h[s]
      OBVIOUS
  <2>1. IsFiniteSet(s)
      BY FS_Subset
  <2>2. s = {}
      BY <2>1, FS_EmptySet
  <2>3. QED
      BY <2>2 DEF Sums
<1>2. ASSUME NEW n \in Nat, n \in Q
      PROVE  n + 1 \in Q
  <2> SUFFICES ASSUME NEW s \in SUBSET S, Cardinality(s) = n + 1 PROVE g[s] = h[s]
      BY <1>2
  <2>1. s # {}
    <3>1. Cardinality({}) = 0
        BY FS_EmptySet
    <3> HIDE DEF Q
    <3>2. QED
        BY <3>1
  <2>2. /\ Pick(s) \in s /\ s \ {Pick(s)} \in SUBSET S
        /\ Cardinality(s \ {Pick(s)}) = n
    <3> HIDE DEF Q
    <3> QED
        BY <2>1, PickFacts
  <2>3. g[s \ {Pick(s)}] = h[s \ {Pick(s)}]
      BY <1>2, <2>2
  <2>4. QED
      BY <2>1, <2>2, <2>3 DEF Sums
<1>3. Nat \subseteq Q
  <2> HIDE DEF Q
  <2> QED
      BY <1>1, <1>2, NatInduct
<1>4. \A s \in SUBSET S : Cardinality(s) \in Nat
    BY FS_Subset, FS_CardinalityType
<1>5. QED
    BY <1>3, <1>4

(***************************************************************************)
(* It has one: the recursion is well defined, and its values are naturals. *)
(***************************************************************************)
SumsUpTo(f, S, n, g) ==
    /\ g \in [SUBSET S -> Nat]
    /\ \A s \in SUBSET S : Cardinality(s) =< n =>
          g[s] = IF s = {} THEN 0 ELSE f[Pick(s)] + g[s \ {Pick(s)}]

LEMMA PartialSumsExist ==
    ASSUME NEW S, IsFiniteSet(S), NEW f, \A x \in S : f[x] \in Nat
    PROVE  /\ Sums(f, S, PartialSums(f, S))
           /\ \A s \in SUBSET S : PartialSums(f, S)[s] \in Nat
<1> DEFINE Q == { n \in Nat : \E g : SumsUpTo(f, S, n, g) }
           Once(g) == [s \in SUBSET S |-> IF s = {} THEN 0 ELSE f[Pick(s)] + g[s \ {Pick(s)}]]
<1>1. ASSUME NEW g \in [SUBSET S -> Nat]
      PROVE  Once(g) \in [SUBSET S -> Nat]
  <2>1. ASSUME NEW s \in SUBSET S, s # {}
        PROVE  f[Pick(s)] + g[s \ {Pick(s)}] \in Nat
    <3>1. Pick(s) \in S /\ s \ {Pick(s)} \in SUBSET S
        BY <2>1, PickFacts
    <3>2. f[Pick(s)] \in Nat /\ g[s \ {Pick(s)}] \in Nat
        BY <3>1
    <3>3. QED
        BY <3>2
  <2>2. QED
      BY <2>1
<1>2. 0 \in Q
  <2> DEFINE z == [s \in SUBSET S |-> 0]
  <2>1. z \in [SUBSET S -> Nat]
      OBVIOUS
  <2>2. ASSUME NEW s \in SUBSET S, Cardinality(s) =< 0
        PROVE  s = {}
    <3>1. IsFiniteSet(s) /\ Cardinality(s) \in Nat
        BY FS_Subset, FS_CardinalityType
    <3>2. Cardinality(s) = 0
        BY <2>2, <3>1
    <3>3. QED
        BY <3>1, <3>2, FS_EmptySet
  <2>3. SumsUpTo(f, S, 0, z)
      BY <2>1, <2>2 DEF SumsUpTo
  <2>4. QED
      BY <2>3
<1>3. ASSUME NEW n \in Nat, n \in Q
      PROVE  n + 1 \in Q
  <2>1. PICK g : SumsUpTo(f, S, n, g)
      BY <1>3
  <2>2. Once(g) \in [SUBSET S -> Nat]
      BY <1>1, <2>1 DEF SumsUpTo
  <2>3. ASSUME NEW s \in SUBSET S, Cardinality(s) =< n + 1, s # {}
        PROVE  Once(g)[s \ {Pick(s)}] = g[s \ {Pick(s)}]
    <3>1. s \ {Pick(s)} \in SUBSET S /\ Cardinality(s \ {Pick(s)}) =< n
      <4> HIDE DEF Q
      <4> QED
          BY PickFacts, <2>3
    <3>2. QED
        BY <2>1, <3>1 DEF SumsUpTo
  <2>4. SumsUpTo(f, S, n + 1, Once(g))
      BY <2>2, <2>3 DEF SumsUpTo
  <2>5. QED
      BY <2>4
<1>4. Cardinality(S) \in Q
  <2>1. Nat \subseteq Q
    <3> HIDE DEF Q
    <3> QED
        BY <1>2, <1>3, NatInduct
  <2>2. QED
      BY <2>1, FS_CardinalityType
<1>5. PICK g : SumsUpTo(f, S, Cardinality(S), g)
    BY <1>4
<1>6. \A s \in SUBSET S : Cardinality(s) =< Cardinality(S)
    BY FS_Subset
<1>7. Sums(f, S, g)
    BY <1>5, <1>6 DEF SumsUpTo, Sums
<1>8. g = [s \in SUBSET S |-> IF s = {} THEN 0 ELSE f[Pick(s)] + g[s \ {Pick(s)}]]
    BY <1>5, <1>7 DEF SumsUpTo, Sums
<1>9. PartialSums(f, S) =
        [s \in SUBSET S |-> IF s = {} THEN 0
                            ELSE f[Pick(s)] + PartialSums(f, S)[s \ {Pick(s)}]]
    BY <1>8 DEF PartialSums
<1>10. Sums(f, S, PartialSums(f, S))
  <2> DEFINE P == PartialSums(f, S)
  <2>1. P = [s \in SUBSET S |-> IF s = {} THEN 0 ELSE f[Pick(s)] + P[s \ {Pick(s)}]]
      BY <1>9
  <2> HIDE DEF P
  <2>2. Sums(f, S, P)
      BY <2>1 DEF Sums
  <2>3. QED
      BY <2>2 DEF P
<1>11. \A s \in SUBSET S : PartialSums(f, S)[s] = g[s]
    BY <1>7, <1>10, SumsUnique
<1>12. QED
    BY <1>5, <1>10, <1>11 DEF SumsUpTo
-----------------------------------------------------------------------------
(***************************************************************************)
(* The facts about sums of naturals that the proofs cite.                  *)
(***************************************************************************)
LEMMA SumEmpty ==
    ASSUME NEW f
    PROVE  SumFunctionOnSet(f, {}) = 0
<1>1. IsFiniteSet({})
    BY FS_EmptySet
<1>2. Sums(f, {}, PartialSums(f, {}))
    BY <1>1, PartialSumsExist
<1>3. QED
    BY <1>2, SumIsPartial DEF Sums

LEMMA SumType ==
    ASSUME NEW S, IsFiniteSet(S), NEW f, \A x \in S : f[x] \in Nat
    PROVE  SumFunctionOnSet(f, S) \in Nat
BY PartialSumsExist, SumIsPartial

\* Only the summands matter.
LEMMA SumSame ==
    ASSUME NEW S, IsFiniteSet(S), NEW e, NEW f,
           \A x \in S : f[x] \in Nat, \A x \in S : e[x] = f[x]
    PROVE  SumFunctionOnSet(e, S) = SumFunctionOnSet(f, S)
<1>1. Sums(e, S, PartialSums(e, S)) /\ Sums(f, S, PartialSums(f, S))
    BY PartialSumsExist
<1>2. PartialSums(e, S)[S] = PartialSums(f, S)[S]
    BY <1>1, SumsUnique
<1>3. QED
    BY <1>2, SumIsPartial

\* The partial sums are sums.
LEMMA SumOfSubset ==
    ASSUME NEW S, IsFiniteSet(S), NEW f, \A x \in S : f[x] \in Nat, NEW T \in SUBSET S
    PROVE  SumFunctionOnSet(f, T) = PartialSums(f, S)[T]
<1>1. IsFiniteSet(T) /\ SUBSET T \subseteq SUBSET S
    BY FS_Subset
<1>2. Sums(f, T, PartialSums(f, T))
    BY <1>1, PartialSumsExist
<1>3. Sums(f, T, PartialSums(f, S))
    BY <1>1, PartialSumsExist DEF Sums
<1>4. PartialSums(f, T)[T] = PartialSums(f, S)[T]
    BY <1>1, <1>2, <1>3, SumsUnique
<1>5. QED
    BY <1>4, SumIsPartial

LEMMA SumPick ==
    ASSUME NEW S, IsFiniteSet(S), S # {}, NEW f, \A x \in S : f[x] \in Nat
    PROVE  SumFunctionOnSet(f, S) = f[Pick(S)] + SumFunctionOnSet(f, S \ {Pick(S)})
<1>1. Sums(f, S, PartialSums(f, S))
    BY PartialSumsExist
<1>2. PartialSums(f, S)[S] = f[Pick(S)] + PartialSums(f, S)[S \ {Pick(S)}]
    BY <1>1 DEF Sums
<1>3. QED
    BY <1>2, SumOfSubset, SumIsPartial

(***************************************************************************)
(* Any element may be taken first.                                         *)
(***************************************************************************)
LEMMA SumRemove ==
    ASSUME NEW S, IsFiniteSet(S), NEW f, \A x \in S : f[x] \in Nat, NEW x \in S
    PROVE  SumFunctionOnSet(f, S) = f[x] + SumFunctionOnSet(f, S \ {x})
<1> DEFINE Total(T) == SumFunctionOnSet(f, T)
           Q == { n \in Nat : \A T \in SUBSET S : Cardinality(T) = n =>
                     \A y \in T : Total(T) = f[y] + Total(T \ {y}) }
<1>1. ASSUME NEW T \in SUBSET S
      PROVE  IsFiniteSet(T) /\ Cardinality(T) \in Nat /\ Total(T) \in Nat
  <2>1. IsFiniteSet(T)
      BY FS_Subset
  <2>2. QED
      BY <2>1, FS_CardinalityType, SumType
<1>2. ASSUME NEW T \in SUBSET S, T # {}
      PROVE  Total(T) = f[Pick(T)] + Total(T \ {Pick(T)})
    BY <1>1, <1>2, SumPick
<1> HIDE DEF Total
<1>3. 0 \in Q
  <2>1. \A T \in SUBSET S : Cardinality(T) = 0 => T = {}
      BY <1>1, FS_EmptySet
  <2>2. QED
      BY <2>1
<1>4. ASSUME NEW n \in Nat, n \in Q
      PROVE  n + 1 \in Q
  <2> SUFFICES ASSUME NEW T \in SUBSET S, Cardinality(T) = n + 1, NEW y \in T
               PROVE  Total(T) = f[y] + Total(T \ {y})
      BY <1>4
  <2> DEFINE p == Pick(T)
  <2>1. p \in T /\ Total(T) = f[p] + Total(T \ {p})
      BY <1>2, PickFacts
  <2>2. CASE p = y
      BY <2>1, <2>2
  <2>3. CASE p # y
    <3>1. \A z \in T : Cardinality(T \ {z}) = n
      <4> SUFFICES ASSUME NEW z \in T PROVE Cardinality(T \ {z}) = n
          OBVIOUS
      <4>1. Cardinality(T \ {z}) = Cardinality(T) - 1
          BY <1>1, FS_RemoveElement
      <4> HIDE DEF Q
      <4>2. QED
          BY <4>1
    <3>2. Total(T \ {p}) = f[y] + Total((T \ {p}) \ {y})
      <4>1. T \ {p} \in SUBSET S /\ y \in T \ {p}
          BY <2>3
      <4>2. QED
          BY <1>4, <2>1, <3>1, <4>1
    <3>3. Total(T \ {y}) = f[p] + Total((T \ {y}) \ {p})
      <4>1. T \ {y} \in SUBSET S /\ p \in T \ {y}
          BY <2>1, <2>3
      <4>2. QED
          BY <1>4, <3>1, <4>1
    <3>4. (T \ {p}) \ {y} = (T \ {y}) \ {p}
        OBVIOUS
    <3>5. f[p] \in Nat /\ f[y] \in Nat /\ Total((T \ {y}) \ {p}) \in Nat
        BY <1>1, <2>1
    <3> HIDE DEF Q, p
    <3>6. QED
        BY <2>1, <3>2, <3>3, <3>4, <3>5
  <2>4. QED
      BY <2>2, <2>3
<1>5. Nat \subseteq Q
  <2> HIDE DEF Q
  <2> QED
      BY <1>3, <1>4, NatInduct
<1>6. Total(S) = f[x] + Total(S \ {x})
    BY <1>1, <1>5
<1>7. QED
    BY <1>6 DEF Total

LEMMA SumAdd ==
    ASSUME NEW S, IsFiniteSet(S), NEW x, x \notin S,
           NEW f, \A y \in S \cup {x} : f[y] \in Nat
    PROVE  SumFunctionOnSet(f, S \cup {x}) = f[x] + SumFunctionOnSet(f, S)
<1>1. IsFiniteSet(S \cup {x}) /\ (S \cup {x}) \ {x} = S
    BY FS_AddElement
<1>2. QED
    BY <1>1, SumRemove

(***************************************************************************)
(* The sum over two disjoint sets, and over a part of a set.               *)
(***************************************************************************)
LEMMA SumUnion ==
    ASSUME NEW S, IsFiniteSet(S), NEW T, IsFiniteSet(T), S \cap T = {},
           NEW f, \A x \in S \cup T : f[x] \in Nat
    PROVE  SumFunctionOnSet(f, S \cup T) = SumFunctionOnSet(f, S) + SumFunctionOnSet(f, T)
<1> DEFINE Total(U) == SumFunctionOnSet(f, U)
           Q == { U \in SUBSET T : Total(S \cup U) = Total(S) + Total(U) }
<1>1. ASSUME NEW U \in SUBSET T
      PROVE  /\ IsFiniteSet(U) /\ IsFiniteSet(S \cup U)
             /\ Total(U) \in Nat /\ Total(S) \in Nat /\ Total(S \cup U) \in Nat
  <2>1. IsFiniteSet(U)
      BY FS_Subset
  <2>2. IsFiniteSet(S \cup U)
      BY <2>1, FS_Union
  <2>3. QED
      BY <2>1, <2>2, SumType
<1>2. {} \in Q
  <2>1. Total({}) = 0
      BY SumEmpty
  <2>2. Total(S) \in Nat
      BY SumType
  <2> HIDE DEF Total
  <2>3. QED
      BY <2>1, <2>2
<1>3. ASSUME NEW U \in SUBSET T, NEW x \in T \ U, U \in Q
      PROVE  U \cup {x} \in Q
  <2>1. Total(U \cup {x}) = f[x] + Total(U)
      BY <1>1, SumAdd
  <2>2. Total((S \cup U) \cup {x}) = f[x] + Total(S \cup U)
    <3>1. x \notin S \cup U
        OBVIOUS
    <3>2. QED
        BY <1>1, <3>1, SumAdd
  <2>3. S \cup (U \cup {x}) = (S \cup U) \cup {x} /\ U \cup {x} \in SUBSET T
      OBVIOUS
  <2>4. f[x] \in Nat
      OBVIOUS
  <2>5. Total(U) \in Nat /\ Total(S) \in Nat
    <3> HIDE DEF Total
    <3> QED
      BY <1>1
  <2>6. Total(S \cup U) = Total(S) + Total(U)
      BY <1>3
  <2>7. Total(S \cup (U \cup {x})) = f[x] + Total(S \cup U)
      BY <2>2, <2>3
  <2> HIDE DEF Total
  <2>8. Total(S \cup (U \cup {x})) = Total(S) + Total(U \cup {x})
      BY <2>1, <2>4, <2>5, <2>6, <2>7
  <2>9. QED
      BY <2>3, <2>8
<1>4. T \in Q
  <2>1. \A U \in SUBSET T : \A x \in T \ U : U \in Q => U \cup {x} \in Q
      BY <1>3
  <2> HIDE DEF Q
  <2>2. IsFiniteSet(T)
      OBVIOUS
  <2>3. SUBSET T \subseteq Q
      BY ONLY <1>2, <2>1, <2>2, SetInduct, Zenon
  <2>4. QED
      BY <2>3
<1>5. QED
    BY <1>4

LEMMA SumMonotone ==
    ASSUME NEW T, IsFiniteSet(T), NEW S \in SUBSET T, NEW f, \A x \in T : f[x] \in Nat
    PROVE  SumFunctionOnSet(f, S) =< SumFunctionOnSet(f, T)
<1>1. IsFiniteSet(S) /\ IsFiniteSet(T \ S)
    BY FS_Subset
<1>2. S \cup (T \ S) = T
    OBVIOUS
<1>3. SumFunctionOnSet(f, T) = SumFunctionOnSet(f, S) + SumFunctionOnSet(f, T \ S)
    BY <1>1, <1>2, SumUnion
<1>4. SumFunctionOnSet(f, S) \in Nat /\ SumFunctionOnSet(f, T \ S) \in Nat
    BY <1>1, SumType
<1>5. QED
    BY <1>3, <1>4

(***************************************************************************)
(* The sum of sums of two functions.                                       *)
(***************************************************************************)
LEMMA SumPlus ==
    ASSUME NEW S, IsFiniteSet(S), NEW e, NEW f, NEW g,
           \A x \in S : e[x] \in Nat /\ f[x] \in Nat /\ g[x] = e[x] + f[x]
    PROVE  SumFunctionOnSet(g, S) = SumFunctionOnSet(e, S) + SumFunctionOnSet(f, S)
<1> DEFINE Sum(h, U) == SumFunctionOnSet(h, U)
           Q == { U \in SUBSET S : Sum(g, U) = Sum(e, U) + Sum(f, U) }
<1>1. {} \in Q
    BY SumEmpty
<1>2. ASSUME NEW U \in SUBSET S, NEW x \in S \ U, U \in Q
      PROVE  U \cup {x} \in Q
  <2>1. IsFiniteSet(U)
      BY FS_Subset
  <2>2. /\ Sum(e, U \cup {x}) = e[x] + Sum(e, U)
        /\ Sum(f, U \cup {x}) = f[x] + Sum(f, U)
        /\ Sum(g, U \cup {x}) = g[x] + Sum(g, U)
    <3>1. \A y \in U \cup {x} : e[y] \in Nat /\ f[y] \in Nat /\ g[y] \in Nat
        OBVIOUS
    <3>2. QED
        BY <2>1, <3>1, SumAdd
  <2>3. Sum(e, U) \in Nat /\ Sum(f, U) \in Nat
      BY <2>1, SumType
  <2>4. e[x] \in Nat /\ f[x] \in Nat /\ g[x] = e[x] + f[x]
      OBVIOUS
  <2>5. Sum(g, U) = Sum(e, U) + Sum(f, U)
      BY <1>2
  <2> HIDE DEF Sum
  <2>6. QED
      BY <2>2, <2>3, <2>4, <2>5
<1>3. S \in Q
  <2> HIDE DEF Q
  <2> QED
      BY <1>1, <1>2, SetInduct
<1>4. QED
    BY <1>3

(***************************************************************************)
(* A sum taken part by part.                                               *)
(***************************************************************************)
LEMMA SumOfParts ==
    ASSUME NEW I, IsFiniteSet(I), NEW Part, NEW T, IsFiniteSet(T),
           \A i \in I : Part[i] \subseteq T,
           \A i, j \in I : i # j => Part[i] \cap Part[j] = {},
           NEW f, \A x \in T : f[x] \in Nat,
           NEW g, \A i \in I : g[i] = SumFunctionOnSet(f, Part[i])
    PROVE  SumFunctionOnSet(g, I) = SumFunctionOnSet(f, UNION { Part[i] : i \in I })
<1> DEFINE All(J) == UNION { Part[i] : i \in J }
           Q == { J \in SUBSET I : SumFunctionOnSet(g, J) = SumFunctionOnSet(f, All(J)) }
<1>1. {} \in Q
  <2>1. All({}) = {}
      OBVIOUS
  <2>2. QED
      BY <2>1, SumEmpty
<1>2. ASSUME NEW J \in SUBSET I, NEW k \in I \ J, J \in Q
      PROVE  J \cup {k} \in Q
  <2>1. IsFiniteSet(J) /\ IsFiniteSet(All(J)) /\ IsFiniteSet(Part[k])
    <3>1. All(J) \in SUBSET T
        OBVIOUS
    <3>2. QED
        BY <3>1, FS_Subset
  <2>2. \A i \in I : g[i] \in Nat
    <3> SUFFICES ASSUME NEW i \in I PROVE g[i] \in Nat
        OBVIOUS
    <3>1. IsFiniteSet(Part[i]) /\ \A x \in Part[i] : f[x] \in Nat
        BY FS_Subset
    <3>2. QED
        BY <3>1, SumType
  <2>3. SumFunctionOnSet(g, J \cup {k}) = g[k] + SumFunctionOnSet(g, J)
      BY <2>1, <2>2, SumAdd
  <2>4. All(J) \cap Part[k] = {} /\ All(J \cup {k}) = All(J) \cup Part[k]
      OBVIOUS
  <2>5. SumFunctionOnSet(f, All(J) \cup Part[k])
            = SumFunctionOnSet(f, All(J)) + SumFunctionOnSet(f, Part[k])
    <3>1. \A x \in All(J) \cup Part[k] : f[x] \in Nat
        OBVIOUS
    <3> HIDE DEF All
    <3>2. QED
        BY <2>1, <2>4, <3>1, SumUnion
  <2>6. SumFunctionOnSet(g, J) = SumFunctionOnSet(f, All(J))
      BY <1>2
  <2>7. SumFunctionOnSet(g, J) \in Nat /\ g[k] \in Nat
      BY <2>1, <2>2, SumType
  <2>8. g[k] = SumFunctionOnSet(f, Part[k])
      OBVIOUS
  <2> HIDE DEF All
  <2>9. SumFunctionOnSet(f, All(J \cup {k}))
            = SumFunctionOnSet(f, All(J)) + SumFunctionOnSet(f, Part[k])
      BY <2>4, <2>5
  <2>10. SumFunctionOnSet(g, J \cup {k}) = SumFunctionOnSet(f, All(J \cup {k}))
      BY <2>3, <2>6, <2>7, <2>8, <2>9
  <2>11. QED
      BY <2>10
<1>3. I \in Q
  <2> HIDE DEF Q
  <2> QED
      BY <1>1, <1>2, SetInduct
<1>4. QED
    BY <1>3

\* Summands that are 0.
LEMMA SumZero ==
    ASSUME NEW S, IsFiniteSet(S), NEW f, \A x \in S : f[x] = 0
    PROVE  SumFunctionOnSet(f, S) = 0
<1> DEFINE Q == { U \in SUBSET S : SumFunctionOnSet(f, U) = 0 }
<1>1. {} \in Q
    BY SumEmpty
<1>2. ASSUME NEW U \in SUBSET S, NEW x \in S \ U, U \in Q
      PROVE  U \cup {x} \in Q
  <2>1. IsFiniteSet(U) /\ x \notin U /\ \A y \in U \cup {x} : f[y] \in Nat
      BY FS_Subset
  <2>2. SumFunctionOnSet(f, U \cup {x}) = f[x] + SumFunctionOnSet(f, U)
      BY <2>1, SumAdd
  <2>3. SumFunctionOnSet(f, U) = 0 /\ f[x] = 0
      BY <1>2
  <2>4. QED
      BY <2>2, <2>3
<1> HIDE DEF Q
<1>3. SUBSET S \subseteq Q
    BY <1>1, <1>2, SetInduct
<1>4. QED
    BY <1>3 DEF Q

(***************************************************************************)
(* A sum over the values an injection takes.                               *)
(***************************************************************************)
LEMMA SumImage ==
    ASSUME NEW S, IsFiniteSet(S), NEW h, \A x, y \in S : h[x] = h[y] => x = y,
           NEW e, NEW f, \A x \in S : f[x] \in Nat /\ e[h[x]] = f[x]
    PROVE  SumFunctionOnSet(e, { h[x] : x \in S }) = SumFunctionOnSet(f, S)
<1> DEFINE Im(U) == { h[x] : x \in U }
           Q == { U \in SUBSET S : /\ IsFiniteSet(Im(U))
                                   /\ SumFunctionOnSet(e, Im(U)) = SumFunctionOnSet(f, U) }
<1>1. {} \in Q
  <2>1. Im({}) = {}
      OBVIOUS
  <2>2. QED
      BY <2>1, SumEmpty, FS_EmptySet
<1>2. ASSUME NEW U \in SUBSET S, NEW x \in S \ U, U \in Q
      PROVE  U \cup {x} \in Q
  <2>1. IsFiniteSet(U) /\ IsFiniteSet(Im(U))
      BY <1>2, FS_Subset
  <2>2. Im(U \cup {x}) = Im(U) \cup {h[x]} /\ h[x] \notin Im(U)
      OBVIOUS
  <2>3. \A y \in Im(U) \cup {h[x]} : e[y] \in Nat
      OBVIOUS
  <2> HIDE DEF Im
  <2>4. SumFunctionOnSet(e, Im(U) \cup {h[x]}) = e[h[x]] + SumFunctionOnSet(e, Im(U))
      BY <2>1, <2>2, <2>3, SumAdd
  <2>5. SumFunctionOnSet(f, U \cup {x}) = f[x] + SumFunctionOnSet(f, U)
    <3>1. x \notin U /\ \A y \in U \cup {x} : f[y] \in Nat
        OBVIOUS
    <3>2. QED
        BY <2>1, <3>1, SumAdd
  <2>6. e[h[x]] = f[x] /\ SumFunctionOnSet(e, Im(U)) = SumFunctionOnSet(f, U)
      BY <1>2
  <2>7. IsFiniteSet(Im(U \cup {x}))
    <3>1. IsFiniteSet(Im(U) \cup {h[x]})
        BY <2>1, FS_AddElement
    <3>2. QED
        BY ONLY <3>1, <2>2, Zenon
  <2>8. SumFunctionOnSet(e, Im(U \cup {x})) = SumFunctionOnSet(f, U \cup {x})
    <3>1. Im(U \cup {x}) = Im(U) \cup {h[x]}
        BY <2>2
    <3>2. SumFunctionOnSet(e, Im(U \cup {x})) = SumFunctionOnSet(e, Im(U) \cup {h[x]})
        BY ONLY <3>1, Zenon
    <3>3. QED
        BY ONLY <3>2, <2>4, <2>5, <2>6, Zenon
  <2>9. U \cup {x} \in SUBSET S
      OBVIOUS
  <2>10. QED
      BY <2>7, <2>8, <2>9
<1>3. S \in Q
  <2> HIDE DEF Q
  <2> QED
      BY <1>1, <1>2, SetInduct
<1>4. QED
    BY <1>3

(***************************************************************************)
(* A rate that holds for every summand holds for the sum.                  *)
(***************************************************************************)
LEMMA SumRate ==
    ASSUME NEW S, IsFiniteSet(S), NEW e, NEW f, NEW m \in Nat, NEW n \in Nat,
           \A x \in S : e[x] \in Nat /\ f[x] \in Nat /\ e[x] * m >= f[x] * n
    PROVE  SumFunctionOnSet(e, S) * m >= SumFunctionOnSet(f, S) * n
<1> DEFINE Q == { U \in SUBSET S : SumFunctionOnSet(e, U) * m >= SumFunctionOnSet(f, U) * n }
<1>1. {} \in Q
    BY SumEmpty
<1>2. ASSUME NEW U \in SUBSET S, NEW x \in S \ U, U \in Q
      PROVE  U \cup {x} \in Q
  <2> DEFINE E == SumFunctionOnSet(e, U)
             F == SumFunctionOnSet(f, U)
  <2>1. IsFiniteSet(U) /\ x \notin U /\ \A y \in U \cup {x} : e[y] \in Nat /\ f[y] \in Nat
      BY FS_Subset
  <2>2. /\ SumFunctionOnSet(e, U \cup {x}) = e[x] + E
        /\ SumFunctionOnSet(f, U \cup {x}) = f[x] + F
      BY <2>1, SumAdd
  <2>3. E \in Nat /\ F \in Nat
      BY <2>1, SumType
  <2>4. E * m >= F * n
      BY <1>2
  <2>5. e[x] * m >= f[x] * n /\ e[x] \in Nat /\ f[x] \in Nat
      OBVIOUS
  <2> HIDE DEF E, F, Q
  <2>6. (e[x] + E) * m >= (f[x] + F) * n
    <3>1. (e[x] + E) * m = e[x] * m + E * m /\ (f[x] + F) * n = f[x] * n + F * n
        BY <2>3, <2>5
    <3>2. e[x] * m \in Nat /\ E * m \in Nat /\ f[x] * n \in Nat /\ F * n \in Nat
        BY <2>3, <2>5
    <3>3. QED
        BY <2>4, <2>5, <3>1, <3>2
  <2>7. QED
      BY <2>2, <2>6 DEF Q
<1>3. S \in Q
  <2> HIDE DEF Q
  <2> QED
      BY <1>1, <1>2, SetInduct
<1>4. QED
    BY <1>3
=============================================================================
