------------------------------- MODULE FiniteSums -------------------------------
(***************************************************************************)
(* Sums over finite sets.  The recursive functions that add up a column of *)
(* a table, and the folds of the community modules, are functions chosen   *)
(* by the equation they satisfy.  The lemmas say that there is one and     *)
(* what it does, for every finite set: by way of a smallest counterexample,*)
(* since a non-empty set of natural numbers has a least element.           *)
(***************************************************************************)
EXTENDS Integers, FiniteSets, FiniteSetTheorems, WellFoundedInduction, TLAPS

LEMMA LeastNumber ==
    ASSUME NEW T, T \subseteq Nat, T # {}
    PROVE  \E n \in T : \A m \in T : n <= m
<1>1. PICK n \in T : \A m \in T : ~ (<<m, n>> \in OpToRel(<, Nat))
  BY WFMin, NatLessThanWellFounded
<1>2. \A m \in T : ~(m < n)
  BY <1>1 DEF OpToRel
<1>3. QED
  BY <1>2

Any(s) == CHOOSE x \in s : TRUE
SumStep(f, g, s) == IF s = {} THEN 0 ELSE f[Any(s)] + g[s \ {Any(s)}]
IsSum(f, g, S)   == g = [s \in SUBSET S |-> SumStep(f, g, s)]

LEMMA WithoutOne ==
    ASSUME NEW S, IsFiniteSet(S), NEW s \in SUBSET S, NEW x \in s
    PROVE  /\ s \ {x} \in SUBSET S
           /\ Cardinality(s) \in Nat /\ Cardinality(s \ {x}) \in Nat
           /\ Cardinality(s \ {x}) = Cardinality(s) - 1
<1>1. IsFiniteSet(s)
  BY FS_Subset
<1>2. QED
  BY <1>1, FS_RemoveElement, FS_CardinalityType

LEMMA AnyIsIn ==
    ASSUME NEW s, s # {}
    PROVE  Any(s) \in s
BY DEF Any

LEMMA SumExists ==
    ASSUME NEW S, IsFiniteSet(S), NEW f \in [S -> Nat]
    PROVE  \E g : IsSum(f, g, S)
<1> DEFINE Upto(g, k) == \A s \in SUBSET S : Cardinality(s) <= k => g[s] = SumStep(f, g, s)
           Bad == {k \in Nat : \A g \in [SUBSET S -> Nat] : ~Upto(g, k)}
<1>1. \A s \in SUBSET S : IsFiniteSet(s) /\ Cardinality(s) \in Nat
  BY FS_Subset, FS_CardinalityType
<1>2. Bad = {}
  <2> SUFFICES ASSUME Bad # {} PROVE FALSE
    OBVIOUS
  <2>1. PICK k \in Bad : \A m \in Bad : k <= m
    <3> HIDE DEF Upto
    <3>1. Bad \subseteq Nat
      OBVIOUS
    <3> HIDE DEF Bad
    <3>2. QED
      BY <3>1, LeastNumber
  <2>2. CASE k = 0
    <3> DEFINE g == [s \in SUBSET S |-> 0]
    <3>1. \A s \in SUBSET S : Cardinality(s) <= 0 => s = {}
      BY <1>1, FS_EmptySet
    <3>2. g \in [SUBSET S -> Nat] /\ Upto(g, 0)
      BY <3>1 DEF SumStep
    <3>3. QED
      BY <2>2, <3>2
  <2>3. CASE k # 0
    <3>1. k \in Nat /\ k - 1 \in Nat /\ k - 1 \notin Bad
      <4>1. k \in Nat
        BY DEF Bad
      <4> HIDE DEF Bad
      <4>2. QED
        BY <2>1, <2>3, <4>1
    <3>2. PICK g \in [SUBSET S -> Nat] : Upto(g, k - 1)
      BY <3>1
    <3> HIDE DEF Bad
    <3> DEFINE h == [s \in SUBSET S |-> IF Cardinality(s) < k THEN g[s] ELSE SumStep(f, g, s)]
    <3>3. ASSUME NEW s \in SUBSET S
          PROVE  SumStep(f, g, s) \in Nat
      <4>1. CASE s = {}
        BY <4>1 DEF SumStep
      <4>2. CASE s # {}
        BY <4>2, AnyIsIn DEF SumStep
      <4>3. QED
        BY <4>1, <4>2
    <3>4. h \in [SUBSET S -> Nat]
      BY <3>3
    <3>5. ASSUME NEW s \in SUBSET S, Cardinality(s) <= k
          PROVE  h[s] = SumStep(f, g, s)
      <4>1. CASE Cardinality(s) < k
        <5>1. Cardinality(s) <= k - 1
          BY <1>1, <3>1, <4>1
        <5>2. g[s] = SumStep(f, g, s)
          BY <3>2, <5>1
        <5>3. QED
          BY <4>1, <5>2
      <4>2. CASE ~(Cardinality(s) < k)
        BY <4>2
      <4>3. QED
        BY <4>1, <4>2
    <3>6. ASSUME NEW s \in SUBSET S, Cardinality(s) <= k
          PROVE  SumStep(f, h, s) = SumStep(f, g, s)
      <4>1. CASE s # {}
        <5>1. Any(s) \in s
          BY <4>1, AnyIsIn
        <5>2. s \ {Any(s)} \in SUBSET S /\ Cardinality(s \ {Any(s)}) < k
          BY <1>1, <3>1, <3>6, <5>1, WithoutOne
        <5>3. h[s \ {Any(s)}] = g[s \ {Any(s)}]
          BY <5>2
        <5>4. QED
          BY <5>3 DEF SumStep
      <4>2. QED
        BY <4>1 DEF SumStep
    <3>7. Upto(h, k)
      <4> HIDE DEF h
      <4>1. QED
        BY <3>5, <3>6
    <3>8. QED
      <4> HIDE DEF h, Upto
      <4>1. QED
        BY <3>4, <3>7 DEF Bad
  <2>4. QED
    BY <2>2, <2>3
<1>3. PICK g \in [SUBSET S -> Nat] : Upto(g, Cardinality(S))
  <2>1. Cardinality(S) \in Nat
    BY FS_CardinalityType
  <2> HIDE DEF Upto
  <2>2. QED
    BY <1>2, <2>1
<1>4. \A s \in SUBSET S : g[s] = SumStep(f, g, s)
  BY <1>3, FS_Subset
<1>5. g = [s \in SUBSET S |-> SumStep(f, g, s)]
  BY <1>4
<1>6. QED
  BY <1>5 DEF IsSum

LEMMA SumIsNatural ==
    ASSUME NEW S, IsFiniteSet(S), NEW f \in [S -> Nat], NEW g, IsSum(f, g, S)
    PROVE  \A s \in SUBSET S : g[s] \in Nat
<1> DEFINE Bad == {k \in Nat : \E s \in SUBSET S : Cardinality(s) = k /\ g[s] \notin Nat}
<1>1. Bad = {}
  <2> SUFFICES ASSUME Bad # {} PROVE FALSE
    OBVIOUS
  <2>1. PICK k \in Bad : \A m \in Bad : k <= m
    <3>1. Bad \subseteq Nat
      OBVIOUS
    <3> HIDE DEF Bad
    <3>2. QED
      BY <3>1, LeastNumber
  <2>2. PICK s \in SUBSET S : Cardinality(s) = k /\ g[s] \notin Nat
    BY <2>1
  <2>3. g[s] = SumStep(f, g, s)
    BY DEF IsSum
  <2>4. s # {}
    BY <2>2, <2>3 DEF SumStep
  <2>5. Any(s) \in s /\ f[Any(s)] \in Nat
    BY <2>4, AnyIsIn
  <2>6. /\ s \ {Any(s)} \in SUBSET S
        /\ Cardinality(s \ {Any(s)}) \in Nat /\ Cardinality(s \ {Any(s)}) < k
    BY <2>2, <2>5, WithoutOne
  <2>7. g[s \ {Any(s)}] \in Nat
    BY <2>1, <2>6
  <2>8. QED
    BY <2>2, <2>3, <2>4, <2>5, <2>7 DEF SumStep
<1>2. \A s \in SUBSET S : Cardinality(s) \in Nat
  BY FS_Subset, FS_CardinalityType
<1>3. QED
  BY <1>1, <1>2

(* The sum does not depend on the order of the elements. *)
LEMMA SumSplit ==
    ASSUME NEW S, IsFiniteSet(S), NEW f \in [S -> Nat], NEW g, IsSum(f, g, S)
    PROVE  \A s \in SUBSET S : \A x \in s : g[s] = f[x] + g[s \ {x}]
<1> DEFINE Splits(s) == \A x \in s : g[s] = f[x] + g[s \ {x}]
           Bad == {k \in Nat : \E s \in SUBSET S : Cardinality(s) = k /\ ~Splits(s)}
<1>1. Bad = {}
  <2> SUFFICES ASSUME Bad # {} PROVE FALSE
    OBVIOUS
  <2>1. PICK k \in Bad : \A m \in Bad : k <= m
    <3>1. Bad \subseteq Nat
      OBVIOUS
    <3> HIDE DEF Bad
    <3>2. QED
      BY <3>1, LeastNumber
  <2>2. PICK s \in SUBSET S : Cardinality(s) = k /\ ~Splits(s)
    BY <2>1
  <2>3. PICK x \in s : g[s] # f[x] + g[s \ {x}]
    BY <2>2
  <2>4. ASSUME NEW t \in SUBSET S, Cardinality(t) \in Nat, Cardinality(t) < k
        PROVE  Splits(t)
    BY <2>1, <2>4
  <2> DEFINE c == Any(s)
  <2>5. c \in s /\ g[s] = f[c] + g[s \ {c}]
    BY AnyIsIn DEF IsSum, SumStep
  <2> HIDE DEF c
  <2>6. c # x
    BY <2>3, <2>5
  <2>7. \A y \in s : /\ s \ {y} \in SUBSET S
                     /\ Cardinality(s \ {y}) \in Nat /\ Cardinality(s \ {y}) < k
    <3>1. ASSUME NEW y \in s
          PROVE  /\ s \ {y} \in SUBSET S
                 /\ Cardinality(s) \in Nat /\ Cardinality(s \ {y}) \in Nat
                 /\ Cardinality(s \ {y}) = Cardinality(s) - 1
      BY WithoutOne
    <3>2. QED
      BY <2>2, <3>1
  <2>8. Splits(s \ {c}) /\ Splits(s \ {x})
    BY <2>4, <2>5, <2>7
  <2>9. /\ g[s \ {c}] = f[x] + g[(s \ {c}) \ {x}]
        /\ g[s \ {x}] = f[c] + g[(s \ {x}) \ {c}]
    BY <2>5, <2>6, <2>8
  <2>10. (s \ {c}) \ {x} = (s \ {x}) \ {c}
    OBVIOUS
  <2>11. PICK a \in Nat, b \in Nat, m \in Nat :
            a = f[x] /\ b = f[c] /\ m = g[(s \ {x}) \ {c}]
    <3>1. f[x] \in Nat /\ f[c] \in Nat /\ g[(s \ {x}) \ {c}] \in Nat
      BY <2>5, SumIsNatural
    <3>2. QED
      BY <3>1
  <2>12. g[s] = b + (a + m) /\ f[x] + g[s \ {x}] = a + (b + m)
    BY <2>5, <2>9, <2>10, <2>11
  <2>13. b + (a + m) = a + (b + m)
    OBVIOUS
  <2>14. QED
    BY <2>3, <2>12, <2>13
<1>2. \A s \in SUBSET S : Cardinality(s) \in Nat
  BY FS_Subset, FS_CardinalityType
<1>3. QED
  BY <1>1, <1>2

(* Two sums agree where what they add agrees. *)
LEMMA SumsAgree ==
    ASSUME NEW S, IsFiniteSet(S), NEW f \in [S -> Nat], NEW g, IsSum(f, g, S),
           NEW T, NEW e, NEW h, IsSum(e, h, T),
           NEW U, U \subseteq S, U \subseteq T, \A x \in U : e[x] = f[x]
    PROVE  g[U] = h[U]
<1> DEFINE Bad == {k \in Nat : \E s \in SUBSET U : Cardinality(s) = k /\ g[s] # h[s]}
<1>1. Bad = {}
  <2> SUFFICES ASSUME Bad # {} PROVE FALSE
    OBVIOUS
  <2>1. PICK k \in Bad : \A m \in Bad : k <= m
    <3>1. Bad \subseteq Nat
      OBVIOUS
    <3> HIDE DEF Bad
    <3>2. QED
      BY <3>1, LeastNumber
  <2>2. PICK s \in SUBSET U : Cardinality(s) = k /\ g[s] # h[s]
    BY <2>1
  <2>3. s \in SUBSET S /\ s \in SUBSET T
    OBVIOUS
  <2>4. g[s] = SumStep(f, g, s) /\ h[s] = SumStep(e, h, s)
    BY <2>3 DEF IsSum
  <2>5. s # {}
    BY <2>2, <2>4 DEF SumStep
  <2>6. PICK c : c = Any(s)
    OBVIOUS
  <2>7. c \in s /\ g[s] = f[c] + g[s \ {c}] /\ h[s] = e[c] + h[s \ {c}]
    BY <2>4, <2>5, <2>6, AnyIsIn DEF SumStep
  <2>8. /\ s \ {c} \in SUBSET U
        /\ Cardinality(s \ {c}) \in Nat /\ Cardinality(s \ {c}) < k
    BY <2>2, <2>3, <2>7, WithoutOne
  <2>9. g[s \ {c}] = h[s \ {c}]
    BY <2>1, <2>8
  <2>10. QED
    BY <2>2, <2>7, <2>9
<1>2. Cardinality(U) \in Nat
  BY FS_Subset, FS_CardinalityType
<1>3. QED
  BY <1>1, <1>2

(* What is zero can be left out. *)
LEMMA SumWithoutZeros ==
    ASSUME NEW S, IsFiniteSet(S), NEW f \in [S -> Nat], NEW g, IsSum(f, g, S),
           NEW U \in SUBSET S, \A x \in S \ U : f[x] = 0
    PROVE  g[S] = g[U]
<1> DEFINE Bad == {k \in Nat : \E s \in SUBSET S :
                      U \subseteq s /\ Cardinality(s) = k /\ g[s] # g[U]}
<1>1. Bad = {}
  <2> SUFFICES ASSUME Bad # {} PROVE FALSE
    OBVIOUS
  <2>1. PICK k \in Bad : \A m \in Bad : k <= m
    <3>1. Bad \subseteq Nat
      OBVIOUS
    <3> HIDE DEF Bad
    <3>2. QED
      BY <3>1, LeastNumber
  <2>2. PICK s \in SUBSET S : U \subseteq s /\ Cardinality(s) = k /\ g[s] # g[U]
    BY <2>1
  <2>3. PICK x \in s : x \notin U
    BY <2>2
  <2>4. g[s] = f[x] + g[s \ {x}]
    BY <2>2, <2>3, SumSplit
  <2>5. f[x] = 0 /\ g[s \ {x}] \in Nat
    BY <2>3, SumIsNatural
  <2>6. /\ s \ {x} \in SUBSET S /\ U \subseteq s \ {x}
        /\ Cardinality(s \ {x}) \in Nat /\ Cardinality(s \ {x}) < k
    BY <2>2, <2>3, WithoutOne
  <2>7. g[s \ {x}] = g[U]
    BY <2>1, <2>6
  <2>8. QED
    BY <2>2, <2>4, <2>5, <2>7
<1>2. Cardinality(S) \in Nat
  BY FS_CardinalityType
<1>3. QED
  BY <1>1, <1>2

-----------------------------------------------------------------------------
(* The sum of a function over its finite domain. *)
SumOver(f, S) == (CHOOSE g : IsSum(f, g, S))[S]

LEMMA SumOverIs ==
    ASSUME NEW S, IsFiniteSet(S), NEW f \in [S -> Nat]
    PROVE  \E g : IsSum(f, g, S) /\ SumOver(f, S) = g[S]
BY SumExists DEF SumOver

LEMMA SumOverNatural ==
    ASSUME NEW S, IsFiniteSet(S), NEW f \in [S -> Nat]
    PROVE  SumOver(f, S) \in Nat
BY SumOverIs, SumIsNatural

(* One value changes: the sum changes by as much. *)
LEMMA SumOverChange ==
    ASSUME NEW S, IsFiniteSet(S), NEW f \in [S -> Nat], NEW e \in [S -> Nat],
           NEW x \in S, \A y \in S \ {x} : e[y] = f[y]
    PROVE  SumOver(e, S) + f[x] = SumOver(f, S) + e[x]
<1>1. PICK g : IsSum(f, g, S) /\ SumOver(f, S) = g[S]
  BY SumOverIs
<1>2. PICK h : IsSum(e, h, S) /\ SumOver(e, S) = h[S]
  BY SumOverIs
<1>3. g[S] = f[x] + g[S \ {x}] /\ h[S] = e[x] + h[S \ {x}]
  BY <1>1, <1>2, SumSplit
<1>4. g[S \ {x}] = h[S \ {x}]
  <2>1. S \ {x} \subseteq S /\ \A y \in S \ {x} : e[y] = f[y]
    OBVIOUS
  <2>2. QED
    BY <1>1, <1>2, <2>1, SumsAgree
<1>5. f[x] \in Nat /\ e[x] \in Nat /\ g[S \ {x}] \in Nat
  BY <1>1, SumIsNatural
<1>6. QED
  BY <1>1, <1>2, <1>3, <1>4, <1>5

(* A sum over the elements that count is the sum with zeros for the rest. *)
LEMMA SumOverPart ==
    ASSUME NEW S, IsFiniteSet(S), NEW f \in [S -> Nat], NEW U \in SUBSET S,
           \A x \in S \ U : f[x] = 0,
           NEW e, NEW h, IsSum(e, h, U), \A x \in U : e[x] = f[x]
    PROVE  h[U] = SumOver(f, S)
<1>1. PICK g : IsSum(f, g, S) /\ SumOver(f, S) = g[S]
  BY SumOverIs
<1>2. g[S] = g[U]
  BY <1>1, SumWithoutZeros
<1>3. g[U] = h[U]
  BY <1>1, SumsAgree
<1>4. QED
  BY <1>1, <1>2, <1>3
================================================================================
