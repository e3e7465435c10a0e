---- MODULE SumTheorems ----
(***************************************************************************)
(* Sums over finite sets, as MapThenSumSet of the community modules forms  *)
(* them: an element is chosen and the rest is summed up.  The sum does not *)
(* depend on the choice, and grows with the set.  Induction is on the      *)
(* subsets of a finite set: a set of them has a least member.              *)
(***************************************************************************)
EXTENDS Naturals, FiniteSets, FiniteSetTheorems, WellFoundedInduction, TLAPS

\* g holds the sum of f over every subset of S, each by a choice of its own.
IsSum(g, f, S) ==
    g = [s \in SUBSET S |->
            IF s = {} THEN 0 ELSE f[CHOOSE x \in s : TRUE] + g[s \ {CHOOSE x \in s : TRUE}]]
Sum(f, S) == (CHOOSE g : IsSum(g, f, S))[S]
----------------------------------------------------------------------------
LEMMA LeastSubset ==
    ASSUME NEW S, IsFiniteSet(S), NEW B, B \subseteq SUBSET S, B # {}
    PROVE  \E T \in B : \A U \in B : U \subseteq T => U = T
<1>1. IsWellFoundedOn(StrictSubsetOrdering(S), FiniteSubsetsOf(S))
  BY FS_StrictSubsetOrderingWellFounded
<1>2. FiniteSubsetsOf(S) = SUBSET S
  BY FS_FiniteSubsetsOfFinite
<1>3. IsWellFoundedOn(StrictSubsetOrdering(S), SUBSET S)
  BY <1>1, <1>2
<1>4. PICK T \in B : \A U \in B : ~ (<<U, T>> \in StrictSubsetOrdering(S))
  BY <1>3, WFMin
<1>5. \A U \in B : <<U, T>> \in (SUBSET S) \X (SUBSET S)
  OBVIOUS
<1>6. QED
  BY <1>4, <1>5 DEF StrictSubsetOrdering

\* What holds of a set if it holds of its subsets holds of S.
LEMMA SubsetInduction ==
    ASSUME NEW S, IsFiniteSet(S), NEW G,
           \A T \in SUBSET S : (\A U \in SUBSET T : U # T => U \in G) => T \in G
    PROVE  S \in G
<1> SUFFICES ASSUME S \notin G PROVE FALSE
  OBVIOUS
<1> DEFINE B == (SUBSET S) \ G
<1>1. B \subseteq SUBSET S /\ B # {}
  OBVIOUS
<1>2. PICK T \in B : \A U \in B : U \subseteq T => U = T
  <2> HIDE DEF B
  <2>1. QED
    BY <1>1, LeastSubset
<1>3. \A U \in SUBSET T : U # T => U \in G
  BY <1>2
<1>4. QED
  BY <1>2, <1>3

LEMMA SumStep ==
    ASSUME NEW g, NEW f, NEW S, IsSum(g, f, S), NEW T \in SUBSET S
    PROVE  /\ T = {} => g[T] = 0
           /\ T # {} => /\ (CHOOSE x \in T : TRUE) \in T
                        /\ g[T] = f[CHOOSE x \in T : TRUE] + g[T \ {CHOOSE x \in T : TRUE}]
BY DEF IsSum

\* Sums over different sets agree where both are defined.
LEMMA SumsAgree ==
    ASSUME NEW g, NEW h, NEW f, NEW S, NEW T \in SUBSET S, IsFiniteSet(T),
           IsSum(g, f, S), IsSum(h, f, T)
    PROVE  g[T] = h[T]
<1> DEFINE G == {U \in SUBSET T : g[U] = h[U]}
<1>1. ASSUME NEW U \in SUBSET T, \A V \in SUBSET U : V # U => V \in G
      PROVE  U \in G
  <2>1. CASE U = {}
    BY <2>1, SumStep
  <2>2. CASE U # {}
    <3> DEFINE x == CHOOSE x \in U : TRUE
    <3>1. x \in U /\ g[U] = f[x] + g[U \ {x}] /\ h[U] = f[x] + h[U \ {x}]
      BY <2>2, SumStep
    <3>2. U \ {x} \in G
      BY <1>1, <3>1
    <3>3. QED
      BY <3>1, <3>2
  <2>3. QED
    BY <2>1, <2>2
<1> HIDE DEF G
<1>2. T \in G
  BY <1>1, SubsetInduction
<1>3. QED
  BY <1>2 DEF G

LEMMA SumExists ==
    ASSUME NEW f, NEW S, IsFiniteSet(S)
    PROVE  \E g : IsSum(g, f, S)
<1> DEFINE G == {T \in SUBSET S : \E g : IsSum(g, f, T)}
<1>1. ASSUME NEW T \in SUBSET S, \A U \in SUBSET T : U # T => U \in G
      PROVE  T \in G
  <2> DEFINE of(U) == CHOOSE g : IsSum(g, f, U)
             ch(U) == CHOOSE x \in U : TRUE
             part(U) == IF U = {} THEN 0 ELSE f[ch(U)] + of(U \ {ch(U)})[U \ {ch(U)}]
             all == [U \in SUBSET T |-> part(U)]
  <2>1. \A U \in SUBSET T : U # T => IsSum(of(U), f, U)
    BY <1>1
  <2>2. \A U \in SUBSET T : U # {} => ch(U) \in U
    OBVIOUS
  <2>3. ASSUME NEW U \in SUBSET T, U # T
        PROVE  all[U] = of(U)[U]
    <3>1. IsSum(of(U), f, U) /\ IsFiniteSet(U)
      BY <2>1, <2>3, FS_Subset
    <3>2. CASE U = {}
      <4>1. of(U)[U] = 0
        BY <3>1, <3>2, SumStep
      <4>2. QED
        BY <4>1, <3>2
    <3>3. CASE U # {}
      <4> DEFINE V == U \ {ch(U)}
      <4>1. ch(U) \in U /\ of(U)[U] = f[ch(U)] + of(U)[V]
        BY <3>1, <3>3, SumStep
      <4>2. V \in SUBSET U /\ V \in SUBSET T /\ V # T /\ IsFiniteSet(V)
        BY <3>1, <4>1, FS_Subset
      <4>3. IsSum(of(V), f, V)
        BY <2>1, <4>2
      <4> HIDE DEF V
      <4>4. of(U)[V] = of(V)[V]
        <5> HIDE DEF of
        <5>1. QED
          BY <3>1, <4>2, <4>3, SumsAgree
      <4>5. all[U] = f[ch(U)] + of(V)[V]
        BY <3>3 DEF V
      <4>6. QED
        BY <4>1, <4>4, <4>5
    <3>4. QED
      BY <3>2, <3>3
  <2>4. ASSUME NEW U \in SUBSET T, U # {}
        PROVE  all[U] = f[ch(U)] + all[U \ {ch(U)}]
    <3>1. U \ {ch(U)} \in SUBSET T /\ U \ {ch(U)} # T
      BY <2>2, <2>4
    <3>2. all[U \ {ch(U)}] = of(U \ {ch(U)})[U \ {ch(U)}]
      <4> HIDE DEF of, ch, all
      <4>1. QED
        BY <2>3, <3>1
    <3>3. QED
      BY <2>4, <3>2
  <2>5. all = [U \in SUBSET T |-> IF U = {} THEN 0 ELSE f[ch(U)] + all[U \ {ch(U)}]]
    <3>1. ASSUME NEW U \in SUBSET T
          PROVE  all[U] = IF U = {} THEN 0 ELSE f[ch(U)] + all[U \ {ch(U)}]
      <4>1. CASE U = {}
        BY <4>1
      <4>2. CASE U # {}
        <5> HIDE DEF all
        <5>1. QED
          BY <2>4, <4>2
      <4>3. QED
        BY <4>1, <4>2
    <3>2. all = [U \in SUBSET T |-> all[U]]
      OBVIOUS
    <3> HIDE DEF all, ch
    <3>3. QED
      BY <3>1, <3>2
  <2>6. IsSum(all, f, T)
    <3> HIDE DEF all
    <3>1. QED
      BY <2>5 DEF IsSum
  <2> HIDE DEF all
  <2>7. QED
    BY <2>6
<1> HIDE DEF G
<1>2. S \in G
  BY <1>1, SubsetInduction
<1>3. QED
  BY <1>2 DEF G

\* Every function that sums up over S has the sum of S.
LEMMA SumIs ==
    ASSUME NEW g, NEW f, NEW S, NEW T \in SUBSET S, IsFiniteSet(T), IsSum(g, f, S)
    PROVE  g[T] = Sum(f, T)
<1> DEFINE h == CHOOSE h : IsSum(h, f, T)
<1>1. IsSum(h, f, T)
  BY SumExists
<1> HIDE DEF h
<1>2. g[T] = h[T]
  BY <1>1, SumsAgree
<1>3. QED
  BY <1>2 DEF h, Sum

LEMMA SumOfNone ==
    ASSUME NEW f
    PROVE  Sum(f, {}) = 0
<1>1. IsFiniteSet({})
  BY FS_EmptySet
<1>2. PICK g : IsSum(g, f, {})
  BY <1>1, SumExists
<1>3. g[{}] = 0
  BY <1>2, SumStep
<1>4. g[{}] = Sum(f, {})
  BY <1>1, <1>2, SumIs
<1>5. QED
  BY <1>3, <1>4

LEMMA SumUnfolds ==
    ASSUME NEW f, NEW S, IsFiniteSet(S), S # {}
    PROVE  \E x \in S : Sum(f, S) = f[x] + Sum(f, S \ {x})
<1> DEFINE x == CHOOSE x \in S : TRUE
<1>1. PICK g : IsSum(g, f, S)
  BY SumExists
<1>2. x \in S /\ g[S] = f[x] + g[S \ {x}]
  BY <1>1, SumStep
<1>3. g[S] = Sum(f, S)
  BY <1>1, SumIs
<1>4. IsFiniteSet(S \ {x})
  BY FS_Subset
<1> HIDE DEF x
<1>5. g[S \ {x}] = Sum(f, S \ {x})
  BY <1>1, <1>4, SumIs
<1>6. QED
  BY <1>2, <1>3, <1>5

LEMMA SumType ==
    ASSUME NEW f, NEW S, IsFiniteSet(S), \A x \in S : f[x] \in Nat
    PROVE  Sum(f, S) \in Nat
<1> DEFINE G == {T \in SUBSET S : Sum(f, T) \in Nat}
<1>1. ASSUME NEW T \in SUBSET S, \A U \in SUBSET T : U # T => U \in G
      PROVE  T \in G
  <2>1. CASE T = {}
    BY <2>1, SumOfNone
  <2>2. CASE T # {}
    <3>1. IsFiniteSet(T)
      BY FS_Subset
    <3>2. PICK x \in T : Sum(f, T) = f[x] + Sum(f, T \ {x})
      BY <2>2, <3>1, SumUnfolds
    <3>3. T \ {x} \in G
      BY <1>1, <3>2
    <3>4. QED
      BY <3>2, <3>3
  <2>3. QED
    BY <2>1, <2>2
<1> HIDE DEF G
<1>2. S \in G
  BY <1>1, SubsetInduction
<1>3. QED
  BY <1>2 DEF G

\* Any element can be taken first.
LEMMA SumAny ==
    ASSUME NEW f, NEW S, IsFiniteSet(S), \A x \in S : f[x] \in Nat, NEW y \in S
    PROVE  Sum(f, S) = f[y] + Sum(f, S \ {y})
<1> DEFINE G == {T \in SUBSET S : \A z \in T : Sum(f, T) = f[z] + Sum(f, T \ {z})}
<1>1. ASSUME NEW T \in SUBSET S, \A U \in SUBSET T : U # T => U \in G
      PROVE  T \in G
  <2>1. SUFFICES ASSUME NEW z \in T PROVE Sum(f, T) = f[z] + Sum(f, T \ {z})
    OBVIOUS
  <2>2. IsFiniteSet(T) /\ \A U \in SUBSET T : IsFiniteSet(U)
    BY FS_Subset
  <2>3. PICK x \in T : Sum(f, T) = f[x] + Sum(f, T \ {x})
    BY <2>1, <2>2, SumUnfolds
  <2>4. CASE x = z
    BY <2>3, <2>4
  <2>5. CASE x # z
    <3> DEFINE rest == (T \ {x}) \ {z}
    <3>1. T \ {x} \in G /\ T \ {z} \in G
      BY <1>1, <2>1, <2>3
    <3>2. rest = (T \ {z}) \ {x} /\ z \in T \ {x} /\ x \in T \ {z}
      BY <2>5
    <3>3. Sum(f, T \ {x}) = f[z] + Sum(f, rest)
      BY <3>1, <3>2
    <3>4. Sum(f, T \ {z}) = f[x] + Sum(f, rest)
      BY <3>1, <3>2
    <3>5. IsFiniteSet(rest) /\ rest \in SUBSET S
      BY <2>2
    <3> HIDE DEF rest
    <3>6. Sum(f, rest) \in Nat /\ f[x] \in Nat /\ f[z] \in Nat
      BY <3>5, SumType
    <3>7. QED
      BY <2>3, <3>3, <3>4, <3>6
  <2>6. QED
    BY <2>4, <2>5
<1> HIDE DEF G
<1>2. S \in G
  BY <1>1, SubsetInduction
<1>3. QED
  BY <1>2 DEF G

LEMMA SumWith ==
    ASSUME NEW f, NEW S, IsFiniteSet(S), NEW y, y \notin S,
           \A x \in S \cup {y} : f[x] \in Nat
    PROVE  Sum(f, S \cup {y}) = f[y] + Sum(f, S)
<1>1. IsFiniteSet(S \cup {y})
  BY FS_AddElement
<1>2. (S \cup {y}) \ {y} = S
  OBVIOUS
<1>3. Sum(f, S \cup {y}) = f[y] + Sum(f, (S \cup {y}) \ {y})
  BY <1>1, SumAny
<1>4. QED
  BY <1>2, <1>3

\* A sum of natural numbers grows with its set.
LEMMA SumMonotone ==
    ASSUME NEW f, NEW T, IsFiniteSet(T), NEW S \in SUBSET T, \A x \in T : f[x] \in Nat
    PROVE  Sum(f, S) <= Sum(f, T)
<1> DEFINE D == T \ S
           G == {U \in SUBSET D : Sum(f, S) <= Sum(f, S \cup U)}
<1>1. \A U \in SUBSET T : IsFiniteSet(U) /\ Sum(f, U) \in Nat
  BY FS_Subset, SumType
<1>2. ASSUME NEW U \in SUBSET D, \A V \in SUBSET U : V # U => V \in G
      PROVE  U \in G
  <2>1. CASE U = {}
    <3>1. S \cup U = S
      BY <2>1
    <3>2. QED
      BY <1>1, <3>1
  <2>2. CASE U # {}
    <3>1. PICK y \in U : TRUE
      BY <2>2
    <3> DEFINE V == U \ {y}
               W == S \cup V
    <3>2. V \in G
      BY <1>2, <3>1
    <3>3. S \cup U = W \cup {y} /\ y \notin W /\ W \in SUBSET T /\ y \in T
      BY <3>1
    <3>4. Sum(f, S) <= Sum(f, W)
      BY <3>2
    <3> HIDE DEF W
    <3>5. Sum(f, W \cup {y}) = f[y] + Sum(f, W)
      BY <1>1, <3>3, SumWith
    <3>6. Sum(f, S) \in Nat /\ Sum(f, W) \in Nat /\ f[y] \in Nat
      BY <1>1, <3>3
    <3>7. Sum(f, W \cup {y}) \in Nat /\ Sum(f, S) <= Sum(f, W \cup {y})
      BY <3>4, <3>5, <3>6
    <3>8. QED
      BY <3>3, <3>7
  <2>3. QED
    BY <2>1, <2>2
<1>3. IsFiniteSet(D)
  BY <1>1
<1> HIDE DEF G
<1>4. D \in G
  <2> HIDE DEF D
  <2>1. QED
    BY <1>2, <1>3, SubsetInduction
<1>5. S \cup D = T
  OBVIOUS
<1>6. QED
  BY <1>4, <1>5 DEF G

\* A sum asks of f only its values on the set.
LEMMA SumOfEquals ==
    ASSUME NEW f, NEW h, NEW S, IsFiniteSet(S), \A x \in S : f[x] = h[x]
    PROVE  Sum(f, S) = Sum(h, S)
<1>1. PICK g : IsSum(g, f, S)
  BY SumExists
<1>2. \A s \in SUBSET S : s # {} => f[CHOOSE x \in s : TRUE] = h[CHOOSE x \in s : TRUE]
  OBVIOUS
<1>3. IsSum(g, h, S)
  BY <1>1, <1>2 DEF IsSum
<1>4. QED
  BY <1>1, <1>3, SumIs

\* Sets without common elements together have the sum of their elements.
LEMMA SumOfDisjoint ==
    ASSUME NEW S, IsFiniteSet(S), NEW P, \A k \in S : IsFiniteSet(P[k]),
           \A k, l \in S : k # l => P[k] \cap P[l] = {},
           NEW f, \A k \in S : f[k] = Cardinality(P[k])
    PROVE  /\ IsFiniteSet(UNION {P[k] : k \in S})
           /\ Cardinality(UNION {P[k] : k \in S}) = Sum(f, S)
<1> DEFINE All(T) == UNION {P[k] : k \in T}
           G == {T \in SUBSET S : IsFiniteSet(All(T)) /\ Cardinality(All(T)) = Sum(f, T)}
<1>1. ASSUME NEW T \in SUBSET S, \A U \in SUBSET T : U # T => U \in G
      PROVE  T \in G
  <2>1. CASE T = {}
    <3>1. All(T) = {}
      BY <2>1
    <3> HIDE DEF All
    <3>2. QED
      BY <2>1, <3>1, SumOfNone, FS_EmptySet
  <2>2. CASE T # {}
    <3>1. PICK y \in T : TRUE
      BY <2>2
    <3> DEFINE U == T \ {y}
    <3>2. U \in G /\ U \in SUBSET S /\ IsFiniteSet(U)
      BY <1>1, <3>1, FS_Subset
    <3>3. All(T) = All(U) \cup P[y] /\ All(U) \cap P[y] = {}
      BY <3>1
    <3>4. T = U \cup {y} /\ y \notin U
      BY <3>1
    <3>5. \A k \in S : f[k] \in Nat
      BY FS_CardinalityType
    <3> HIDE DEF U, All
    <3>6. Sum(f, T) = f[y] + Sum(f, U)
      <4>1. \A k \in U \cup {y} : f[k] \in Nat
        BY <3>4, <3>5
      <4>2. QED
        BY <3>2, <3>4, <4>1, SumWith
    <3>7. IsFiniteSet(All(U)) /\ Cardinality(All(U)) = Sum(f, U) /\ IsFiniteSet(P[y])
      BY <3>2
    <3>8. /\ IsFiniteSet(All(T))
          /\ Cardinality(All(T)) = Cardinality(All(U)) + Cardinality(P[y]) - 0
      <4>1. /\ IsFiniteSet(All(U) \cup P[y])
            /\ Cardinality(All(U) \cup P[y]) =
                  Cardinality(All(U)) + Cardinality(P[y]) - Cardinality(All(U) \cap P[y])
        BY <3>7, FS_Union
      <4>2. Cardinality(All(U) \cap P[y]) = 0
        BY <3>3, FS_EmptySet
      <4>3. QED
        BY <3>3, <4>1, <4>2
    <3>9. Sum(f, U) \in Nat /\ f[y] \in Nat
      BY <3>2, <3>5, SumType
    <3>10. Cardinality(All(T)) = Sum(f, T)
      BY <3>6, <3>7, <3>8, <3>9
    <3>11. QED
      BY <3>8, <3>10
  <2>3. QED
    BY <2>1, <2>2
<1> HIDE DEF G
<1>2. S \in G
  BY <1>1, SubsetInduction
<1>3. QED
  BY <1>2 DEF G
====
