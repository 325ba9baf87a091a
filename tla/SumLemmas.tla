------------------------------ MODULE SumLemmas ------------------------------
(***************************************************************************)
(* What the models need to know of their sums, SumFunction of the library: *)
(* that its recursion is well defined on finite sets, that the order in    *)
(* which it takes the elements does not matter, and what one entry more or *)
(* one entry changed does to it.  The library's recursion picks elements   *)
(* with CHOOSE; induction is by a smallest counterexample, a number or a   *)
(* subset, which the well-founded orders of FiniteSetTheorems provide.     *)
(***************************************************************************)
EXTENDS Integers, FiniteSets, Functions, FiniteSetTheorems, TLAPS

-----------------------------------------------------------------------------
(* Smallest counterexamples *)

\* A set of numbers that is not empty has a least one.
LEMMA LeastNumber ==
  ASSUME NEW B, B \subseteq Nat, B # {}
  PROVE  \E n \in B : \A m \in B : n <= m
<1>1. PICK n \in B : \A m \in B : <<m, n>> \notin OpToRel(<, Nat)
  BY NatLessThanWellFounded, WFMin
<1>2. \A m \in B : ~ (m < n)
  BY <1>1 DEF OpToRel
<1> QED
  BY <1>2

\* Among subsets of a finite set, one contains no other.
LEMMA SmallestSubset ==
  ASSUME NEW S, IsFiniteSet(S), NEW B, B \subseteq SUBSET S, B # {}
  PROVE  \E T \in B : \A U \in B : U \subseteq T => U = T
<1>1. B \subseteq FiniteSubsetsOf(S)
  BY FS_Subset DEF FiniteSubsetsOf
<1>2. PICK T \in B : \A U \in B : <<U, T>> \notin StrictSubsetOrdering(S)
  BY <1>1, FS_StrictSubsetOrderingWellFounded, WFMin
<1>3. \A U \in B : U \subseteq T => U = T
  BY <1>2 DEF StrictSubsetOrdering
<1> QED
  BY <1>3

-----------------------------------------------------------------------------
(* The recursion is well defined *)

\* The element that the library takes next.
Pick(s) == CHOOSE x \in s : TRUE

\* It is one of the set.
LEMMA PickIn == ASSUME NEW s, s # {} PROVE Pick(s) \in s
BY DEF Pick

\* One step of the recursion that a sum is.
Round(f, g, s) == IF s = {} THEN 0 ELSE f[Pick(s)] + g[s \ {Pick(s)}]

\* The sum over a set is the value at that set of the recursive function.
LEMMA Unfold ==
  ASSUME NEW f, NEW S
  PROVE  SumFunctionOnSet(f, S) = (CHOOSE g : g = [s \in SUBSET S |-> Round(f, g, s)])[S]
BY Zenon DEF SumFunctionOnSet, FoldFunctionOnSet, MapThenFoldSet, Pick, Round

\* The subsets of at most n elements.
UpTo(S, n) == {s \in SUBSET S : Cardinality(s) <= n}

\* g adds up f on every set of D.
Adds(f, g, D) == g = [s \in D |-> Round(f, g, s)]

\* Such a function exists: built up by the size of the subsets, there is no
\* least size at which it would be missing.
LEMMA RoundExists ==
  ASSUME NEW f, NEW S, IsFiniteSet(S)
  PROVE  \E g : Adds(f, g, SUBSET S)
<1> DEFINE B == {n \in Nat : ~ \E g : Adds(f, g, UpTo(S, n))}
<1>0. \A s \in SUBSET S : IsFiniteSet(s) /\ Cardinality(s) \in Nat /\ (Cardinality(s) = 0 <=> s = {})
  BY FS_Subset, FS_CardinalityType, FS_EmptySet
<1>1. ASSUME B # {} PROVE FALSE
  <2> HIDE DEF B
  <2>1. PICK n \in B : \A m \in B : n <= m
    BY <1>1, LeastNumber DEF B
  <2>2. n # 0
    <3> SUFFICES ASSUME n = 0 PROVE \E g : Adds(f, g, UpTo(S, 0))
      BY <2>1 DEF B
    <3>1. UpTo(S, 0) = {{}}
      BY <1>0 DEF UpTo
    <3> DEFINE g == [s \in {{}} |-> 0]
    <3>2. g = [s \in {{}} |-> Round(f, g, s)]
      BY DEF Round
    <3> QED BY <3>1, <3>2 DEF Adds
  <2>3. n \in Nat /\ n - 1 \in Nat /\ n - 1 \notin B
    BY <2>1, <2>2 DEF B
  <2>4. PICK g : Adds(f, g, UpTo(S, n - 1))
    BY <2>3 DEF B
  <2> DEFINE h == [s \in UpTo(S, n) |-> Round(f, g, s)]
  <2>5. ASSUME NEW s \in UpTo(S, n) PROVE Round(f, h, s) = Round(f, g, s)
    <3>1. CASE s = {}
      BY <3>1 DEF Round
    <3>2. CASE s # {}
      <4> DEFINE t == s \ {Pick(s)}
      <4>1. t \in SUBSET S /\ Cardinality(t) = Cardinality(s) - 1
        BY <3>2, <1>0, PickIn, FS_RemoveElement DEF UpTo
      <4>2. t \in UpTo(S, n - 1) /\ t \in UpTo(S, n)
        BY <4>1, <2>3, <1>0 DEF UpTo
      <4>3. h[t] = g[t]
        <5> HIDE DEF t
        <5> QED BY <4>2, <2>4 DEF Adds
      <4> QED BY <3>2, <4>3 DEF Round
    <3> QED BY <3>1, <3>2
  <2>6. Adds(f, h, UpTo(S, n))
    BY <2>5, Zenon DEF Adds
  <2> QED BY <2>1, <2>6 DEF B
<1>2. UpTo(S, Cardinality(S)) = SUBSET S
  BY <1>0, FS_Subset DEF UpTo
<1>3. Cardinality(S) \in Nat /\ Cardinality(S) \notin B
  <2> HIDE DEF B
  <2> QED BY <1>0, <1>1
<1>4. \E g : Adds(f, g, UpTo(S, Cardinality(S)))
  BY <1>3
<1> QED BY <1>2, <1>4

\* The function that adds up the subsets of S, as the library picks them.
Adding(f, S) == CHOOSE g : Adds(f, g, SUBSET S)

\* So the one the library chooses is one, and gives the sum.
LEMMA AddingAdds ==
  ASSUME NEW f, NEW S, IsFiniteSet(S)
  PROVE  /\ Adds(f, Adding(f, S), SUBSET S)
         /\ SumFunctionOnSet(f, S) = Adding(f, S)[S]
<1>1. Adds(f, Adding(f, S), SUBSET S)
  <2> DEFINE P(g) == Adds(f, g, SUBSET S)
  <2>1. \E g : P(g) BY RoundExists
  <2>2. P(CHOOSE g : P(g))
    <3> HIDE DEF P
    <3> QED BY <2>1, Zenon
  <2> QED BY <2>2 DEF Adding
<1>2. SumFunctionOnSet(f, S) = Adding(f, S)[S]
  BY Unfold, Zenon DEF Adding, Adds
<1> QED BY <1>1, <1>2

\* What is added up of a part does not depend on the whole.
LEMMA AddingPart ==
  ASSUME NEW f, NEW S, IsFiniteSet(S), NEW T \in SUBSET S
  PROVE  SumFunctionOnSet(f, T) = Adding(f, S)[T]
<1> DEFINE g == Adding(f, S)
           h == Adding(f, T)
           B == {U \in SUBSET T : g[U] # h[U]}
<1>1. IsFiniteSet(T) BY FS_Subset
<1>2. Adds(f, g, SUBSET S) /\ Adds(f, h, SUBSET T) BY <1>1, AddingAdds
<1> HIDE DEF g, h
<1>3. \A U \in SUBSET T : g[U] = Round(f, g, U) /\ h[U] = Round(f, h, U)
  BY <1>2 DEF Adds
<1>4. ASSUME B # {} PROVE FALSE
  <2>1. PICK U \in B : \A V \in B : V \subseteq U => V = U
    <3> HIDE DEF B
    <3>1. B \subseteq SUBSET T BY DEF B
    <3> QED BY <1>1, <1>4, <3>1, SmallestSubset
  <2>2. CASE U = {}
    BY <2>1, <2>2, <1>3 DEF Round
  <2>3. CASE U # {}
    <3> DEFINE V == U \ {Pick(U)}
    <3>1. V \in SUBSET T /\ V \subseteq U /\ V # U BY <2>1, <2>3, PickIn
    <3>2. g[V] = h[V] BY <3>1, <2>1
    <3>3. Round(f, g, U) = Round(f, h, U) BY <3>2, <2>3 DEF Round
    <3> QED BY <3>3, <2>1, <1>3
  <2> QED BY <2>2, <2>3
<1> QED BY <1>1, <1>4, AddingAdds DEF h, g

\* The recursion of the library: one picked element and the sum of the rest.
LEMMA SumPicked ==
  ASSUME NEW f, NEW S, IsFiniteSet(S)
  PROVE  SumFunctionOnSet(f, S) =
           IF S = {} THEN 0 ELSE f[Pick(S)] + SumFunctionOnSet(f, S \ {Pick(S)})
<1> DEFINE g == Adding(f, S)
<1>1. g[S] = Round(f, g, S) BY AddingAdds DEF Adds
<1>2. SumFunctionOnSet(f, S) = g[S] /\ SumFunctionOnSet(f, S \ {Pick(S)}) = g[S \ {Pick(S)}]
  BY AddingPart
<1> HIDE DEF g
<1> QED BY <1>1, <1>2 DEF Round

-----------------------------------------------------------------------------
(* The order does not matter *)

\* Integers add up to an integer.
LEMMA PartialInt ==
  ASSUME NEW f, NEW S, IsFiniteSet(S), \A x \in S : f[x] \in Int
  PROVE  SumFunctionOnSet(f, S) \in Int
<1> DEFINE B == {T \in SUBSET S : SumFunctionOnSet(f, T) \notin Int}
<1>1. ASSUME B # {} PROVE FALSE
  <2>1. PICK T \in B : \A U \in B : U \subseteq T => U = T
    <3> HIDE DEF B
    <3>1. B \subseteq SUBSET S BY DEF B
    <3> QED BY <1>1, <3>1, SmallestSubset
  <2>2. IsFiniteSet(T) BY <2>1, FS_Subset
  <2>3. SumFunctionOnSet(f, T) =
          IF T = {} THEN 0 ELSE f[Pick(T)] + SumFunctionOnSet(f, T \ {Pick(T)})
    BY <2>2, SumPicked
  <2>4. CASE T = {} BY <2>1, <2>3, <2>4
  <2>5. CASE T # {}
    <3>1. Pick(T) \in T BY <2>5, PickIn
    <3>2. SumFunctionOnSet(f, T \ {Pick(T)}) \in Int BY <2>1, <3>1
    <3> QED BY <2>1, <2>3, <2>5, <3>1, <3>2
  <2> QED BY <2>4, <2>5
<1> QED BY <1>1

\* Any element may be taken first, not only the picked one: in a smallest set
\* where it may not, both can be taken, in either order, from smaller sets.
LEMMA PartialSplit ==
  ASSUME NEW f, NEW S, IsFiniteSet(S), \A x \in S : f[x] \in Int, NEW x \in S
  PROVE  SumFunctionOnSet(f, S) = f[x] + SumFunctionOnSet(f, S \ {x})
<1> DEFINE Sm(T) == SumFunctionOnSet(f, T)
           B == {T \in SUBSET S : \E y \in T : Sm(T) # f[y] + Sm(T \ {y})}
<1>1. \A T \in SUBSET S : IsFiniteSet(T) /\ \A y \in T : f[y] \in Int
  BY FS_Subset
<1>2. \A T \in SUBSET S : Sm(T) \in Int
  BY <1>1, PartialInt
<1>3. \A T \in SUBSET S : T # {} => Pick(T) \in T /\ Sm(T) = f[Pick(T)] + Sm(T \ {Pick(T)})
  BY <1>1, SumPicked, PickIn
<1> HIDE DEF Sm
<1>4. ASSUME B # {} PROVE FALSE
  <2>1. PICK T \in B : \A U \in B : U \subseteq T => U = T
    <3> HIDE DEF B
    <3>1. B \subseteq SUBSET S BY DEF B
    <3> QED BY <1>4, <3>1, SmallestSubset
  <2>2. PICK y \in T : Sm(T) # f[y] + Sm(T \ {y})
    BY <2>1
  <2> DEFINE p == Pick(T)
             U == T \ {p}
             V == T \ {y}
             W == T \ {p, y}
  <2>3. p \in T /\ p # y /\ Sm(T) = f[p] + Sm(U)
    BY <1>3, <2>1, <2>2
  <2> HIDE DEF p
  <2>4. Sm(U) = f[y] + Sm(U \ {y})
    BY <2>1, <2>2, <2>3
  <2>5. Sm(V) = f[p] + Sm(V \ {p})
    BY <2>1, <2>2, <2>3
  <2>6. U \ {y} = W /\ V \ {p} = W
    OBVIOUS
  <2>7. Sm(W) \in Int /\ f[p] \in Int /\ f[y] \in Int
    BY <1>2, <2>1, <2>2, <2>3
  <2>8. Sm(T) = f[p] + (f[y] + Sm(W)) /\ Sm(V) = f[p] + Sm(W)
    BY <2>3, <2>4, <2>5, <2>6
  <2>9. Sm(T) = f[y] + Sm(V)
    BY <2>7, <2>8
  <2> QED BY <2>2, <2>9
<1>5. Sm(S) = f[x] + Sm(S \ {x})
  <2> HIDE DEF B
  <2>1. S \notin B BY <1>4
  <2> QED BY <2>1 DEF B
<1> QED BY <1>5 DEF Sm

\* The sum depends on the values at the elements alone.
LEMMA PartialSame ==
  ASSUME NEW f, NEW g, NEW S, IsFiniteSet(S), \A x \in S : f[x] = g[x]
  PROVE  SumFunctionOnSet(f, S) = SumFunctionOnSet(g, S)
<1> DEFINE B == {T \in SUBSET S : SumFunctionOnSet(f, T) # SumFunctionOnSet(g, T)}
<1>1. ASSUME B # {} PROVE FALSE
  <2>1. PICK T \in B : \A U \in B : U \subseteq T => U = T
    <3> HIDE DEF B
    <3>1. B \subseteq SUBSET S BY DEF B
    <3> QED BY <1>1, <3>1, SmallestSubset
  <2>2. IsFiniteSet(T) BY <2>1, FS_Subset
  <2>3. \A h : SumFunctionOnSet(h, T) =
          IF T = {} THEN 0 ELSE h[Pick(T)] + SumFunctionOnSet(h, T \ {Pick(T)})
    BY <2>2, SumPicked
  <2>4. CASE T = {}
    <3>1. \A h : SumFunctionOnSet(h, T) = 0 BY <2>3, <2>4
    <3> QED BY <2>1, <3>1
  <2>5. CASE T # {}
    <3>1. Pick(T) \in T BY <2>5, PickIn
    <3>2. SumFunctionOnSet(f, T \ {Pick(T)}) = SumFunctionOnSet(g, T \ {Pick(T)})
      BY <2>1, <3>1
    <3>3. \A h : SumFunctionOnSet(h, T) = h[Pick(T)] + SumFunctionOnSet(h, T \ {Pick(T)})
      BY <2>3, <2>5
    <3>4. f[Pick(T)] = g[Pick(T)] BY <2>1, <3>1
    <3>5. SumFunctionOnSet(f, T) = SumFunctionOnSet(g, T) BY <3>2, <3>3, <3>4
    <3> QED BY <2>1, <3>5
  <2> QED BY <2>4, <2>5
<1> QED BY <1>1

-----------------------------------------------------------------------------
(* Sums of functions *)

\* Nothing adds up to 0.
LEMMA SumEmpty ==
  ASSUME NEW f, DOMAIN f = {}
  PROVE  SumFunction(f) = 0
BY SumPicked, FS_EmptySet DEF SumFunction

\* Integers add up to an integer ...
LEMMA SumInt ==
  ASSUME NEW f, IsFiniteSet(DOMAIN f), \A x \in DOMAIN f : f[x] \in Int
  PROVE  SumFunction(f) \in Int
BY PartialInt DEF SumFunction

\* A sum with one more entry.
LEMMA SumWith ==
  ASSUME NEW f, NEW g, NEW x, IsFiniteSet(DOMAIN f), x \notin DOMAIN f,
         DOMAIN g = DOMAIN f \cup {x}, \A y \in DOMAIN f : g[y] = f[y],
         \A y \in DOMAIN g : g[y] \in Int
  PROVE  SumFunction(g) = SumFunction(f) + g[x]
<1> DEFINE S == DOMAIN f
           T == DOMAIN g
<1>1. IsFiniteSet(T) BY FS_AddElement
<1>2. T \ {x} = S /\ x \in T OBVIOUS
<1>3. SumFunctionOnSet(g, T) = g[x] + SumFunctionOnSet(g, S)
  <2> HIDE DEF S, T
  <2>1. SumFunctionOnSet(g, T) = g[x] + SumFunctionOnSet(g, T \ {x})
    BY <1>1, <1>2, PartialSplit DEF T
  <2> QED BY <2>1, <1>2
<1>4. SumFunctionOnSet(g, S) = SumFunctionOnSet(f, S)
  BY PartialSame
<1>5. SumFunctionOnSet(f, S) \in Int
  BY PartialInt
<1> QED BY <1>3, <1>4, <1>5 DEF SumFunction

\* A sum with one entry changed.
LEMMA SumChanged ==
  ASSUME NEW f, NEW g, IsFiniteSet(DOMAIN f), DOMAIN g = DOMAIN f, NEW x \in DOMAIN f,
         \A y \in DOMAIN f : f[y] \in Int /\ g[y] \in Int,
         \A y \in DOMAIN f \ {x} : g[y] = f[y]
  PROVE  SumFunction(g) = SumFunction(f) - f[x] + g[x]
<1> DEFINE S == DOMAIN f
           R == S \ {x}
<1>1. IsFiniteSet(R) BY FS_RemoveElement
<1>2. SumFunctionOnSet(g, S) = g[x] + SumFunctionOnSet(g, R)
  BY PartialSplit
<1>3. SumFunctionOnSet(f, S) = f[x] + SumFunctionOnSet(f, R)
  BY PartialSplit
<1>4. SumFunctionOnSet(g, R) = SumFunctionOnSet(f, R)
  BY <1>1, PartialSame
<1>5. SumFunctionOnSet(f, R) \in Int
  BY <1>1, PartialInt
<1> QED BY <1>2, <1>3, <1>4, <1>5 DEF SumFunction

\* No entry is larger: nor is the sum.
LEMMA SumAtMost ==
  ASSUME NEW f, NEW g, IsFiniteSet(DOMAIN g), DOMAIN f \subseteq DOMAIN g,
         \A y \in DOMAIN f : f[y] \in Int /\ f[y] <= g[y],
         \A y \in DOMAIN g : g[y] \in Int,
         \A y \in DOMAIN g \ DOMAIN f : 0 <= g[y]
  PROVE  SumFunction(f) <= SumFunction(g)
<1> DEFINE S == DOMAIN g
           B == {T \in SUBSET S : ~ (SumFunctionOnSet(f, T \cap DOMAIN f) <= SumFunctionOnSet(g, T))}
<1>1. ASSUME B # {} PROVE FALSE
  <2>1. PICK T \in B : \A U \in B : U \subseteq T => U = T
    <3> HIDE DEF B
    <3>1. B \subseteq SUBSET S BY DEF B
    <3> QED BY <1>1, <3>1, SmallestSubset
  <2> DEFINE D == T \cap DOMAIN f
  <2>2. IsFiniteSet(T) /\ IsFiniteSet(D) BY <2>1, FS_Subset
  <2>3. CASE T = {}
    <3>1. D = {} BY <2>3
    <3>2. \A k : SumFunctionOnSet(k, {}) = 0 BY SumPicked, FS_EmptySet
    <3> QED BY <2>1, <2>3, <3>1, <3>2
  <2>4. CASE T # {}
    <3>1. PICK x \in T : TRUE BY <2>4
    <3> DEFINE U == T \ {x}
    <3>2. IsFiniteSet(U) /\ IsFiniteSet(U \cap DOMAIN f) /\ U \subseteq S
      BY <2>1, <2>2, FS_Subset
    <3>3. SumFunctionOnSet(g, T) = g[x] + SumFunctionOnSet(g, U)
      BY <2>1, <2>2, PartialSplit
    <3>4. SumFunctionOnSet(f, U \cap DOMAIN f) <= SumFunctionOnSet(g, U)
      BY <2>1, <3>1
    <3>5. SumFunctionOnSet(g, U) \in Int
      BY <3>2, PartialInt
    <3>6. SumFunctionOnSet(f, U \cap DOMAIN f) \in Int
      BY <3>2, PartialInt
    <3>7. CASE x \in DOMAIN f
      <4>1. SumFunctionOnSet(f, D) = f[x] + SumFunctionOnSet(f, D \ {x})
        BY <2>2, <3>7, PartialSplit
      <4>2. D \ {x} = U \cap DOMAIN f OBVIOUS
      <4>3. f[x] \in Int /\ g[x] \in Int /\ f[x] <= g[x] BY <3>7
      <4>4. f[x] + SumFunctionOnSet(f, U \cap DOMAIN f) <= SumFunctionOnSet(g, T)
        <5> HIDE DEF U
        <5> QED BY <4>3, <3>3, <3>4, <3>5, <3>6
      <4>5. SumFunctionOnSet(f, D) = f[x] + SumFunctionOnSet(f, U \cap DOMAIN f)
        BY <4>1, <4>2
      <4> QED BY <4>4, <4>5, <2>1
    <3>8. CASE x \notin DOMAIN f
      <4>1. D = U \cap DOMAIN f BY <3>8
      <4>2. g[x] \in Int /\ 0 <= g[x] BY <3>8, <2>1
      <4>3. SumFunctionOnSet(f, U \cap DOMAIN f) <= SumFunctionOnSet(g, T)
        <5> HIDE DEF U
        <5> QED BY <4>2, <3>3, <3>4, <3>5, <3>6
      <4> QED BY <4>1, <4>3, <2>1
    <3> QED BY <3>7, <3>8
  <2> QED BY <2>3, <2>4
<1>2. S \notin B
  <2> HIDE DEF B
  <2> QED BY <1>1
<1>3. S \cap DOMAIN f = DOMAIN f OBVIOUS
<1> QED BY <1>2, <1>3 DEF SumFunction

\* ... and natural numbers to a natural number.
LEMMA SumNat ==
  ASSUME NEW f, IsFiniteSet(DOMAIN f), \A x \in DOMAIN f : f[x] \in Nat
  PROVE  SumFunction(f) \in Nat
<1> DEFINE e == [x \in {} |-> 0]
<1>1. SumFunction(e) = 0 BY SumEmpty
<1>2. SumFunction(e) <= SumFunction(f)
  <2>1. DOMAIN e = {} OBVIOUS
  <2> HIDE DEF e
  <2> QED BY <2>1, SumAtMost
<1>3. SumFunction(f) \in Int BY SumInt
<1> QED BY <1>1, <1>2, <1>3

\* A sum in two parts.
LEMMA SumParts ==
  ASSUME NEW f, NEW g, NEW h, IsFiniteSet(DOMAIN f),
         DOMAIN f = DOMAIN g \cup DOMAIN h, DOMAIN g \cap DOMAIN h = {},
         \A x \in DOMAIN f : f[x] \in Int,
         \A x \in DOMAIN g : g[x] = f[x], \A x \in DOMAIN h : h[x] = f[x]
  PROVE  SumFunction(f) = SumFunction(g) + SumFunction(h)
<1> DEFINE S == DOMAIN f
           A == DOMAIN g
           C == DOMAIN h
           Sm(T) == SumFunctionOnSet(f, T)
           B == {T \in SUBSET A : Sm(T \cup C) # Sm(T) + Sm(C)}
<1>1. \A T \in SUBSET S : IsFiniteSet(T) /\ Sm(T) \in Int
  BY FS_Subset, PartialInt
<1>2. \A T \in SUBSET S : \A x \in T : Sm(T) = f[x] + Sm(T \ {x})
  <2> SUFFICES ASSUME NEW T \in SUBSET S, NEW x \in T PROVE Sm(T) = f[x] + Sm(T \ {x})
    OBVIOUS
  <2> QED
    BY <1>1, PartialSplit
<1>3. ASSUME B # {} PROVE FALSE
  <2>1. PICK T \in B : \A U \in B : U \subseteq T => U = T
    <3> HIDE DEF B
    <3>1. B \subseteq SUBSET A /\ IsFiniteSet(A) BY <1>1 DEF B
    <3> QED BY <1>3, <3>1, SmallestSubset
  <2>2. CASE T = {}
    <3>1. Sm({}) = 0
      BY SumPicked, FS_EmptySet
    <3>2. T \cup C = C /\ Sm(C) \in Int
      BY <1>1, <2>2
    <3> HIDE DEF Sm
    <3> QED
      BY <2>1, <2>2, <3>1, <3>2
  <2>3. CASE T # {}
    <3>1. PICK x \in T : TRUE BY <2>3
    <3> DEFINE U == T \ {x}
    <3>2. (T \cup C) \ {x} = U \cup C /\ x \in T \cup C /\ T \cup C \in SUBSET S
      BY <2>1, <3>1
    <3>3. Sm(T \cup C) = f[x] + Sm(U \cup C) /\ Sm(T) = f[x] + Sm(U)
      BY <1>2, <2>1, <3>1, <3>2
    <3>4. Sm(U \cup C) = Sm(U) + Sm(C)
      BY <2>1, <3>1
    <3>5. f[x] \in Int /\ Sm(U) \in Int /\ Sm(C) \in Int
      BY <1>1, <2>1, <3>1
    <3>6. Sm(T \cup C) # Sm(T) + Sm(C)
      BY <2>1
    <3> HIDE DEF Sm, U
    <3> QED
      BY <3>3, <3>4, <3>5, <3>6
  <2> QED BY <2>2, <2>3
<1>4. Sm(A \cup C) = Sm(A) + Sm(C)
  BY <1>3
<1>5. SumFunctionOnSet(g, A) = Sm(A) /\ SumFunctionOnSet(h, C) = Sm(C)
  BY <1>1, PartialSame
<1> QED
  BY <1>4, <1>5 DEF SumFunction

\* The same entries under other names.
LEMMA SumRenamed ==
  ASSUME NEW f, NEW g, NEW m, IsFiniteSet(DOMAIN f), IsFiniteSet(DOMAIN g),
         DOMAIN g = {m[x] : x \in DOMAIN f},
         \A x, y \in DOMAIN f : m[x] = m[y] => x = y,
         \A x \in DOMAIN f : f[x] \in Int /\ g[m[x]] = f[x]
  PROVE  SumFunction(g) = SumFunction(f)
<1> DEFINE S == DOMAIN f
           Im(T) == {m[x] : x \in T}
           B == {T \in SUBSET S : SumFunctionOnSet(g, Im(T)) # SumFunctionOnSet(f, T)}
<1>1. \A T \in SUBSET S : IsFiniteSet(T) /\ IsFiniteSet(Im(T))
  <2> SUFFICES ASSUME NEW T \in SUBSET S PROVE IsFiniteSet(T) /\ IsFiniteSet(Im(T))
    OBVIOUS
  <2>1. Im(T) \subseteq DOMAIN g
    OBVIOUS
  <2> QED
    BY <2>1, FS_Subset
<1>2. ASSUME B # {} PROVE FALSE
  <2>1. PICK T \in B : \A U \in B : U \subseteq T => U = T
    <3> HIDE DEF B
    <3>1. B \subseteq SUBSET S BY DEF B
    <3> QED BY <1>2, <3>1, SmallestSubset
  <2>2. CASE T = {}
    <3>1. Im(T) = {} BY <2>2
    <3>2. \A k : SumFunctionOnSet(k, {}) = 0 BY SumPicked, FS_EmptySet
    <3> QED BY <2>1, <2>2, <3>1, <3>2
  <2>3. CASE T # {}
    <3>1. PICK x \in T : TRUE BY <2>3
    <3> DEFINE U == T \ {x}
    <3>2. Im(T) \ {m[x]} = Im(U) /\ m[x] \in Im(T)
      BY <2>1, <3>1
    <3>3. \A z \in Im(T) : g[z] \in Int
      BY <2>1
    <3>4. SumFunctionOnSet(f, T) = f[x] + SumFunctionOnSet(f, U)
      BY <1>1, <2>1, <3>1, PartialSplit
    <3>5. SumFunctionOnSet(g, Im(T)) = g[m[x]] + SumFunctionOnSet(g, Im(T) \ {m[x]})
      <4>1. IsFiniteSet(Im(T))
        BY <1>1, <2>1
      <4> HIDE DEF Im
      <4> QED
        BY <3>2, <3>3, <4>1, PartialSplit
    <3>6. SumFunctionOnSet(g, Im(U)) = SumFunctionOnSet(f, U)
      BY <2>1, <3>1
    <3>7. g[m[x]] = f[x]
      BY <2>1, <3>1
    <3> QED
      BY <2>1, <3>2, <3>4, <3>5, <3>6, <3>7
  <2> QED BY <2>2, <2>3
<1>3. SumFunctionOnSet(g, Im(S)) = SumFunctionOnSet(f, S)
  <2> HIDE DEF B
  <2>1. S \notin B BY <1>2
  <2> QED BY <2>1 DEF B
<1>4. Im(S) = DOMAIN g
  OBVIOUS
<1> QED
  BY <1>3, <1>4 DEF SumFunction

\* Entries that are the sums of two others.
LEMMA SumPlus ==
  ASSUME NEW f, NEW g, NEW h, IsFiniteSet(DOMAIN h), DOMAIN f = DOMAIN h, DOMAIN g = DOMAIN h,
         \A x \in DOMAIN h : f[x] \in Int /\ g[x] \in Int /\ h[x] = f[x] + g[x]
  PROVE  SumFunction(h) = SumFunction(f) + SumFunction(g)
<1> DEFINE S == DOMAIN h
           B == {T \in SUBSET S : SumFunctionOnSet(h, T) # SumFunctionOnSet(f, T) + SumFunctionOnSet(g, T)}
<1>1. \A T \in SUBSET S : /\ IsFiniteSet(T) /\ SumFunctionOnSet(f, T) \in Int
                          /\ SumFunctionOnSet(g, T) \in Int
  BY FS_Subset, PartialInt
<1>2. ASSUME B # {} PROVE FALSE
  <2>1. PICK T \in B : \A U \in B : U \subseteq T => U = T
    <3> HIDE DEF B
    <3>1. B \subseteq SUBSET S BY DEF B
    <3> QED BY <1>2, <3>1, SmallestSubset
  <2>2. CASE T = {}
    <3>1. \A k : SumFunctionOnSet(k, {}) = 0 BY SumPicked, FS_EmptySet
    <3> QED BY <2>1, <2>2, <3>1
  <2>3. CASE T # {}
    <3>1. PICK x \in T : TRUE BY <2>3
    <3> DEFINE U == T \ {x}
    <3>2. SumFunctionOnSet(f, T) = f[x] + SumFunctionOnSet(f, U)
      BY <1>1, <2>1, <3>1, PartialSplit
    <3>3. SumFunctionOnSet(g, T) = g[x] + SumFunctionOnSet(g, U)
      BY <1>1, <2>1, <3>1, PartialSplit
    <3>4. SumFunctionOnSet(h, T) = h[x] + SumFunctionOnSet(h, U)
      BY <1>1, <2>1, <3>1, PartialSplit
    <3>5. SumFunctionOnSet(h, U) = SumFunctionOnSet(f, U) + SumFunctionOnSet(g, U)
      BY <2>1, <3>1
    <3>6. /\ h[x] = f[x] + g[x] /\ f[x] \in Int /\ g[x] \in Int
          /\ SumFunctionOnSet(f, U) \in Int /\ SumFunctionOnSet(g, U) \in Int
      BY <1>1, <2>1, <3>1
    <3>7. SumFunctionOnSet(h, T) # SumFunctionOnSet(f, T) + SumFunctionOnSet(g, T)
      BY <2>1
    <3> HIDE DEF U
    <3> QED BY <3>2, <3>3, <3>4, <3>5, <3>6, <3>7
  <2> QED BY <2>2, <2>3
<1>3. SumFunctionOnSet(h, S) = SumFunctionOnSet(f, S) + SumFunctionOnSet(g, S)
  <2> HIDE DEF B
  <2>1. S \notin B BY <1>2
  <2> QED BY <2>1 DEF B
<1> QED
  BY <1>3 DEF SumFunction

\* Nothing but zeros, and entries turned round.
LEMMA SumZero ==
  ASSUME NEW f, IsFiniteSet(DOMAIN f), \A x \in DOMAIN f : f[x] = 0
  PROVE  SumFunction(f) = 0
<1>1. SumFunction(f) = SumFunction(f) + SumFunction(f)
  <2>1. \A x \in DOMAIN f : f[x] \in Int /\ f[x] \in Int /\ f[x] = f[x] + f[x]
    OBVIOUS
  <2> QED
    BY <2>1, SumPlus
<1> DEFINE n == SumFunction(f)
<1>2. n \in Int /\ n = n + n
  BY <1>1, SumInt
<1> HIDE DEF n
<1>3. n = 0
  BY <1>2
<1> QED
  BY <1>3 DEF n

\* Entries negated.
LEMMA SumNegated ==
  ASSUME NEW f, NEW g, IsFiniteSet(DOMAIN f), DOMAIN g = DOMAIN f,
         \A x \in DOMAIN f : f[x] \in Int /\ g[x] = 0 - f[x]
  PROVE  SumFunction(g) = 0 - SumFunction(f)
<1> DEFINE z == [x \in DOMAIN f |-> 0]
<1>1. /\ DOMAIN z = DOMAIN f /\ \A x \in DOMAIN z : z[x] = 0
      /\ \A x \in DOMAIN f : f[x] \in Int /\ g[x] \in Int /\ z[x] = f[x] + g[x]
  OBVIOUS
<1> HIDE DEF z
<1>4. SumFunction(z) = 0
  BY <1>1, SumZero
<1>2. SumFunction(z) = SumFunction(f) + SumFunction(g)
  BY <1>1, SumPlus
<1>3. SumFunction(f) \in Int /\ SumFunction(g) \in Int
  BY <1>1, SumInt
<1> QED
  BY <1>2, <1>3, <1>4

\* Only the entries that are not zero count.
LEMMA SumSupport ==
  ASSUME NEW f, NEW g, IsFiniteSet(DOMAIN f), DOMAIN g \subseteq DOMAIN f,
         \A x \in DOMAIN f : f[x] \in Int, \A x \in DOMAIN g : g[x] = f[x],
         \A x \in DOMAIN f \ DOMAIN g : f[x] = 0
  PROVE  SumFunction(f) = SumFunction(g)
<1> DEFINE z == [x \in DOMAIN f \ DOMAIN g |-> f[x]]
<1>1. SumFunction(z) = 0
  <2>1. IsFiniteSet(DOMAIN z) /\ \A x \in DOMAIN z : z[x] = 0
    BY FS_Subset
  <2> HIDE DEF z
  <2> QED
    BY <2>1, SumZero
<1>2. SumFunction(f) = SumFunction(g) + SumFunction(z)
  <2>1. /\ DOMAIN f = DOMAIN g \cup DOMAIN z /\ DOMAIN g \cap DOMAIN z = {}
        /\ \A x \in DOMAIN z : z[x] = f[x]
    OBVIOUS
  <2> HIDE DEF z
  <2> QED
    BY <2>1, SumParts
<1>3. IsFiniteSet(DOMAIN g) /\ SumFunction(g) \in Int
  BY FS_Subset, SumInt
<1> HIDE DEF z
<1> QED
  BY <1>1, <1>2, <1>3

\* The entries of f with key i.
Fibre(f, k, i) == [x \in {y \in DOMAIN f : k[y] = i} |-> f[x]]

\* Entries counted group by group.
LEMMA SumFibres ==
  ASSUME NEW f, NEW k, NEW h, IsFiniteSet(DOMAIN f), IsFiniteSet(DOMAIN h),
         \A x \in DOMAIN f : f[x] \in Int /\ k[x] \in DOMAIN h,
         \A i \in DOMAIN h : h[i] = SumFunction(Fibre(f, k, i))
  PROVE  SumFunction(f) = SumFunction(h)
<1> DEFINE D == DOMAIN f
           I == DOMAIN h
           Of(J) == {x \in D : k[x] \in J}
           One(i) == {y \in D : k[y] = i}
           Sm(T) == SumFunctionOnSet(f, T)
           B == {J \in SUBSET I : Sm(Of(J)) # SumFunctionOnSet(h, J)}
<1>1. \A T \in SUBSET D : IsFiniteSet(T) /\ Sm(T) \in Int /\ Sm(T) = SumFunction([x \in T |-> f[x]])
  <2> SUFFICES ASSUME NEW T \in SUBSET D
               PROVE  IsFiniteSet(T) /\ Sm(T) \in Int /\ Sm(T) = SumFunction([x \in T |-> f[x]])
    OBVIOUS
  <2>1. IsFiniteSet(T) /\ Sm(T) \in Int
    BY FS_Subset, PartialInt
  <2> DEFINE g == [x \in T |-> f[x]]
  <2>2. DOMAIN g = T /\ \A x \in T : f[x] = g[x]
    OBVIOUS
  <2> HIDE DEF g
  <2>3. SumFunctionOnSet(g, T) = Sm(T)
    BY <2>1, <2>2, PartialSame
  <2>4. SumFunction(g) = Sm(T)
    BY <2>2, <2>3 DEF SumFunction
  <2> QED
    BY <2>1, <2>4 DEF g
<1>2. \A i \in I : One(i) \in SUBSET D /\ h[i] = Sm(One(i)) /\ h[i] \in Int
  <2> SUFFICES ASSUME NEW i \in I PROVE One(i) \in SUBSET D /\ h[i] = Sm(One(i)) /\ h[i] \in Int
    OBVIOUS
  <2>1. One(i) \in SUBSET D
    OBVIOUS
  <2>2. h[i] = SumFunction([x \in One(i) |-> f[x]])
    BY DEF Fibre
  <2> HIDE DEF One, Sm
  <2> QED
    BY <1>1, <2>1, <2>2
<1>3. \A J \in SUBSET I : \A i \in J : Sm(Of(J)) = Sm(Of(J \ {i})) + Sm(One(i))
  <2> SUFFICES ASSUME NEW J \in SUBSET I, NEW i \in J
               PROVE  Sm(Of(J)) = Sm(Of(J \ {i})) + Sm(One(i))
    OBVIOUS
  <2>1. /\ Of(J) = Of(J \ {i}) \cup One(i) /\ Of(J \ {i}) \cap One(i) = {}
        /\ Of(J) \in SUBSET D /\ Of(J \ {i}) \in SUBSET D /\ One(i) \in SUBSET D
    OBVIOUS
  <2> DEFINE u == [x \in Of(J) |-> f[x]]
             v == [x \in Of(J \ {i}) |-> f[x]]
             w == [x \in One(i) |-> f[x]]
  <2>2. /\ DOMAIN u = Of(J) /\ DOMAIN v = Of(J \ {i}) /\ DOMAIN w = One(i)
        /\ \A x \in DOMAIN u : u[x] \in Int
        /\ \A x \in DOMAIN v : v[x] = u[x]
        /\ \A x \in DOMAIN w : w[x] = u[x]
    OBVIOUS
  <2>3. SumFunction(u) = Sm(Of(J)) /\ SumFunction(v) = Sm(Of(J \ {i})) /\ SumFunction(w) = Sm(One(i))
    <3> HIDE DEF Of, One, Sm
    <3> QED
      BY <1>1, <2>1
  <2>4. IsFiniteSet(DOMAIN u)
    BY <1>1, <2>1, <2>2
  <2> HIDE DEF u, v, w, Of, One, Sm
  <2>6. DOMAIN u = DOMAIN v \cup DOMAIN w /\ DOMAIN v \cap DOMAIN w = {}
    BY <2>1, <2>2
  <2>5. SumFunction(u) = SumFunction(v) + SumFunction(w)
    BY <2>2, <2>4, <2>6, SumParts
  <2> QED
    BY <2>3, <2>5
<1>4. ASSUME B # {} PROVE FALSE
  <2>1. PICK J \in B : \A U \in B : U \subseteq J => U = J
    <3> HIDE DEF B
    <3>1. B \subseteq SUBSET I BY DEF B
    <3> QED BY <1>4, <3>1, SmallestSubset
  <2>2. CASE J = {}
    <3>1. Of(J) = {} BY <2>2
    <3>2. \A g : SumFunctionOnSet(g, {}) = 0 BY SumPicked, FS_EmptySet
    <3> QED BY <2>1, <2>2, <3>1, <3>2
  <2>3. CASE J # {}
    <3>1. PICK i \in J : TRUE BY <2>3
    <3> DEFINE U == J \ {i}
    <3>2. Sm(Of(J)) = Sm(Of(U)) + h[i]
      <4> HIDE DEF Sm, Of, One
      <4> QED BY <1>2, <1>3, <2>1, <3>1
    <3>3. SumFunctionOnSet(h, J) = h[i] + SumFunctionOnSet(h, U)
      <4>1. IsFiniteSet(J) /\ \A j \in J : h[j] \in Int
        BY <1>2, <2>1, FS_Subset
      <4> QED BY <3>1, <4>1, PartialSplit
    <3>4. Sm(Of(U)) = SumFunctionOnSet(h, U)
      BY <2>1, <3>1
    <3>5. Sm(Of(J)) # SumFunctionOnSet(h, J)
      BY <2>1
    <3>6. h[i] \in Int /\ Sm(Of(U)) \in Int
      <4>1. Of(U) \in SUBSET D OBVIOUS
      <4> HIDE DEF Sm, Of, U
      <4> QED BY <1>1, <1>2, <2>1, <3>1, <4>1
    <3> HIDE DEF U, Sm, Of
    <3> QED BY <3>2, <3>3, <3>4, <3>5, <3>6
  <2> QED BY <2>2, <2>3
<1>5. Sm(Of(I)) = SumFunctionOnSet(h, I)
  <2> HIDE DEF B
  <2>1. I \notin B BY <1>4
  <2> QED BY <2>1 DEF B
<1>6. Of(I) = D
  OBVIOUS
<1> QED
  BY <1>5, <1>6 DEF SumFunction

\* Entries counted under a key of their own, where the other keys count nothing.
LEMMA SumKeyed ==
  ASSUME NEW f, NEW k, NEW h, IsFiniteSet(DOMAIN h),
         \A x \in DOMAIN f : f[x] \in Int /\ k[x] \in DOMAIN h /\ h[k[x]] = f[x],
         \A x, y \in DOMAIN f : k[x] = k[y] => x = y,
         \A i \in DOMAIN h : i \notin {k[x] : x \in DOMAIN f} => h[i] = 0
  PROVE  IsFiniteSet(DOMAIN f) /\ SumFunction(f) = SumFunction(h)
<1> DEFINE S == DOMAIN f
           K == {k[x] : x \in S}
           e == [x \in S |-> k[x]]
           g == [i \in K |-> h[i]]
<1>1. IsFiniteSet(S)
  <2>1. e \in [S -> DOMAIN h] /\ \A x, y \in S : e[x] = e[y] => x = y
    OBVIOUS
  <2> HIDE DEF e, S
  <2>2. e \in Injection(S, DOMAIN h)
    BY <2>1 DEF Injection, IsInjective
  <2> QED
    BY <2>2, FS_Injection
<1>2. K \subseteq DOMAIN h /\ IsFiniteSet(K)
  <2>1. K \subseteq DOMAIN h
    OBVIOUS
  <2> QED
    BY <2>1, FS_Subset
<1>3. DOMAIN g = K /\ \A i \in K : g[i] = h[i]
  OBVIOUS
<1>4. \A x \in S : f[x] \in Int /\ k[x] \in K /\ g[k[x]] = f[x]
  OBVIOUS
<1>5. \A i \in DOMAIN h : h[i] \in Int
  OBVIOUS
<1> HIDE DEF g
<1>6. SumFunction(g) = SumFunction(f)
  BY <1>1, <1>2, <1>3, <1>4, SumRenamed
<1>7. SumFunction(h) = SumFunction(g)
  BY <1>2, <1>3, <1>5, SumSupport
<1> QED
  BY <1>1, <1>6, <1>7

\* One entry.
LEMMA SumOne ==
  ASSUME NEW f, NEW x, DOMAIN f = {x}, f[x] \in Int
  PROVE  SumFunction(f) = f[x]
<1> DEFINE e == [y \in {} |-> 0]
<1>1. DOMAIN e = {} /\ IsFiniteSet(DOMAIN e)
  BY FS_EmptySet
<1> HIDE DEF e
<1>2. SumFunction(e) = 0
  BY <1>1, SumEmpty
<1>3. SumFunction(f) = SumFunction(e) + f[x]
  BY <1>1, SumWith
<1> QED
  BY <1>2, <1>3

=============================================================================
