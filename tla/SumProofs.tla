----------------------------- MODULE SumProofs -----------------------------
(***************************************************************************)
(* Lemmas about SumFunctionOnSet, with which Accounts, Refund and the      *)
(* proofs about a channel's quota add up the rows of a table.  It is a     *)
(* recursive function over the subsets of a set; what it computes is shown *)
(* here by the smallest counterexample, which a finite set of sets has     *)
(* (FiniteSetTheorems and WellFoundedInduction, in first-order form).      *)
(***************************************************************************)
EXTENDS Integers, Functions, FiniteSetTheorems, TLAPS

-----------------------------------------------------------------------------
(* Smallest counterexamples *)

\* A set of numbers has a least one.
LEMMA LeastNumber ==
  ASSUME NEW C, C \subseteq Nat, C # {}
  PROVE  \E n \in C : \A m \in C : n <= m
<1> DEFINE R == OpToRel(<, Nat)
<1>1. IsWellFoundedOn(R, Nat)  BY NatLessThanWellFounded
<1>2. \A m, n \in Nat : m < n => <<m, n>> \in R  BY DEF OpToRel
<1> HIDE DEF R
<1>3. PICK n \in C : \A m \in C : ~ (<<m, n>> \in R)  BY <1>1, WFMin
<1>4. ASSUME NEW m \in C  PROVE n <= m
  <2>1. m \in Nat /\ n \in Nat  OBVIOUS
  <2>2. ~(m < n)  BY <1>2, <1>3, <2>1
  <2> QED BY <2>1, <2>2
<1> QED BY <1>4

\* Among subsets of a finite set there is one that contains no other.
LEMMA SmallestSet ==
  ASSUME NEW W, IsFiniteSet(W), NEW B, B \subseteq SUBSET W, B # {}
  PROVE  \E U \in B : /\ IsFiniteSet(U)
                      /\ \A x \in U : U \ {x} \notin B
                      /\ \A V \in SUBSET U : V # U => V \notin B
<1> DEFINE C == {Cardinality(U) : U \in B}
<1>1. \A U \in B : IsFiniteSet(U) /\ Cardinality(U) \in Nat  BY FS_Subset, FS_CardinalityType
<1>2. C \subseteq Nat /\ C # {}  BY <1>1
<1>3. PICK n \in C : \A m \in C : n <= m  BY <1>2, LeastNumber
<1>4. PICK U \in B : Cardinality(U) = n  BY <1>3
<1>5. \A V \in B : Cardinality(U) <= Cardinality(V)  BY <1>3, <1>4
<1>6. ASSUME NEW V \in SUBSET U, V # U, V \in B  PROVE FALSE
  <2>1. Cardinality(V) <= Cardinality(U) /\ Cardinality(V) # Cardinality(U)
    BY <1>1, <1>6, FS_Subset
  <2> HIDE DEF C
  <2> QED BY <1>1, <1>5, <1>6, <2>1
<1> QED BY <1>1, <1>6

-----------------------------------------------------------------------------
(* The operator is the recursive function it is meant to be. *)

Chosen(U) == CHOOSE y \in U : TRUE
SumStep(f, g, U) == IF U = {} THEN 0 ELSE f[Chosen(U)] + g[U \ {Chosen(U)}]
Solves(f, S, g) == g = [U \in SUBSET S |-> SumStep(f, g, U)]

LEMMA SumIsSolution ==
  ASSUME NEW f, NEW S
  PROVE  SumFunctionOnSet(f, S) = (CHOOSE g : Solves(f, S, g))[S]
BY DEF SumFunctionOnSet, FoldFunctionOnSet, MapThenFoldSet, Solves, SumStep, Chosen

\* Two solutions agree on the sets both are defined on.
LEMMA SolutionsAgree ==
  ASSUME NEW f, NEW S, NEW T, NEW g, NEW h, Solves(f, S, g), Solves(f, T, h),
         NEW W, IsFiniteSet(W), W \subseteq S, W \subseteq T
  PROVE  g[W] = h[W]
<1> SUFFICES ASSUME g[W] # h[W]  PROVE FALSE
  OBVIOUS
<1> DEFINE B == {U \in SUBSET W : g[U] # h[U]}
<1>1. B # {} /\ B \subseteq SUBSET W  OBVIOUS
<1>2. PICK U \in B : \A x \in U : U \ {x} \notin B
  <2> HIDE DEF B
  <2> QED BY <1>1, SmallestSet
<1>3. g[U] = SumStep(f, g, U) /\ h[U] = SumStep(f, h, U)  BY DEF Solves
<1>4. U # {}  BY <1>3 DEF SumStep
<1>5. Chosen(U) \in U  BY <1>4 DEF Chosen
<1>6. g[U \ {Chosen(U)}] = h[U \ {Chosen(U)}]  BY <1>2, <1>5
<1> QED BY <1>3, <1>4, <1>6 DEF SumStep

LEMMA SolutionExists ==
  ASSUME NEW f, NEW S, IsFiniteSet(S)
  PROVE  \E g : Solves(f, S, g)
<1> SUFFICES ASSUME ~ \E g : Solves(f, S, g)  PROVE FALSE
  OBVIOUS
<1> DEFINE B == {U \in SUBSET S : ~ \E g : Solves(f, U, g)}
<1>1. B # {} /\ B \subseteq SUBSET S  OBVIOUS
<1>2. PICK U \in B : \A V \in SUBSET U : V # U => V \notin B
  <2> HIDE DEF B
  <2> QED BY <1>1, SmallestSet
<1> DEFINE Of(V) == CHOOSE g : Solves(f, V, g)
           Rest(V) == V \ {Chosen(V)}
           Value(V) == IF V = {} THEN 0 ELSE f[Chosen(V)] + Of(Rest(V))[Rest(V)]
           G == [V \in SUBSET U |-> Value(V)]
<1>3. \A V \in SUBSET U : V # U => Solves(f, V, Of(V))  BY <1>2
<1>4. \A V \in SUBSET U : V # {} => Rest(V) \in SUBSET U /\ Rest(V) # U  BY DEF Chosen
<1>5. \A V \in SUBSET U : V # U => Of(V)[V] = Value(V)
  <2> SUFFICES ASSUME NEW V \in SUBSET U, V # U  PROVE Of(V)[V] = Value(V)
    OBVIOUS
  <2>1. Solves(f, V, Of(V))  BY <1>3
  <2> HIDE DEF Of
  <2>2. Of(V)[V] = SumStep(f, Of(V), V)  BY <2>1 DEF Solves
  <2>3. CASE V = {}  BY <2>2, <2>3 DEF SumStep
  <2>4. CASE V # {}
    <3>1. Of(V)[V] = f[Chosen(V)] + Of(V)[Rest(V)]  BY <2>2, <2>4 DEF SumStep
    <3>2. Rest(V) \subseteq V /\ IsFiniteSet(Rest(V))  BY FS_Subset
    <3> HIDE DEF Rest
    <3>3. Solves(f, Rest(V), Of(Rest(V)))  BY <1>3, <1>4, <2>4
    <3>4. Of(V)[Rest(V)] = Of(Rest(V))[Rest(V)]  BY <2>1, <3>2, <3>3, SolutionsAgree
    <3> QED BY <2>4, <3>1, <3>4
  <2> QED BY <2>3, <2>4
<1>6. \A V \in SUBSET U : V # {} => G[Rest(V)] = Of(Rest(V))[Rest(V)]
  <2> HIDE DEF Of, Rest, Value
  <2> QED BY <1>4, <1>5
<1>7. \A V \in SUBSET U : Value(V) = SumStep(f, G, V)
  <2> SUFFICES ASSUME NEW V \in SUBSET U  PROVE Value(V) = SumStep(f, G, V)
    OBVIOUS
  <2>1. CASE V = {}  BY <2>1 DEF SumStep
  <2>2. CASE V # {}
    <3>1. G[Rest(V)] = Of(Rest(V))[Rest(V)]  BY <1>6, <2>2
    <3> HIDE DEF G, Of
    <3> QED BY <2>2, <3>1 DEF SumStep
  <2> QED BY <2>1, <2>2
<1>8. [V \in SUBSET U |-> Value(V)] = [V \in SUBSET U |-> SumStep(f, G, V)]
  <2> HIDE DEF Value, G
  <2> QED BY <1>7
<1>9. Solves(f, U, G)
  <2>1. G = [V \in SUBSET U |-> SumStep(f, G, V)]  BY <1>8
  <2> HIDE DEF G
  <2> QED BY <2>1 DEF Solves
<1> QED BY <1>9

\* The sum over a set: zero, or an element of it and the sum over the rest.
LEMMA SumEquation ==
  ASSUME NEW f, NEW S, IsFiniteSet(S)
  PROVE  SumFunctionOnSet(f, S) =
           IF S = {} THEN 0 ELSE f[Chosen(S)] + SumFunctionOnSet(f, S \ {Chosen(S)})
<1> DEFINE Of(V) == CHOOSE g : Solves(f, V, g)
           T == S \ {Chosen(S)}
<1>1. T \subseteq S /\ IsFiniteSet(T)  BY FS_Subset
<1>2. SumFunctionOnSet(f, S) = Of(S)[S] /\ SumFunctionOnSet(f, T) = Of(T)[T]
  <2> HIDE DEF T
  <2> QED BY SumIsSolution
<1>3. Solves(f, S, Of(S)) /\ Solves(f, T, Of(T))
  <2> HIDE DEF T
  <2> QED BY <1>1, SolutionExists
<1> HIDE DEF Of
<1>4. Of(S)[T] = Of(T)[T]
  <2> HIDE DEF T
  <2> QED BY <1>1, <1>3, SolutionsAgree
<1>5. Of(S)[S] = SumStep(f, Of(S), S)  BY <1>3 DEF Solves
<1> QED BY <1>2, <1>4, <1>5 DEF SumStep

-----------------------------------------------------------------------------
(* What the models' proofs use *)

LEMMA SumEmpty ==
  ASSUME NEW f
  PROVE  SumFunctionOnSet(f, {}) = 0
BY SumEquation, FS_EmptySet

\* A sum of integers is one.
LEMMA SumInt ==
  ASSUME NEW f, NEW S, IsFiniteSet(S), \A x \in S : f[x] \in Int
  PROVE  SumFunctionOnSet(f, S) \in Int
<1> SUFFICES ASSUME SumFunctionOnSet(f, S) \notin Int  PROVE FALSE
  OBVIOUS
<1> DEFINE B == {U \in SUBSET S : SumFunctionOnSet(f, U) \notin Int}
<1>1. B # {} /\ B \subseteq SUBSET S  OBVIOUS
<1>2. PICK U \in B : IsFiniteSet(U) /\ \A x \in U : U \ {x} \notin B
  <2> HIDE DEF B
  <2> QED BY <1>1, SmallestSet
<1>3. CASE U = {}  BY <1>3, SumEmpty
<1>4. CASE U # {}
  <2>1. Chosen(U) \in U  BY <1>4 DEF Chosen
  <2>2. SumFunctionOnSet(f, U \ {Chosen(U)}) \in Int  BY <1>2, <2>1
  <2>3. f[Chosen(U)] \in Int  BY <2>1
  <2> QED BY <1>2, <1>4, <2>2, <2>3, SumEquation
<1> QED BY <1>3, <1>4

\* Any element can be taken out of a sum of integers.
LEMMA SumTakeOut ==
  ASSUME NEW f, NEW S, IsFiniteSet(S), \A x \in S : f[x] \in Int, NEW x \in S
  PROVE  SumFunctionOnSet(f, S) = f[x] + SumFunctionOnSet(f, S \ {x})
<1> DEFINE Sum(U) == SumFunctionOnSet(f, U)
           Fine(U) == \A y \in U : Sum(U) = f[y] + Sum(U \ {y})
           B == {U \in SUBSET S : ~ Fine(U)}
<1> SUFFICES ASSUME S \in B  PROVE FALSE
  OBVIOUS
<1>1. B # {} /\ B \subseteq SUBSET S  OBVIOUS
<1>2. PICK U \in B : IsFiniteSet(U) /\ \A y \in U : U \ {y} \notin B
  <2> HIDE DEF B
  <2> QED BY <1>1, SmallestSet
<1>3. PICK y \in U : Sum(U) # f[y] + Sum(U \ {y})  OBVIOUS
<1> DEFINE c == Chosen(U)
<1>4. c \in U  BY <1>3 DEF Chosen
<1>5. Sum(U) = f[c] + Sum(U \ {c})  BY <1>2, <1>4, SumEquation
<1>6. CASE c = y  BY <1>3, <1>5, <1>6
<1>7. CASE c # y
  <2>1. Fine(U \ {c}) /\ Fine(U \ {y})  BY <1>2, <1>3, <1>4
  <2> DEFINE rest == (U \ {c}) \ {y}
  <2>2. (U \ {y}) \ {c} = rest  OBVIOUS
  <2>3. y \in U \ {c} /\ c \in U \ {y}  BY <1>3, <1>4, <1>7
  <2>4. f[c] \in Int /\ f[y] \in Int  BY <1>3, <1>4
  <2>5. IsFiniteSet(rest) /\ rest \subseteq S  BY <1>2, FS_Subset
  <2> HIDE DEF rest, c
  <2>6. Sum(rest) \in Int  BY <2>5, SumInt
  <2>7. Sum(U \ {c}) = f[y] + Sum((U \ {c}) \ {y})  BY <2>1, <2>3
  <2>8. Sum(U \ {y}) = f[c] + Sum((U \ {y}) \ {c})  BY <2>1, <2>3
  <2>9. Sum(U \ {c}) = f[y] + Sum(rest)  BY <2>7 DEF rest
  <2>10. Sum(U \ {y}) = f[c] + Sum(rest)  BY <2>2, <2>8
  <2> HIDE DEF Sum
  <2> QED BY <1>3, <1>5, <2>4, <2>6, <2>9, <2>10
<1> QED BY <1>6, <1>7

\* The sum looks at the elements of the set alone.
LEMMA SumSame ==
  ASSUME NEW f, NEW g, NEW S, IsFiniteSet(S), \A x \in S : f[x] = g[x]
  PROVE  SumFunctionOnSet(f, S) = SumFunctionOnSet(g, S)
<1> SUFFICES ASSUME SumFunctionOnSet(f, S) # SumFunctionOnSet(g, S)  PROVE FALSE
  OBVIOUS
<1> DEFINE B == {U \in SUBSET S : SumFunctionOnSet(f, U) # SumFunctionOnSet(g, U)}
<1>1. B # {} /\ B \subseteq SUBSET S  OBVIOUS
<1>2. PICK U \in B : IsFiniteSet(U) /\ \A x \in U : U \ {x} \notin B
  <2> HIDE DEF B
  <2> QED BY <1>1, SmallestSet
<1>3. CASE U = {}  BY <1>3, SumEmpty
<1>4. CASE U # {}
  <2>1. Chosen(U) \in U  BY <1>4 DEF Chosen
  <2>2. SumFunctionOnSet(f, U \ {Chosen(U)}) = SumFunctionOnSet(g, U \ {Chosen(U)})  BY <1>2, <2>1
  <2>3. f[Chosen(U)] = g[Chosen(U)]  BY <2>1
  <2> QED BY <1>2, <1>4, <2>2, <2>3, SumEquation
<1> QED BY <1>3, <1>4

LEMMA SumNat ==
  ASSUME NEW f, NEW S, IsFiniteSet(S), \A x \in S : f[x] \in Nat
  PROVE  SumFunctionOnSet(f, S) \in Nat
<1> SUFFICES ASSUME SumFunctionOnSet(f, S) \notin Nat  PROVE FALSE
  OBVIOUS
<1> DEFINE B == {U \in SUBSET S : SumFunctionOnSet(f, U) \notin Nat}
<1>1. B # {} /\ B \subseteq SUBSET S  OBVIOUS
<1>2. PICK U \in B : IsFiniteSet(U) /\ \A x \in U : U \ {x} \notin B
  <2> HIDE DEF B
  <2> QED BY <1>1, SmallestSet
<1>3. CASE U = {}  BY <1>3, SumEmpty
<1>4. CASE U # {}
  <2>1. Chosen(U) \in U  BY <1>4 DEF Chosen
  <2>2. SumFunctionOnSet(f, U \ {Chosen(U)}) \in Nat  BY <1>2, <2>1
  <2>3. f[Chosen(U)] \in Nat  BY <2>1
  <2> QED BY <1>2, <1>4, <2>2, <2>3, SumEquation
<1> QED BY <1>3, <1>4

\* A sum of zeros is zero.
LEMMA SumZero ==
  ASSUME NEW f, NEW S, IsFiniteSet(S), \A x \in S : f[x] = 0
  PROVE  SumFunctionOnSet(f, S) = 0
<1> SUFFICES ASSUME SumFunctionOnSet(f, S) # 0  PROVE FALSE
  OBVIOUS
<1> DEFINE B == {U \in SUBSET S : SumFunctionOnSet(f, U) # 0}
<1>1. B # {} /\ B \subseteq SUBSET S  OBVIOUS
<1>2. PICK U \in B : IsFiniteSet(U) /\ \A x \in U : U \ {x} \notin B
  <2> HIDE DEF B
  <2> QED BY <1>1, SmallestSet
<1>3. CASE U = {}  BY <1>3, SumEmpty
<1>4. CASE U # {}
  <2>1. Chosen(U) \in U  BY <1>4 DEF Chosen
  <2>2. SumFunctionOnSet(f, U \ {Chosen(U)}) = 0  BY <1>2, <2>1
  <2>3. f[Chosen(U)] = 0  BY <2>1
  <2> QED BY <1>2, <1>4, <2>2, <2>3, SumEquation
<1> QED BY <1>3, <1>4

\* What x contributes to the sum over S.
Part(f, S, x) == IF x \in S THEN f[x] ELSE 0

\* All the numbers over S are integers; apart from x, S and T have the same ones.
Integral(f, S) == \A y \in S : f[y] \in Int
Alike(f, S, g, T, x) == S \ {x} = T \ {x} /\ \A y \in S \ {x} : f[y] = g[y]

\* When x alone changes, or joins or leaves the set, the sum changes by what x
\* contributes.
LEMMA SumUpdate ==
  ASSUME NEW U, IsFiniteSet(U), NEW S \in SUBSET U, NEW T \in SUBSET U, NEW f, NEW g, NEW x,
         Integral(f, S), Integral(g, T), Alike(f, S, g, T, x)
  PROVE  /\ SumFunctionOnSet(f, S) \in Int
         /\ SumFunctionOnSet(g, T) = SumFunctionOnSet(f, S) - Part(f, S, x) + Part(g, T, x)
<1>0. /\ \A y \in S : f[y] \in Int
      /\ \A y \in T : g[y] \in Int
      /\ S \ {x} = T \ {x}
      /\ \A y \in S \ {x} : f[y] = g[y]
  BY DEF Integral, Alike
<1>1. IsFiniteSet(S) /\ IsFiniteSet(T) /\ IsFiniteSet(S \ {x})
  BY FS_Subset
<1>2. PICK n \in Int : n = SumFunctionOnSet(f, S \ {x})
  BY <1>0, <1>1, SumInt
<1>3. n = SumFunctionOnSet(g, T \ {x})
  BY <1>0, <1>1, <1>2, SumSame
<1>4. SumFunctionOnSet(f, S) = n + Part(f, S, x) /\ Part(f, S, x) \in Int
  <2>1. CASE x \in S
    BY <1>0, <1>1, <1>2, <2>1, SumTakeOut DEF Part
  <2>2. CASE x \notin S
    <3>1. S \ {x} = S
      BY <2>2
    <3>2. SumFunctionOnSet(f, S) = n
      BY <1>2, <3>1, Zenon
    <3>3. Part(f, S, x) = 0
      BY <2>2 DEF Part
    <3>4. QED
      BY <1>2, <3>2, <3>3
  <2>3. QED
    BY <2>1, <2>2
<1>5. SumFunctionOnSet(g, T) = n + Part(g, T, x) /\ Part(g, T, x) \in Int
  <2>1. CASE x \in T
    BY <1>0, <1>1, <1>3, <2>1, SumTakeOut DEF Part
  <2>2. CASE x \notin T
    <3>1. T \ {x} = T
      BY <2>2
    <3>2. SumFunctionOnSet(g, T) = n
      BY <1>3, <3>1, Zenon
    <3>3. Part(g, T, x) = 0
      BY <2>2 DEF Part
    <3>4. QED
      BY <1>2, <3>2, <3>3
  <2>3. QED
    BY <2>1, <2>2
<1>6. QED
  BY <1>4, <1>5

\* A sum of numbers is no less than any of them.
LEMMA SumAtLeast ==
  ASSUME NEW f, NEW S, IsFiniteSet(S), \A y \in S : f[y] \in Nat, NEW x \in S
  PROVE  SumFunctionOnSet(f, S) \in Nat /\ SumFunctionOnSet(f, S) >= f[x]
<1>1. IsFiniteSet(S \ {x}) /\ \A y \in S : f[y] \in Int
  BY FS_Subset
<1>2. SumFunctionOnSet(f, S \ {x}) \in Nat
  BY <1>1, SumNat
<1>3. SumFunctionOnSet(f, S) = f[x] + SumFunctionOnSet(f, S \ {x})
  BY <1>1, SumTakeOut
<1>4. QED
  BY <1>2, <1>3

\* A sum over fewer of the same numbers is no greater.
LEMMA SumFewer ==
  ASSUME NEW f, NEW T, IsFiniteSet(T), \A y \in T : f[y] \in Nat, NEW S \in SUBSET T
  PROVE  SumFunctionOnSet(f, S) <= SumFunctionOnSet(f, T)
<1> SUFFICES ASSUME ~(SumFunctionOnSet(f, S) <= SumFunctionOnSet(f, T))  PROVE FALSE
  OBVIOUS
<1> DEFINE B == {U \in SUBSET T : S \subseteq U /\ ~(SumFunctionOnSet(f, S) <= SumFunctionOnSet(f, U))}
<1>1. T \in B
  OBVIOUS
<1>2. PICK U \in B : IsFiniteSet(U) /\ \A x \in U : U \ {x} \notin B
  <2> HIDE DEF B
  <2>1. B \subseteq SUBSET T /\ B # {}
    BY <1>1 DEF B
  <2> QED
    BY <2>1, SmallestSet
<1>3. SumFunctionOnSet(f, S) \in Nat /\ SumFunctionOnSet(f, U) \in Nat
  <2>1. IsFiniteSet(S) /\ (\A y \in S : f[y] \in Nat) /\ \A y \in U : f[y] \in Nat
    BY FS_Subset
  <2> QED
    BY <1>2, <2>1, SumNat
<1>4. PICK x \in U : x \notin S
  BY <1>3
<1>5. SumFunctionOnSet(f, U) = f[x] + SumFunctionOnSet(f, U \ {x})
  <2>1. \A y \in U : f[y] \in Int
    OBVIOUS
  <2> QED
    BY <1>2, <1>4, <2>1, SumTakeOut
<1>6. SumFunctionOnSet(f, U \ {x}) \in Nat /\ f[x] \in Nat
  <2>1. IsFiniteSet(U \ {x}) /\ \A y \in U \ {x} : f[y] \in Nat
    BY <1>2, FS_Subset
  <2> QED
    BY <1>4, <2>1, SumNat
<1>7. SumFunctionOnSet(f, S) <= SumFunctionOnSet(f, U \ {x})
  <2>1. U \ {x} \in SUBSET T /\ S \subseteq U \ {x} /\ U \ {x} \notin B
    BY <1>2, <1>4
  <2> QED
    BY <2>1
<1> QED
  BY <1>3, <1>5, <1>6, <1>7
=============================================================================
