------------------------------ MODULE SumProofs ------------------------------
(***************************************************************************)
(* Sums of the community modules, which are folds: the lemmas say what a   *)
(* sum is, whatever the order in which the fold goes through its set.      *)
(***************************************************************************)
EXTENDS FiniteSetsExt, FiniteSetTheorems, TLAPS

-----------------------------------------------------------------------------
(* Induction over the subsets of a finite set *)

\* Among some subsets of a finite set there is a smallest.
LEMMA SmallestSubset ==
    ASSUME NEW S, IsFiniteSet(S), NEW B \in SUBSET SUBSET S, B # {}
    PROVE  \E T \in B : \A U \in B : U \subseteq T => U = T
<1> DEFINE R == StrictSubsetOrdering(S)
<1>1. IsWellFoundedOn(R, SUBSET S)
  BY FS_StrictSubsetOrderingWellFounded, FS_FiniteSubsetsOfFinite
<1>2. PICK T \in B : \A U \in B : ~(<<U, T>> \in R)
  <2> HIDE DEF R
  <2> QED BY <1>1, WFMin
<1>3. ASSUME NEW U \in B, U \subseteq T PROVE U = T
  BY <1>2, <1>3 DEF StrictSubsetOrdering
<1> QED BY <1>3

LEMMA SubsetInduction ==
    ASSUME NEW S, IsFiniteSet(S), NEW Good,
           \A T \in SUBSET S : (\A U \in SUBSET T : U # T => U \in Good) => T \in Good
    PROVE  SUBSET S \subseteq Good
<1> SUFFICES ASSUME ~(SUBSET S \subseteq Good) PROVE FALSE OBVIOUS
<1> DEFINE B == {T \in SUBSET S : T \notin Good}
<1>1. PICK T \in B : \A U \in B : U \subseteq T => U = T
  <2>1. B \in SUBSET SUBSET S /\ B # {} OBVIOUS
  <2> HIDE DEF B
  <2> QED BY <2>1, SmallestSubset
<1>2. \A U \in SUBSET T : U # T => U \in Good BY <1>1
<1> QED BY <1>1, <1>2

-----------------------------------------------------------------------------
(* The function behind a fold that adds *)

\* g[s] is the sum over s of f, each time of the element that c chooses.
Adds(g, f, c, S) ==
    g = [s \in SUBSET S |-> IF s = {} THEN 0 ELSE f[c[s]] + g[s \ {c[s]}]]

Chooses(c, S) == \A s \in SUBSET S : s # {} => c[s] \in s

LEMMA AddsUnique ==
    ASSUME NEW S, IsFiniteSet(S), NEW c, Chooses(c, S), NEW f,
           NEW T \in SUBSET S, NEW e, \A x \in T : e[x] = f[x],
           NEW g, Adds(g, f, c, S), NEW h, Adds(h, e, c, T)
    PROVE  \A s \in SUBSET T : g[s] = h[s]
<1> DEFINE Good == {s \in SUBSET T : g[s] = h[s]}
<1>1. IsFiniteSet(T) BY FS_Subset
<1>2. ASSUME NEW s \in SUBSET T, \A u \in SUBSET s : u # s => u \in Good PROVE s \in Good
  <2>1. CASE s = {} BY <2>1 DEF Adds
  <2>2. CASE s # {}
    <3>1. c[s] \in s BY <2>2 DEF Chooses
    <3>2. s \ {c[s]} \in Good BY <1>2, <3>1
    <3>3. g[s] = f[c[s]] + g[s \ {c[s]}] BY <2>2 DEF Adds
    <3>4. h[s] = e[c[s]] + h[s \ {c[s]}] BY <2>2 DEF Adds
    <3> QED BY <3>1, <3>2, <3>3, <3>4
  <2> QED BY <2>1, <2>2
<1> HIDE DEF Good
<1>3. SUBSET T \subseteq Good BY <1>1, <1>2, SubsetInduction
<1> QED BY <1>3 DEF Good

LEMMA AddsExists ==
    ASSUME NEW S, IsFiniteSet(S), NEW c, Chooses(c, S), NEW f
    PROVE  \E g : Adds(g, f, c, S)
<1> DEFINE Good == {T \in SUBSET S : \E g : Adds(g, f, c, T)}
<1>1. ASSUME NEW T \in SUBSET S, \A U \in SUBSET T : U # T => U \in Good PROVE T \in Good
  <2> DEFINE G(U) == CHOOSE g : Adds(g, f, c, U)
             g == [s \in SUBSET T |-> IF s = {} THEN 0 ELSE f[c[s]] + G(s \ {c[s]})[s \ {c[s]}]]
  <2>1. \A U \in SUBSET T : U # T => Adds(G(U), f, c, U) BY <1>1
  <2>2. ASSUME NEW s \in SUBSET T, s # {} PROVE G(s \ {c[s]})[s \ {c[s]}] = g[s \ {c[s]}]
    <3> DEFINE u == s \ {c[s]}
    <3>1. c[s] \in s BY <2>2 DEF Chooses
    <3>2. u \in SUBSET T /\ u # T BY <3>1
    <3>3. Adds(G(u), f, c, u) BY <2>1, <3>2
    <3>4. CASE u = {} BY <3>2, <3>3, <3>4 DEF Adds
    <3>5. CASE u # {}
      <4> DEFINE v == u \ {c[u]}
      <4>1. c[u] \in u BY <3>2, <3>5 DEF Chooses
      <4>2. v \in SUBSET u /\ v # T /\ v \in SUBSET T BY <3>2, <4>1
      <4>3. Adds(G(v), f, c, v) BY <2>1, <4>2
      <4>4. G(u)[u] = f[c[u]] + G(u)[v] BY <3>3, <3>5 DEF Adds
      <4>5. g[u] = f[c[u]] + G(v)[v] BY <3>2, <3>5
      <4>6. G(u)[v] = G(v)[v]
        <5>1. IsFiniteSet(u) /\ Chooses(c, u) BY FS_Subset, <3>2 DEF Chooses
        <5> HIDE DEF v, u, G, g
        <5> QED BY <4>2, <4>3, <3>3, <5>1, AddsUnique
      <4> QED BY <4>4, <4>5, <4>6
    <3> QED BY <3>4, <3>5
  <2>3. Adds(g, f, c, T)
    <3>1. \A s \in SUBSET T : g[s] = IF s = {} THEN 0 ELSE f[c[s]] + g[s \ {c[s]}]
      <4> SUFFICES ASSUME NEW s \in SUBSET T
                   PROVE  g[s] = IF s = {} THEN 0 ELSE f[c[s]] + g[s \ {c[s]}]
        OBVIOUS
      <4>1. g[s] = IF s = {} THEN 0 ELSE f[c[s]] + G(s \ {c[s]})[s \ {c[s]}] OBVIOUS
      <4> HIDE DEF g, G
      <4> QED BY <2>2, <4>1
    <3>2. g = [s \in SUBSET T |-> g[s]] OBVIOUS
    <3> HIDE DEF g
    <3> QED BY <3>1, <3>2 DEF Adds
  <2> QED BY <2>3
<1> HIDE DEF Good
<1>2. SUBSET S \subseteq Good BY <1>1, SubsetInduction
<1> QED BY <1>2 DEF Good

\* A sum of integers may begin with any of them.
LEMMA AddsAny ==
    ASSUME NEW S, IsFiniteSet(S), NEW c, Chooses(c, S), NEW f, \A x \in S : f[x] \in Int,
           NEW g, Adds(g, f, c, S)
    PROVE  \A s \in SUBSET S : g[s] \in Int /\ \A x \in s : g[s] = f[x] + g[s \ {x}]
<1> DEFINE Good == {s \in SUBSET S : g[s] \in Int /\ \A x \in s : g[s] = f[x] + g[s \ {x}]}
<1>1. ASSUME NEW s \in SUBSET S, \A u \in SUBSET s : u # s => u \in Good PROVE s \in Good
  <2>1. CASE s = {} BY <2>1 DEF Adds
  <2>2. CASE s # {}
    <3> DEFINE y == c[s]
    <3>1. y \in s BY <2>2 DEF Chooses
    <3>2. s \ {y} \in Good BY <1>1, <3>1
    <3>3. g[s] = f[y] + g[s \ {y}] BY <2>2 DEF Adds
    <3>4. g[s] \in Int BY <3>1, <3>2, <3>3
    <3>5. ASSUME NEW x \in s, x # y PROVE g[s] = f[x] + g[s \ {x}]
      <4> HIDE DEF y
      <4>1. s \ {x} \in Good BY <1>1
      <4>2. g[s \ {y}] = f[x] + g[(s \ {y}) \ {x}] BY <3>2, <3>5
      <4>3. g[s \ {x}] = f[y] + g[(s \ {x}) \ {y}] BY <4>1, <3>1, <3>5
      <4>4. (s \ {y}) \ {x} = (s \ {x}) \ {y} OBVIOUS
      <4> DEFINE rest == g[(s \ {x}) \ {y}]
      <4>5. rest \in Int BY <1>1
      <4>6. f[x] \in Int /\ f[y] \in Int BY <3>1
      <4>7. g[s] = f[y] + (f[x] + rest) BY <3>3, <4>2, <4>4
      <4>8. g[s \ {x}] = f[y] + rest BY <4>3
      <4> HIDE DEF Good, rest
      <4> QED BY <4>5, <4>6, <4>7, <4>8
    <3> QED BY <3>3, <3>4, <3>5
  <2> QED BY <2>1, <2>2
<1> HIDE DEF Good
<1>2. SUBSET S \subseteq Good BY <1>1, SubsetInduction
<1> QED BY <1>2 DEF Good

-----------------------------------------------------------------------------
(* SumFunctionOnSet *)

AnyOf(S) == [s \in SUBSET S |-> CHOOSE x \in s : TRUE]

LEMMA SumIsAdds ==
    ASSUME NEW S, IsFiniteSet(S), NEW f
    PROVE  \E g : Adds(g, f, AnyOf(S), S) /\ SumFunctionOnSet(f, S) = g[S]
<1>1. Chooses(AnyOf(S), S) BY DEF AnyOf, Chooses
<1> DEFINE P(g) == g = [s \in SUBSET S |-> IF s = {} THEN 0
                         ELSE f[CHOOSE x \in s : TRUE] + g[s \ {CHOOSE x \in s : TRUE}]]
<1>2. \A g : Adds(g, f, AnyOf(S), S) <=> P(g)
  BY DEF AnyOf, Adds
<1>4. SumFunctionOnSet(f, S) = (CHOOSE g : P(g))[S]
  BY DEF SumFunctionOnSet, FoldFunctionOnSet, MapThenFoldSet
<1> HIDE DEF P
<1>5. \E g : Adds(g, f, AnyOf(S), S) BY <1>1, AddsExists
<1>3. \E g : P(g) BY <1>2, <1>5
<1> QED BY <1>2, <1>3, <1>4

\* The sum over a subset in the fold over the whole set.
LEMMA SumOfPart ==
    ASSUME NEW S, IsFiniteSet(S), NEW T \in SUBSET S, NEW f, NEW e, \A x \in T : e[x] = f[x],
           NEW g, Adds(g, f, AnyOf(S), S)
    PROVE  SumFunctionOnSet(e, T) = g[T]
<1>1. IsFiniteSet(T) BY FS_Subset
<1>2. PICK h : Adds(h, e, AnyOf(T), T) /\ SumFunctionOnSet(e, T) = h[T] BY <1>1, SumIsAdds
<1>3. Chooses(AnyOf(S), S) /\ Chooses(AnyOf(S), T) BY DEF AnyOf, Chooses
<1>4. Adds(h, e, AnyOf(S), T)
  <2>1. \A s \in SUBSET T : AnyOf(S)[s] = AnyOf(T)[s] BY DEF AnyOf
  <2> QED BY <1>2, <2>1 DEF Adds
<1>5. T \in SUBSET T OBVIOUS
<1>6. \A s \in SUBSET T : g[s] = h[s] BY <1>3, <1>4, AddsUnique
<1> QED BY <1>2, <1>5, <1>6

LEMMA SumEmpty == ASSUME NEW f PROVE SumFunctionOnSet(f, {}) = 0
<1>1. PICK g : Adds(g, f, AnyOf({}), {}) /\ SumFunctionOnSet(f, {}) = g[{}] BY SumIsAdds, FS_EmptySet
<1> QED BY <1>1 DEF Adds

LEMMA SumInt ==
    ASSUME NEW S, IsFiniteSet(S), NEW f, \A x \in S : f[x] \in Int
    PROVE  SumFunctionOnSet(f, S) \in Int
<1>1. PICK g : Adds(g, f, AnyOf(S), S) /\ SumFunctionOnSet(f, S) = g[S] BY SumIsAdds
<1>2. Chooses(AnyOf(S), S) BY DEF AnyOf, Chooses
<1> QED BY <1>1, <1>2, AddsAny

\* A sum depends on the values that are added only.
LEMMA SumSame ==
    ASSUME NEW S, IsFiniteSet(S), NEW f, NEW e, \A x \in S : e[x] = f[x]
    PROVE  SumFunctionOnSet(e, S) = SumFunctionOnSet(f, S)
<1>1. PICK g : Adds(g, f, AnyOf(S), S) /\ SumFunctionOnSet(f, S) = g[S] BY SumIsAdds
<1> QED BY <1>1, SumOfPart

\* One more element adds its value.
LEMMA SumAdd ==
    ASSUME NEW S, IsFiniteSet(S), NEW x, x \notin S, NEW f, \A y \in S \cup {x} : f[y] \in Int
    PROVE  SumFunctionOnSet(f, S \cup {x}) = SumFunctionOnSet(f, S) + f[x]
<1> DEFINE A == S \cup {x}
<1>1. IsFiniteSet(A) BY FS_AddElement
<1>2. Chooses(AnyOf(A), A) BY DEF AnyOf, Chooses
<1>3. PICK g : Adds(g, f, AnyOf(A), A) /\ SumFunctionOnSet(f, A) = g[A] BY <1>1, SumIsAdds
<1>4. \A s \in SUBSET A : g[s] \in Int /\ \A y \in s : g[s] = f[y] + g[s \ {y}]
  <2>1. \A y \in A : f[y] \in Int OBVIOUS
  <2> HIDE DEF A
  <2> QED BY <1>1, <1>2, <1>3, <2>1, AddsAny
<1>5. SumFunctionOnSet(f, S) = g[S] BY <1>1, <1>3, SumOfPart
<1>6. A \ {x} = S /\ x \in A OBVIOUS
<1>7. g[A] = f[x] + g[S] BY <1>4, <1>6
<1> QED BY <1>3, <1>4, <1>5, <1>7
=============================================================================
