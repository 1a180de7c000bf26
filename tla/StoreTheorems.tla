---------------------------- MODULE StoreTheorems ----------------------------
(***************************************************************************)
(* What a save does to an entity, and to the sum of a field over the rows  *)
(* of an entity, stated once for every subgraph's proofs.  The sums are    *)
(* those of the library's SumFunction, whose recursion over the subsets of *)
(* the domain is shown to be well defined and independent of the order.    *)
(* A table whose ids are pairs is added up by the first of the pair.       *)
(* The same for rows of counters, and for averages.                        *)
(* Last, what the logs that wait to be handled are going to add, for the   *)
(* subgraphs whose handlers see the contracts as the block leaves them.    *)
(***************************************************************************)
EXTENDS Counters, Sequences, FiniteSetTheorems, SequenceTheorems, WellFoundedInduction, TLAPS

\* Saving a well-typed row under a well-typed id keeps the entity well typed.
THEOREM PutPartialFn ==
    ASSUME NEW f, NEW K, NEW R, NEW k \in K, NEW v \in R, PartialFn(f, K, R)
    PROVE  PartialFn(Put(f, k, v), K, R)
BY DEF Put, PartialFn

\* Loading a row, or the initial row of its type, yields a well-typed row.
THEOREM LoadOrType ==
    ASSUME NEW f, NEW K, NEW R, NEW k, NEW fresh \in R, PartialFn(f, K, R)
    PROVE  LoadOr(f, k, fresh) \in R
BY DEF LoadOr, PartialFn

\* The empty entity is well typed.
THEOREM NoRowsPartialFn == ASSUME NEW K, NEW R PROVE PartialFn(NoRows, K, R)
BY DEF PartialFn, NoRows

-----------------------------------------------------------------------------
(* Sums over a finite set. *)

\* The element a fold over s takes first.
FirstOf(s) == CHOOSE x \in s : TRUE

\* g holds, for every subset of S, the sum of f over it, added up as the library's fold does.
AddsUp(f, S, g) ==
    g = [s \in SUBSET S |-> IF s = {} THEN 0 ELSE f[FirstOf(s)] + g[s \ {FirstOf(s)}]]

\* The library's sum over S is the value at S of such a function.
LEMMA SumIsFold ==
    ASSUME NEW f, NEW S
    PROVE  SumFunctionOnSet(f, S) = (CHOOSE g : AddsUp(f, S, g))[S]
BY DEF SumFunctionOnSet, FoldFunctionOnSet, MapThenFoldSet, AddsUp, FirstOf

\* Induction over the subsets of a finite set: what holds for a set whenever it
\* holds for its proper subsets holds for all.  By a minimal counterexample.
LEMMA FiniteInduction ==
    ASSUME NEW S, IsFiniteSet(S), NEW G \in SUBSET SUBSET S,
           \A T \in SUBSET S : (\A U \in SUBSET T : U # T => U \in G) => T \in G
    PROVE  \A T \in SUBSET S : T \in G
<1>. DEFINE Bad == (SUBSET S) \ G
<1>1. IsWellFoundedOn(StrictSubsetOrdering(S), SUBSET S)
  BY FS_StrictSubsetOrderingWellFounded, FS_FiniteSubsetsOfFinite
<1>2. SUFFICES ASSUME Bad # {} PROVE FALSE
  OBVIOUS
<1>3. PICK T \in Bad : \A U \in Bad : <<U, T>> \notin StrictSubsetOrdering(S)
  <2>. Bad \subseteq SUBSET S  OBVIOUS
  <2>. HIDE DEF Bad
  <2>. QED  BY <1>1, <1>2, WFMin
<1>4. \A U \in SUBSET T : U # T => U \in G BY <1>3 DEF StrictSubsetOrdering
<1>. QED  BY <1>3, <1>4

\* A non-empty set has a first element.
LEMMA FirstOfIn == ASSUME NEW s, s # {} PROVE FirstOf(s) \in s
BY DEF FirstOf

\* A fold over a finite set is well defined.
LEMMA FoldExists ==
    ASSUME NEW f, NEW S, IsFiniteSet(S)
    PROVE  AddsUp(f, S, CHOOSE g : AddsUp(f, S, g))
<1>. DEFINE step(g, s) == IF s = {} THEN 0 ELSE f[FirstOf(s)] + g[s \ {FirstOf(s)}]
            upTo(T) == \E g : /\ g = [s \in SUBSET S |-> g[s]]
                              /\ \A s \in SUBSET S :
                                   Cardinality(s) <= Cardinality(T) => g[s] = step(g, s)
            G == {T \in SUBSET S : upTo(T)}
<1>1. ASSUME NEW T \in SUBSET S, \A U \in SUBSET T : U # T => U \in G PROVE T \in G
  <2>1. CASE T = {}
    <3>. DEFINE g0 == [s \in SUBSET S |-> 0]
    <3>1. \A s \in SUBSET S : Cardinality(s) <= Cardinality(T) => s = {}
      BY <2>1, FS_EmptySet, FS_Subset, FS_CardinalityType
    <3>2. upTo(T)
      <4>. SUFFICES /\ g0 = [s \in SUBSET S |-> g0[s]]
                    /\ \A s \in SUBSET S :
                         Cardinality(s) <= Cardinality(T) => g0[s] = step(g0, s)
        OBVIOUS
      <4>. QED  BY <3>1
    <3>. QED  BY <3>2
  <2>2. CASE T # {}
    <3>. DEFINE U == T \ {FirstOf(T)}
    <3>1. U \in SUBSET T /\ U # T
      BY <2>2, FirstOfIn
    <3>2. IsFiniteSet(T) /\ Cardinality(T) \in Nat /\ Cardinality(U) = Cardinality(T) - 1
      BY <2>2, FirstOfIn, FS_Subset, FS_CardinalityType, FS_RemoveElement
    <3>3. PICK g : /\ g = [s \in SUBSET S |-> g[s]]
                   /\ \A s \in SUBSET S :
                        Cardinality(s) <= Cardinality(U) => g[s] = step(g, s)
      BY <1>1, <3>1
    <3>. DEFINE h == [s \in SUBSET S |-> step(g, s)]
    <3>4. ASSUME NEW s \in SUBSET S, Cardinality(s) <= Cardinality(T)
          PROVE  h[s] = step(h, s)
      <4>1. CASE s = {}
        BY <4>1
      <4>2. CASE s # {}
        <5>. DEFINE r == s \ {FirstOf(s)}
        <5>1. r \in SUBSET S /\ Cardinality(s) \in Nat /\ Cardinality(r) = Cardinality(s) - 1
          BY <4>2, FirstOfIn, FS_Subset, FS_CardinalityType, FS_RemoveElement
        <5>2. g[r] = step(g, r)
          <6>. HIDE DEF r, step
          <6>1. Cardinality(r) <= Cardinality(U)
            BY <3>2, <3>4, <5>1
          <6>. QED  BY <3>3, <5>1, <6>1
        <5>3. h[r] = step(g, r) /\ h[s] = f[FirstOf(s)] + g[r]
          BY <4>2, <5>1
        <5>. QED  BY <4>2, <5>2, <5>3
      <4>. QED  BY <4>1, <4>2
    <3>5. upTo(T)
      <4>. SUFFICES /\ h = [s \in SUBSET S |-> h[s]]
                    /\ \A s \in SUBSET S :
                         Cardinality(s) <= Cardinality(T) => h[s] = step(h, s)
        OBVIOUS
      <4>. HIDE DEF step
      <4>. QED  BY <3>4
    <3>. QED  BY <3>5
  <2>. QED  BY <2>1, <2>2
<1>2. S \in G
  <2>. HIDE DEF G
  <2>1. G \in SUBSET SUBSET S  BY DEF G
  <2>. QED  BY <1>1, <2>1, FiniteInduction
<1>3. PICK g : /\ g = [s \in SUBSET S |-> g[s]]
               /\ \A s \in SUBSET S : Cardinality(s) <= Cardinality(S) => g[s] = step(g, s)
  BY <1>2
<1>4. \A s \in SUBSET S : g[s] = step(g, s)
  BY <1>3, FS_Subset, FS_CardinalityType
<1>5. AddsUp(f, S, g)
  BY <1>3, <1>4 DEF AddsUp
<1>. QED  BY <1>5

\* Two folds agree on a set whose elements have the same amounts in both.
LEMMA FoldsAgree ==
    ASSUME NEW f, NEW g, NEW S, NEW W, NEW a, NEW b,
           W \subseteq S, IsFiniteSet(W), AddsUp(f, S, a), AddsUp(g, W, b), \A x \in W : f[x] = g[x]
    PROVE  a[W] = b[W]
<1>. DEFINE G == {s \in SUBSET W : a[s] = b[s]}
<1>1. ASSUME NEW s \in SUBSET W, \A u \in SUBSET s : u # s => u \in G PROVE s \in G
  <2>1. s \in SUBSET S
    OBVIOUS
  <2>2. a[s] = IF s = {} THEN 0 ELSE f[FirstOf(s)] + a[s \ {FirstOf(s)}]
    BY <2>1 DEF AddsUp
  <2>3. b[s] = IF s = {} THEN 0 ELSE g[FirstOf(s)] + b[s \ {FirstOf(s)}]
    BY <2>1 DEF AddsUp
  <2>4. s # {} => FirstOf(s) \in W /\ s \ {FirstOf(s)} \in G
    BY <1>1, FirstOfIn
  <2>. QED  BY <2>2, <2>3, <2>4
<1>. HIDE DEF G
<1>2. G \in SUBSET SUBSET W  BY DEF G
<1>3. W \in G
  BY <1>1, <1>2, FiniteInduction
<1>. QED  BY <1>3 DEF G

\* The library's sum, one element at a time.
LEMMA SumFirst ==
    ASSUME NEW f, NEW S, IsFiniteSet(S)
    PROVE  SumFunctionOnSet(f, S) =
             IF S = {} THEN 0 ELSE f[FirstOf(S)] + SumFunctionOnSet(f, S \ {FirstOf(S)})
<1>. DEFINE R == S \ {FirstOf(S)}
<1>1. IsFiniteSet(R) /\ R \subseteq S
  BY FS_Subset
<1>2. PICK a : AddsUp(f, S, a) /\ SumFunctionOnSet(f, S) = a[S]
  BY FoldExists, SumIsFold
<1>3. PICK b : AddsUp(f, R, b) /\ SumFunctionOnSet(f, R) = b[R]
  BY <1>1, FoldExists, SumIsFold
<1>4. a[R] = b[R]
  <2>. HIDE DEF R
  <2>1. \A x \in R : f[x] = f[x]
    OBVIOUS
  <2>. QED  BY <1>1, <1>2, <1>3, <2>1, FoldsAgree
<1>5. a[S] = IF S = {} THEN 0 ELSE f[FirstOf(S)] + a[R]
  BY <1>2 DEF AddsUp
<1>. QED  BY <1>2, <1>3, <1>4, <1>5

\* The sum over no element.
LEMMA SumEmpty == ASSUME NEW f PROVE SumFunctionOnSet(f, {}) = 0
BY SumFirst, FS_EmptySet

\* Functions that agree on a set have the same sum over it.
LEMMA SumCongruence ==
    ASSUME NEW f, NEW g, NEW S, IsFiniteSet(S), \A x \in S : f[x] = g[x]
    PROVE  SumFunctionOnSet(f, S) = SumFunctionOnSet(g, S)
<1>1. PICK a : AddsUp(f, S, a) /\ SumFunctionOnSet(f, S) = a[S]
  BY FoldExists, SumIsFold
<1>2. PICK b : AddsUp(g, S, b) /\ SumFunctionOnSet(g, S) = b[S]
  BY FoldExists, SumIsFold
<1>3. S \subseteq S /\ IsFiniteSet(S) /\ \A x \in S : f[x] = g[x]
  OBVIOUS
<1>4. a[S] = b[S]
  BY ONLY <1>1, <1>2, <1>3, FoldsAgree
<1>. QED  BY <1>1, <1>2, <1>4

\* A sum of integers is an integer; a sum of naturals is one.
LEMMA SumType ==
    ASSUME NEW f, NEW S, IsFiniteSet(S), \A x \in S : f[x] \in Int
    PROVE  /\ SumFunctionOnSet(f, S) \in Int
           /\ (\A x \in S : f[x] >= 0) => SumFunctionOnSet(f, S) >= 0
<1>. DEFINE G == {s \in SUBSET S : /\ SumFunctionOnSet(f, s) \in Int
                                   /\ (\A x \in s : f[x] >= 0) => SumFunctionOnSet(f, s) >= 0}
<1>1. ASSUME NEW s \in SUBSET S, \A u \in SUBSET s : u # s => u \in G PROVE s \in G
  <2>1. SumFunctionOnSet(f, s) =
          IF s = {} THEN 0 ELSE f[FirstOf(s)] + SumFunctionOnSet(f, s \ {FirstOf(s)})
    BY SumFirst, FS_Subset
  <2>2. s # {} => FirstOf(s) \in s /\ s \ {FirstOf(s)} \in G
    BY <1>1, FirstOfIn
  <2>. QED  BY <2>1, <2>2
<1>. HIDE DEF G
<1>2. G \in SUBSET SUBSET S  BY DEF G
<1>3. S \in G
  BY <1>1, <1>2, FiniteInduction
<1>. QED  BY <1>3 DEF G

\* Any element may be taken out first.
LEMMA SumRemove ==
    ASSUME NEW f, NEW S, IsFiniteSet(S), \A x \in S : f[x] \in Int, NEW x \in S
    PROVE  SumFunctionOnSet(f, S) = f[x] + SumFunctionOnSet(f, S \ {x})
<1>. DEFINE sum(T) == SumFunctionOnSet(f, T)
            G == {s \in SUBSET S : \A y \in s : sum(s) = f[y] + sum(s \ {y})}
<1>1. ASSUME NEW s \in SUBSET S, \A u \in SUBSET s : u # s => u \in G, NEW y \in s
      PROVE  sum(s) = f[y] + sum(s \ {y})
  <2>. DEFINE p == FirstOf(s)
  <2>1. p \in s /\ sum(s) = f[p] + sum(s \ {p})
    BY SumFirst, FirstOfIn, FS_Subset
  <2>. HIDE DEF p
  <2>2. CASE y = p
    BY <2>1, <2>2
  <2>3. CASE y # p
    <3>1. s \ {p} \in G /\ s \ {y} \in G
      BY <1>1, <2>1
    <3>2. sum(s \ {p}) = f[y] + sum((s \ {p}) \ {y})
      BY <3>1, <2>1, <2>3
    <3>3. sum(s \ {y}) = f[p] + sum((s \ {y}) \ {p})
      BY <3>1, <2>1, <2>3
    <3>4. (s \ {p}) \ {y} = (s \ {y}) \ {p}
      OBVIOUS
    <3>5. sum((s \ {y}) \ {p}) \in Int /\ f[p] \in Int /\ f[y] \in Int
      BY SumType, FS_Subset, <2>1
    <3>6. sum((s \ {p}) \ {y}) = sum((s \ {y}) \ {p})
      BY <3>4
    <3>. HIDE DEF sum
    <3>. QED  BY <2>1, <3>2, <3>3, <3>5, <3>6
  <2>. QED  BY <2>2, <2>3
<1>2. G \in SUBSET SUBSET S  OBVIOUS
<1>3. \A s \in SUBSET S : (\A u \in SUBSET s : u # s => u \in G) => s \in G
  BY <1>1
<1>4. S \in G
  <2>. HIDE DEF G
  <2>. QED  BY <1>2, <1>3, FiniteInduction
<1>. QED  BY <1>4

\* One element more.
LEMMA SumAdd ==
    ASSUME NEW f, NEW S, IsFiniteSet(S), NEW x, x \notin S, \A y \in S : f[y] \in Int,
           f[x] \in Int
    PROVE  SumFunctionOnSet(f, S \cup {x}) = f[x] + SumFunctionOnSet(f, S)
<1>. DEFINE T == S \cup {x}
<1>1. IsFiniteSet(T) /\ x \in T /\ T \ {x} = S /\ \A y \in T : f[y] \in Int
  BY FS_AddElement
<1>2. SumFunctionOnSet(f, T) = f[x] + SumFunctionOnSet(f, T \ {x})
  <2>. HIDE DEF T
  <2>. QED  BY <1>1, SumRemove
<1>. QED  BY <1>1, <1>2

\* Elements that add nothing may be left out.
LEMMA SumSupport ==
    ASSUME NEW f, NEW S, IsFiniteSet(S), NEW T \in SUBSET S, \A x \in S : f[x] \in Int,
           \A x \in S \ T : f[x] = 0
    PROVE  SumFunctionOnSet(f, S) = SumFunctionOnSet(f, T)
<1>. DEFINE sum(s) == SumFunctionOnSet(f, s)
            G == {s \in SUBSET S : sum(s) = sum(s \cap T)}
<1>1. ASSUME NEW s \in SUBSET S, \A u \in SUBSET s : u # s => u \in G PROVE s \in G
  <2>1. CASE s \subseteq T BY <2>1
  <2>2. CASE ~(s \subseteq T)
    <3>1. PICK x \in s : x \notin T
      BY <2>2
    <3>2. IsFiniteSet(s) /\ \A y \in s : f[y] \in Int
      BY FS_Subset
    <3>3. sum(s) = f[x] + sum(s \ {x})
      BY <3>2, SumRemove
    <3>4. sum(s \ {x}) = sum((s \ {x}) \cap T)
      BY <1>1
    <3>5. (s \ {x}) \cap T = s \cap T
      BY <3>1
    <3>6. sum(s \ {x}) \in Int
      BY <3>2, FS_Subset, SumType
    <3>7. f[x] = 0
      BY <3>1
    <3>8. sum(s) = sum(s \ {x})
      <4>. HIDE DEF sum
      <4>. QED  BY <3>3, <3>6, <3>7
    <3>. QED  BY <3>4, <3>5, <3>8
  <2>. QED  BY <2>1, <2>2
<1>. HIDE DEF G
<1>2. G \in SUBSET SUBSET S  BY DEF G
<1>3. S \in G
  BY <1>1, <1>2, FiniteInduction
<1>4. S \cap T = T
  OBVIOUS
<1>. QED  BY <1>3, <1>4 DEF G

\* The sum of sums.
LEMMA SumPointwise ==
    ASSUME NEW f, NEW g, NEW h, NEW S, IsFiniteSet(S),
           \A x \in S : f[x] \in Int /\ g[x] \in Int /\ h[x] = f[x] + g[x]
    PROVE  SumFunctionOnSet(h, S) = SumFunctionOnSet(f, S) + SumFunctionOnSet(g, S)
<1>. DEFINE sf(s) == SumFunctionOnSet(f, s)
            sg(s) == SumFunctionOnSet(g, s)
            sh(s) == SumFunctionOnSet(h, s)
            G == {s \in SUBSET S : sh(s) = sf(s) + sg(s)}
<1>1. ASSUME NEW s \in SUBSET S, \A u \in SUBSET s : u # s => u \in G PROVE s \in G
  <2>1. CASE s = {}
    BY <2>1, SumEmpty
  <2>2. CASE s # {}
    <3>. DEFINE p == FirstOf(s)
                r == s \ {p}
    <3>1. p \in s /\ r \in SUBSET s /\ r # s
      BY <2>2, FirstOfIn
    <3>2. IsFiniteSet(s) /\ IsFiniteSet(r)
      BY FS_Subset
    <3>3. sf(s) = f[p] + sf(r) /\ sg(s) = g[p] + sg(r) /\ sh(s) = h[p] + sh(r)
      BY <2>2, <3>2, SumFirst
    <3>4. sh(r) = sf(r) + sg(r)
      BY <1>1, <3>1
    <3>5. sf(r) \in Int /\ sg(r) \in Int
      <4>1. \A x \in r : f[x] \in Int /\ g[x] \in Int
        OBVIOUS
      <4>. HIDE DEF r
      <4>. QED  BY <3>2, <4>1, SumType
    <3>6. f[p] \in Int /\ g[p] \in Int /\ h[p] = f[p] + g[p]
      BY <3>1
    <3>. HIDE DEF sf, sg, sh, p, r
    <3>7. sh(s) = sf(s) + sg(s)
      BY <3>3, <3>4, <3>5, <3>6
    <3>. QED  BY <3>7
  <2>. QED  BY <2>1, <2>2
<1>. HIDE DEF G
<1>2. G \in SUBSET SUBSET S  BY DEF G
<1>3. S \in G
  BY <1>1, <1>2, FiniteInduction
<1>. QED  BY <1>3 DEF G

-----------------------------------------------------------------------------
(* Sums of all the values of a function. *)

\* Equal functions have equal sums.
LEMMA SumsAgree ==
    ASSUME NEW f, NEW g, IsFiniteSet(DOMAIN f), DOMAIN g = DOMAIN f,
           \A x \in DOMAIN f : g[x] = f[x]
    PROVE  SumFunction(g) = SumFunction(f)
BY SumCongruence DEF SumFunction

\* One value, new or changed.
LEMMA SumPut ==
    ASSUME NEW f, NEW g, NEW k, IsFiniteSet(DOMAIN f), DOMAIN g = DOMAIN f \cup {k},
           \A x \in DOMAIN f : f[x] \in Int, g[k] \in Int,
           \A x \in DOMAIN f \ {k} : g[x] = f[x]
    PROVE  /\ SumFunction(g) = SumFunction(f) + g[k] - (IF k \in DOMAIN f THEN f[k] ELSE 0)
           /\ SumFunction(f) \in Int
<1>. DEFINE R == DOMAIN f \ {k}
            D == DOMAIN f \cup {k}
<1>1. IsFiniteSet(D) /\ IsFiniteSet(R) /\ k \in D /\ D \ {k} = R
  BY FS_AddElement, FS_Subset
<1>2. \A x \in D : g[x] \in Int
  OBVIOUS
<1>3. SumFunctionOnSet(g, D) = g[k] + SumFunctionOnSet(g, R)
  <2>. HIDE DEF D
  <2>. QED  BY <1>1, <1>2, SumRemove
<1>4. SumFunctionOnSet(g, R) = SumFunctionOnSet(f, R)
  <2>1. \A x \in R : g[x] = f[x]
    OBVIOUS
  <2>. HIDE DEF R
  <2>. QED  BY <1>1, <2>1, SumCongruence
<1>5. SumFunctionOnSet(f, R) \in Int
  <2>1. \A x \in R : f[x] \in Int
    OBVIOUS
  <2>. HIDE DEF R
  <2>. QED  BY <1>1, <2>1, SumType
<1>6. CASE k \in DOMAIN f
  <2>1. SumFunctionOnSet(f, DOMAIN f) = f[k] + SumFunctionOnSet(f, R)
    BY <1>6, SumRemove
  <2>2. f[k] \in Int
    BY <1>6
  <2>. HIDE DEF R, D
  <2>. QED  BY <1>3, <1>4, <1>5, <1>6, <2>1, <2>2 DEF SumFunction, D
<1>7. CASE k \notin DOMAIN f
  <2>1. R = DOMAIN f
    BY <1>7
  <2>. QED  BY <1>3, <1>4, <1>5, <1>7, <2>1 DEF SumFunction
<1>. QED  BY <1>6, <1>7

\* The values of a part of the domain, each raised by its own amount.
LEMMA SumRaise ==
    ASSUME NEW f, NEW g, NEW d, IsFiniteSet(DOMAIN f), DOMAIN g = DOMAIN f,
           DOMAIN d \subseteq DOMAIN f, \A x \in DOMAIN f : f[x] \in Int,
           \A x \in DOMAIN d : d[x] \in Int,
           \A x \in DOMAIN f : g[x] = IF x \in DOMAIN d THEN f[x] + d[x] ELSE f[x]
    PROVE  SumFunction(g) = SumFunction(f) + SumFunction(d)
<1>. DEFINE S == DOMAIN f
            T == DOMAIN d
            e == [x \in S |-> IF x \in T THEN d[x] ELSE 0]
<1>1. \A x \in S : f[x] \in Int /\ e[x] \in Int /\ g[x] = f[x] + e[x]
  OBVIOUS
<1>2. IsFiniteSet(T)
  BY FS_Subset
<1>3. \A x \in S \ T : e[x] = 0
  OBVIOUS
<1>4. \A x \in T : e[x] = d[x]
  OBVIOUS
<1>5. T \in SUBSET S
  OBVIOUS
<1>. HIDE DEF e
<1>6. SumFunctionOnSet(g, S) = SumFunctionOnSet(f, S) + SumFunctionOnSet(e, S)
  BY <1>1, SumPointwise
<1>7. SumFunctionOnSet(e, S) = SumFunctionOnSet(e, T)
  BY <1>1, <1>3, <1>5, SumSupport
<1>8. SumFunctionOnSet(e, T) = SumFunctionOnSet(d, T)
  <2>. HIDE DEF T
  <2>. QED  BY <1>2, <1>4, SumCongruence
<1>. QED  BY <1>6, <1>7, <1>8 DEF SumFunction

\* The sum of no value.
LEMMA SumOfNone == ASSUME NEW f, DOMAIN f = {} PROVE SumFunction(f) = 0
BY SumEmpty DEF SumFunction

\* Integers add up to an integer, naturals to a natural.
LEMMA SumFunctionType ==
    ASSUME NEW f, IsFiniteSet(DOMAIN f), \A x \in DOMAIN f : f[x] \in Int
    PROVE  /\ SumFunction(f) \in Int
           /\ (\A x \in DOMAIN f : f[x] >= 0) => SumFunction(f) \in Nat
BY SumType DEF SumFunction
-----------------------------------------------------------------------------
(* Finite sets of integers. *)

\* A finite non-empty set of integers has a least and a greatest element.
LEMMA FiniteIntExtremes ==
    ASSUME NEW S, IsFiniteSet(S), S # {}, S \subseteq Int
    PROVE  /\ \E x \in S : \A y \in S : x <= y
           /\ \E x \in S : \A y \in S : y <= x
<1>. DEFINE low(s) == s # {} => \E x \in s : \A y \in s : x <= y
            high(s) == s # {} => \E x \in s : \A y \in s : y <= x
            G == {s \in SUBSET S : low(s) /\ high(s)}
<1>1. ASSUME NEW s \in SUBSET S, \A u \in SUBSET s : u # s => u \in G PROVE s \in G
  <2>1. CASE s = {}
    BY <2>1
  <2>2. CASE s # {}
    <3>1. PICK p \in s : TRUE
      BY <2>2
    <3>. DEFINE r == s \ {p}
    <3>2. p \in Int /\ r \subseteq Int /\ s = r \cup {p}
      BY <3>1
    <3>3. r \in G
      BY <1>1, <3>1
    <3>4. CASE r = {}
      BY <3>2, <3>4
    <3>5. CASE r # {}
      <4>1. PICK a \in r : \A y \in r : a <= y
        BY <3>3, <3>5
      <4>2. PICK b \in r : \A y \in r : y <= b
        BY <3>3, <3>5
      <4>. HIDE DEF r
      <4>3. \E x \in s : \A y \in s : x <= y BY <3>2, <4>1
      <4>4. \E x \in s : \A y \in s : y <= x BY <3>2, <4>2
      <4>. QED  BY <4>3, <4>4
    <3>. QED  BY <3>4, <3>5
  <2>. QED  BY <2>1, <2>2
<1>. HIDE DEF G
<1>2. G \in SUBSET SUBSET S  BY DEF G
<1>3. \A s \in SUBSET S : (\A u \in SUBSET s : u # s => u \in G) => s \in G
  BY <1>1
<1>4. S \in G
  <2>1. IsFiniteSet(S) /\ S \in SUBSET S
    OBVIOUS
  <2>. QED  BY ONLY <1>2, <1>3, <2>1, FiniteInduction
<1>. QED  BY <1>4 DEF G

\* The sum of one value.
LEMMA SumOfOne == ASSUME NEW f, NEW a, DOMAIN f = {a}, f[a] \in Int PROVE SumFunction(f) = f[a]
<1>. DEFINE S == DOMAIN f
<1>1. IsFiniteSet(S) /\ a \in S /\ (\A x \in S : f[x] \in Int) /\ S \ {a} = {}
  BY FS_Singleton
<1>. HIDE DEF S
<1>2. SumFunctionOnSet(f, S) = f[a] + SumFunctionOnSet(f, S \ {a})
  BY <1>1, SumRemove
<1>3. SumFunctionOnSet(f, S) = f[a] + 0
  BY <1>1, <1>2, SumEmpty
<1>. QED  BY <1>3 DEF SumFunction, S

\* The sum of nothing but zeros.
LEMMA SumOfZeros ==
    ASSUME NEW f, IsFiniteSet(DOMAIN f), \A x \in DOMAIN f : f[x] = 0 PROVE SumFunction(f) = 0
<1>. DEFINE S == DOMAIN f  T == {}
<1>1. /\ IsFiniteSet(S) /\ T \in SUBSET S /\ \A x \in S : f[x] \in Int
      /\ \A x \in S \ T : f[x] = 0
  OBVIOUS
<1>. HIDE DEF S, T
<1>2. SumFunctionOnSet(f, S) = SumFunctionOnSet(f, T)
  BY <1>1, SumSupport
<1>. QED  BY <1>2, SumEmpty DEF S, T, SumFunction

-----------------------------------------------------------------------------
(* Tables whose ids are pairs, added up over the ids that begin alike.     *)

\* The counter x of every row.
Column(table, x) == [k \in DOMAIN table |-> table[k][x]]

\* The values of f whose ids begin with a, and their sum.
Group(f, a) == [k \in {j \in DOMAIN f : j[1] = a} |-> f[k]]
GroupSum(f, a) == SumFunction(Group(f, a))

\* Every value of v is the sum of its group in w.
Held(v, w) == \A a \in DOMAIN v : v[a] = GroupSum(w, a)

Before(w, k) == IF k \in DOMAIN w THEN w[k] ELSE 0

\* Each a in the domain of d is raised by d[a].
Raised(v, v2, d) ==
    /\ DOMAIN v2 = DOMAIN v
    /\ \A a \in DOMAIN v : v2[a] = IF a \in DOMAIN d THEN v[a] + d[a] ELSE v[a]

\* Each <<a, t>>, for a in the domain of d, is raised by d[a], or made with it.
Moved(w, w2, t, d) ==
    /\ DOMAIN w2 = DOMAIN w \cup ((DOMAIN d) \X {t})
    /\ \A a \in DOMAIN d : w2[<<a, t>>] = Before(w, <<a, t>>) + d[a]
    /\ \A k \in DOMAIN w \ ((DOMAIN d) \X {t}) : w2[k] = w[k]

AllIntegers(f) == \A x \in DOMAIN f : f[x] \in Int

\* A group without an id adds up to nothing.
LEMMA GroupEmpty == ASSUME NEW f, NEW a, \A k \in DOMAIN f : k[1] # a PROVE GroupSum(f, a) = 0
BY SumOfNone DEF Group, GroupSum

\* Groups that agree have the same sum.
LEMMA GroupSame ==
    ASSUME NEW f, NEW g, NEW a, IsFiniteSet(DOMAIN f),
           \A k : k[1] = a => (k \in DOMAIN g <=> k \in DOMAIN f),
           \A k \in DOMAIN f : k[1] = a => g[k] = f[k]
    PROVE  GroupSum(g, a) = GroupSum(f, a)
<1>. DEFINE p == Group(f, a)  q == Group(g, a)
<1>1. DOMAIN q = DOMAIN p /\ \A k \in DOMAIN p : q[k] = p[k]
  BY DEF Group
<1>2. IsFiniteSet(DOMAIN p)
  <2>1. DOMAIN p \subseteq DOMAIN f
    BY DEF Group
  <2>. HIDE DEF p
  <2>. QED  BY <2>1, FS_Subset
<1>. HIDE DEF p, q
<1>3. SumFunction(q) = SumFunction(p)
  BY <1>1, <1>2, SumsAgree
<1>. QED  BY <1>3 DEF GroupSum, p, q

\* One value of a group, new or raised.
LEMMA GroupPut ==
    ASSUME NEW f, NEW g, NEW a, NEW t, NEW n \in Int, IsFiniteSet(DOMAIN f), AllIntegers(f),
           \A k : k[1] = a => (k \in DOMAIN g <=> k \in DOMAIN f \/ k = <<a, t>>),
           \A k \in DOMAIN f : k[1] = a /\ k # <<a, t>> => g[k] = f[k],
           g[<<a, t>>] = Before(f, <<a, t>>) + n
    PROVE  GroupSum(g, a) = GroupSum(f, a) + n /\ GroupSum(f, a) \in Int
<1>. DEFINE p == Group(f, a)  q == Group(g, a)  k == <<a, t>>
<1>0. k[1] = a
  OBVIOUS
<1>1. /\ DOMAIN q = DOMAIN p \cup {k}
      /\ \A j \in DOMAIN p : p[j] \in Int
      /\ \A j \in DOMAIN p \ {k} : q[j] = p[j]
      /\ q[k] = g[k]
      /\ k \in DOMAIN p <=> k \in DOMAIN f
      /\ k \in DOMAIN p => p[k] = f[k]
  BY <1>0 DEF Group, AllIntegers
<1>2. IsFiniteSet(DOMAIN p)
  <2>1. DOMAIN p \subseteq DOMAIN f
    BY DEF Group
  <2>. HIDE DEF p
  <2>. QED  BY <2>1, FS_Subset
<1>3. Before(f, k) \in Int /\ q[k] = Before(f, k) + n
  BY <1>1 DEF Before, AllIntegers
<1>4. Before(f, k) = IF k \in DOMAIN p THEN p[k] ELSE 0
  BY <1>1 DEF Before
<1>. HIDE DEF p, q, k
<1>5. q[k] \in Int
  BY <1>3
<1>6. /\ SumFunction(q) = SumFunction(p) + q[k] - (IF k \in DOMAIN p THEN p[k] ELSE 0)
      /\ SumFunction(p) \in Int
  BY <1>1, <1>2, <1>5, SumPut
<1>7. SumFunction(q) = SumFunction(p) + n
  BY <1>3, <1>4, <1>6
<1>. QED  BY <1>6, <1>7 DEF GroupSum, p, q

\* One value of the group a raised by p and one lowered by n, each new or not, maybe the same.
GroupMove(f, g, a, t, r, p, n) ==
    /\ \A k : k[1] = a => (k \in DOMAIN g <=> k \in DOMAIN f \/ k = <<a, t>> \/ k = <<a, r>>)
    /\ \A k \in DOMAIN g : k[1] = a =>
          g[k] = Before(f, k) + (IF k = <<a, t>> THEN p ELSE 0) - (IF k = <<a, r>> THEN n ELSE 0)

\* Then its group moves by the difference.
LEMMA GroupMoved ==
    ASSUME NEW f, NEW g, NEW a, NEW t, NEW r, NEW p \in Int, NEW n \in Int,
           IsFiniteSet(DOMAIN f), AllIntegers(f), GroupMove(f, g, a, t, r, p, n)
    PROVE  GroupSum(g, a) = GroupSum(f, a) + p - n /\ GroupSum(f, a) \in Int
<1>0. /\ \A k : k[1] = a => (k \in DOMAIN g <=> k \in DOMAIN f \/ k = <<a, t>> \/ k = <<a, r>>)
      /\ \A k \in DOMAIN g : k[1] = a =>
            g[k] = Before(f, k) + (IF k = <<a, t>> THEN p ELSE 0) - (IF k = <<a, r>> THEN n ELSE 0)
  BY DEF GroupMove
<1>. DEFINE u == <<a, r>>  v == <<a, t>>
            h == [k \in DOMAIN f \cup {u} |-> IF k = u THEN Before(f, u) + (-n) ELSE f[k]]
<1>1. u[1] = a /\ v[1] = a /\ -n \in Int
  OBVIOUS
<1>2. \A k : Before(f, k) \in Int
  BY DEF Before, AllIntegers
<1>3. /\ DOMAIN h = DOMAIN f \cup {u} /\ h[u] = Before(f, u) + (-n)
      /\ \A k \in DOMAIN f \ {u} : h[k] = f[k]
  OBVIOUS
<1>4. IsFiniteSet(DOMAIN h) /\ AllIntegers(h)
  <2>1. IsFiniteSet(DOMAIN f \cup {u})
    BY FS_AddElement
  <2>. QED  BY <1>1, <1>2, <1>3, <2>1 DEF AllIntegers
<1>. HIDE DEF h
<1>5. GroupSum(h, a) = GroupSum(f, a) + (-n) /\ GroupSum(f, a) \in Int
  BY <1>1, <1>3, GroupPut
<1>6. ASSUME NEW k \in DOMAIN g, k[1] = a
      PROVE  g[k] = Before(h, k) + IF k = v THEN p ELSE 0
  <2>1. Before(h, k) = IF k = u THEN Before(f, u) + (-n) ELSE Before(f, k)
    BY <1>3 DEF Before
  <2>. HIDE DEF u, v
  <2>2. g[k] = Before(f, k) + (IF k = v THEN p ELSE 0) - (IF k = u THEN n ELSE 0)
    BY <1>0, <1>6 DEF u, v
  <2>. QED  BY <1>2, <2>1, <2>2
<1>7. /\ \A k : k[1] = a => (k \in DOMAIN g <=> k \in DOMAIN h \/ k = v)
      /\ \A k \in DOMAIN h : k[1] = a /\ k # v => g[k] = h[k]
      /\ g[v] = Before(h, v) + p
  BY <1>0, <1>3, <1>4, <1>6, <1>1 DEF AllIntegers, Before
<1>8. GroupSum(g, a) = GroupSum(h, a) + p
  BY <1>4, <1>7, GroupPut
<1>. QED  BY <1>5, <1>8

\* Values stay the sums of their groups when both are raised alike.
LEMMA HeldMoved ==
    ASSUME NEW v, NEW v2, NEW w, NEW w2, NEW t, NEW d, IsFiniteSet(DOMAIN w), AllIntegers(w),
           AllIntegers(d), Held(v, w), Raised(v, v2, d), Moved(w, w2, t, d)
    PROVE  Held(v2, w2)
<1>. SUFFICES ASSUME NEW a \in DOMAIN v PROVE v2[a] = GroupSum(w2, a)
  BY DEF Held, Raised
<1>1. v[a] = GroupSum(w, a)
  BY DEF Held
<1>2. CASE a \in DOMAIN d
  <2>1. /\ \A k : k[1] = a => (k \in DOMAIN w2 <=> k \in DOMAIN w \/ k = <<a, t>>)
        /\ \A k \in DOMAIN w : k[1] = a /\ k # <<a, t>> => w2[k] = w[k]
        /\ w2[<<a, t>>] = Before(w, <<a, t>>) + d[a]
        /\ d[a] \in Int
    BY <1>2 DEF Moved, AllIntegers
  <2>2. GroupSum(w2, a) = GroupSum(w, a) + d[a]
    BY <2>1, GroupPut
  <2>. QED  BY <1>1, <1>2, <2>2 DEF Raised
<1>3. CASE a \notin DOMAIN d BY <1>3, GroupSame, <1>1 DEF Moved, Raised
<1>. QED  BY <1>2, <1>3

\* A value more, with an empty group.
LEMMA HeldAdded ==
    ASSUME NEW v, NEW v2, NEW w, NEW a, DOMAIN v2 = DOMAIN v \cup {a}, v2[a] = 0,
           \A b \in DOMAIN v : v2[b] = v[b], a \notin DOMAIN v,
           \A k \in DOMAIN w : k[1] # a, Held(v, w)
    PROVE  Held(v2, w)
BY GroupEmpty DEF Held

\* f has the values of g, at the pairs with t.
PairsOf(f, g, t) == /\ DOMAIN f = (DOMAIN g) \X {t}
                    /\ \A a \in DOMAIN g : f[<<a, t>>] = g[a]

\* Then it has the same sum.
LEMMA SumOfPairs ==
    ASSUME NEW f, NEW g, NEW t, IsFiniteSet(DOMAIN g), AllIntegers(g), PairsOf(f, g, t)
    PROVE  SumFunction(f) = SumFunction(g)
<1>. DEFINE B == DOMAIN g
            sum(s) == SumFunctionOnSet(f, s \X {t}) = SumFunctionOnSet(g, s)
            G == {s \in SUBSET B : sum(s)}
<1>0. \A s \in SUBSET B : IsFiniteSet(s) /\ IsFiniteSet(s \X {t})
  BY FS_Subset, FS_Product, FS_Singleton
<1>1. ASSUME NEW s \in SUBSET B, \A u \in SUBSET s : u # s => u \in G PROVE sum(s)
  <2>1. CASE s = {} BY <2>1, SumEmpty
  <2>2. CASE s # {}
    <3>1. PICK a : a \in s
      BY <2>2
    <3>. DEFINE r == s \ {a}  big == s \X {t}  small == r \X {t}
    <3>2. sum(r)
      BY <1>1, <3>1
    <3>3. /\ <<a, t>> \in big /\ big \ {<<a, t>>} = small
          /\ \A x \in big : f[x] \in Int
          /\ \A x \in s : g[x] \in Int
          /\ f[<<a, t>>] = g[a]
      BY <3>1 DEF AllIntegers, PairsOf
    <3>4. IsFiniteSet(big) /\ IsFiniteSet(s)
      BY <1>0
    <3>. HIDE DEF big, small
    <3>5. SumFunctionOnSet(f, big) = f[<<a, t>>] + SumFunctionOnSet(f, big \ {<<a, t>>})
      BY <3>3, <3>4, SumRemove
    <3>6. SumFunctionOnSet(g, s) = g[a] + SumFunctionOnSet(g, s \ {a})
      BY <3>1, <3>3, <3>4, SumRemove
    <3>. QED  BY <3>2, <3>3, <3>5, <3>6 DEF big, small
  <2>. QED  BY <2>1, <2>2
<1>2. G \in SUBSET SUBSET B  OBVIOUS
<1>3. \A s \in SUBSET B : (\A u \in SUBSET s : u # s => u \in G) => s \in G
  BY <1>1
<1>4. B \in G
  <2>. HIDE DEF G
  <2>. QED  BY <1>2, <1>3, FiniteInduction
<1>. QED  BY <1>4 DEF SumFunction, PairsOf

-----------------------------------------------------------------------------
(* Arithmetic. *)

\* Division by a positive number keeps the order.
LEMMA DivOrdered ==
    ASSUME NEW a \in Nat, NEW b \in Nat, a <= b, NEW n \in Nat, n # 0
    PROVE  a \div n \in Nat /\ b \div n \in Nat /\ a \div n <= b \div n
<1>1. /\ a \div n \in Int /\ b \div n \in Int /\ a % n \in 0 .. n - 1 /\ b % n \in 0 .. n - 1
      /\ a = n * (a \div n) + (a % n) /\ b = n * (b \div n) + (b % n)
  OBVIOUS
<1>2. a \div n \in Nat /\ b \div n \in Nat
  OBVIOUS
<1>. DEFINE x == a \div n  y == b \div n
<1>. HIDE DEF x, y
<1>3. ASSUME x > y PROVE FALSE BY <1>2, <1>3, <1>1 DEF x, y
<1>. QED  BY <1>2, <1>3 DEF x, y

-----------------------------------------------------------------------------
(* Tables of counters, added up.                                           *)

\* A total is the library's sum of a column.
LEMMA TotalIsColumn == ASSUME NEW f, NEW c PROVE Total(f, c) = SumFunction(Column(f, c))
BY DEF Total, SumOver, Column

\* Every row of the table has these counters, all integers.
CountersTyped(table, fields) ==
    /\ IsFiniteSet(DOMAIN table)
    /\ \A k \in DOMAIN table : DOMAIN table[k] = fields /\ \A c \in fields : table[k][c] \in Int

\* Table g has the totals of f and the amounts of delta.
TotalsRaised(g, f, fields, delta) ==
    \A c \in fields :
       /\ Total(f, c) \in Int
       /\ Total(g, c) = Total(f, c) + (IF c \in DOMAIN delta THEN delta[c] ELSE 0)

\* Adding to one row, new or not, adds to the totals.
LEMMA TotalAddTo ==
    ASSUME NEW f, NEW fields, CountersTyped(f, fields), NEW k, NEW delta,
           AllIntegers(delta), NEW g, g = AddTo(f, k, fields, delta)
    PROVE  /\ CountersTyped(g, fields) /\ DOMAIN g = DOMAIN f \cup {k}
           /\ TotalsRaised(g, f, fields, delta)
<1>1. PICK row : row = LoadOr(f, k, Zeros(fields)) OBVIOUS
<1>2. DOMAIN row = fields /\ \A c \in fields : row[c] \in Int
  BY <1>1 DEF LoadOr, Zeros, CountersTyped
<1>3. PICK next : next = Add(row, delta) OBVIOUS
<1>4. /\ DOMAIN next = fields
      /\ \A c \in fields : /\ next[c] = row[c] + (IF c \in DOMAIN delta THEN delta[c] ELSE 0)
                           /\ next[c] \in Int
  BY <1>2, <1>3 DEF Add, AllIntegers
<1>5. g = Put(f, k, next) BY <1>1, <1>3 DEF AddTo
<1>6. /\ DOMAIN g = DOMAIN f \cup {k} /\ g[k] = next
      /\ \A j \in DOMAIN f \ {k} : g[j] = f[j]
  BY <1>5 DEF Put
<1>7. IsFiniteSet(DOMAIN f) BY DEF CountersTyped
<1>8. IsFiniteSet(DOMAIN g) BY ONLY <1>6, <1>7, FS_AddElement
<1>9. CountersTyped(g, fields) BY <1>4, <1>6, <1>8 DEF CountersTyped
<1>10. ASSUME NEW c \in fields
       PROVE  /\ Total(f, c) \in Int
              /\ Total(g, c) = Total(f, c) + (IF c \in DOMAIN delta THEN delta[c] ELSE 0)
  <2>1. PICK a, b : a = Column(f, c) /\ b = Column(g, c) OBVIOUS
  <2>2. /\ DOMAIN a = DOMAIN f /\ \A j \in DOMAIN f : a[j] = f[j][c]
        /\ DOMAIN b = DOMAIN g /\ \A j \in DOMAIN g : b[j] = g[j][c]
    BY <2>1 DEF Column
  <2>3. /\ IsFiniteSet(DOMAIN a) /\ DOMAIN b = DOMAIN a \cup {k} /\ b[k] \in Int
        /\ \A j \in DOMAIN a : a[j] \in Int
        /\ \A j \in DOMAIN a \ {k} : b[j] = a[j]
    BY <1>4, <1>6, <1>7, <2>2 DEF CountersTyped
  <2>4. /\ SumFunction(b) = SumFunction(a) + b[k] - (IF k \in DOMAIN a THEN a[k] ELSE 0)
        /\ SumFunction(a) \in Int
    BY ONLY <2>3, SumPut
  <2>5. row[c] = IF k \in DOMAIN a THEN a[k] ELSE 0
    BY <1>1, <2>2 DEF LoadOr, Zeros
  <2>6. b[k] = row[c] + (IF c \in DOMAIN delta THEN delta[c] ELSE 0) BY <1>4, <1>6, <2>2
  <2>7. row[c] \in Int /\ (IF c \in DOMAIN delta THEN delta[c] ELSE 0) \in Int
    BY <1>2 DEF AllIntegers
  <2>8. SumFunction(b) = SumFunction(a) + (IF c \in DOMAIN delta THEN delta[c] ELSE 0)
    BY ONLY <2>4, <2>5, <2>6, <2>7
  <2>. QED  BY <2>1, <2>4, <2>8, TotalIsColumn
<1>. QED  BY <1>6, <1>9, <1>10 DEF TotalsRaised

\* The counter c of the rows whose ids are in K, added up.
KeptSum(f, K, c) == SumFunction([k \in (DOMAIN f) \cap K |-> f[k][c]])

\* The counter c of the row under id k, zero without a row.
RowOf(f, k, c) == IF k \in DOMAIN f THEN f[k][c] ELSE 0

\* The counter c of every row is an integer.
CounterTyped(f, c) == IsFiniteSet(DOMAIN f) /\ \A j \in DOMAIN f : f[j][c] \in Int

\* Table g is f with the counter c of row k raised by n.
RowRaised(g, f, k, c, n) ==
    /\ DOMAIN g = DOMAIN f \cup {k} /\ \A j \in DOMAIN f \ {k} : g[j] = f[j]
    /\ g[k][c] = RowOf(f, k, c) + n

\* A row whose counter c grows by n adds n to the sums it is in, and nothing to others.
LEMMA KeptPut ==
    ASSUME NEW f, NEW g, NEW k, NEW c, NEW n \in Int, CounterTyped(f, c), RowRaised(g, f, k, c, n),
           NEW K
    PROVE  /\ KeptSum(f, K, c) \in Int
           /\ KeptSum(g, K, c) = KeptSum(f, K, c) + (IF k \in K THEN n ELSE 0)
<1>1. PICK a : a = [j \in (DOMAIN f) \cap K |-> f[j][c]] OBVIOUS
<1>2. PICK b : b = [j \in (DOMAIN g) \cap K |-> g[j][c]] OBVIOUS
<1>3. /\ DOMAIN a = (DOMAIN f) \cap K /\ \A j \in DOMAIN a : a[j] = f[j][c] /\ a[j] \in Int
      /\ DOMAIN b = (DOMAIN g) \cap K /\ \A j \in DOMAIN b : b[j] = g[j][c]
  BY <1>1, <1>2 DEF CounterTyped
<1>4. IsFiniteSet(DOMAIN a) BY <1>3, FS_Subset DEF CounterTyped
<1>5. KeptSum(f, K, c) = SumFunction(a) /\ KeptSum(g, K, c) = SumFunction(b)
  BY <1>1, <1>2 DEF KeptSum
<1>6. SumFunction(a) \in Int BY <1>3, <1>4, SumFunctionType
<1>7. RowOf(f, k, c) \in Int BY DEF RowOf, CounterTyped
<1>8. CASE k \in K
  <2>1. /\ IsFiniteSet(DOMAIN a) /\ DOMAIN b = DOMAIN a \cup {k} /\ b[k] \in Int
        /\ \A j \in DOMAIN a : a[j] \in Int
        /\ \A j \in DOMAIN a \ {k} : b[j] = a[j]
    BY <1>3, <1>4, <1>7, <1>8 DEF RowRaised
  <2>2. /\ SumFunction(b) = SumFunction(a) + b[k] - (IF k \in DOMAIN a THEN a[k] ELSE 0)
        /\ SumFunction(a) \in Int
    BY ONLY <2>1, SumPut
  <2>3. RowOf(f, k, c) = IF k \in DOMAIN a THEN a[k] ELSE 0 BY <1>3, <1>8 DEF RowOf
  <2>4. b[k] = RowOf(f, k, c) + n BY <1>3, <1>8 DEF RowRaised
  <2>5. SumFunction(b) = SumFunction(a) + n
    BY ONLY <1>6, <1>7, <2>2, <2>3, <2>4, n \in Int
  <2>. QED  BY <1>5, <1>6, <1>8, <2>5
<1>9. CASE k \notin K BY <1>3, <1>9, <1>1, <1>2, <1>5, <1>6 DEF RowRaised
<1>. QED  BY <1>8, <1>9

\* Adding to one row adds to the sums that row is in, and to no other.
LEMMA KeptAddTo ==
    ASSUME NEW f, NEW fields, CountersTyped(f, fields), NEW k, NEW delta, AllIntegers(delta),
           NEW g, g = AddTo(f, k, fields, delta), NEW K, NEW c \in fields
    PROVE  /\ KeptSum(f, K, c) \in Int
           /\ KeptSum(g, K, c) = KeptSum(f, K, c)
                 + (IF k \in K /\ c \in DOMAIN delta THEN delta[c] ELSE 0)
<1>1. PICK row : row = LoadOr(f, k, Zeros(fields)) OBVIOUS
<1>2. PICK n : n = IF c \in DOMAIN delta THEN delta[c] ELSE 0 OBVIOUS
<1>3. n \in Int BY <1>2 DEF AllIntegers
<1>4. DOMAIN row = fields /\ row[c] = RowOf(f, k, c) /\ row[c] \in Int
  BY <1>1 DEF LoadOr, Zeros, CountersTyped, RowOf
<1>5. /\ DOMAIN g = DOMAIN f \cup {k} /\ g[k] = Add(row, delta)
      /\ \A j \in DOMAIN f \ {k} : g[j] = f[j]
  BY <1>1 DEF AddTo, Put
<1>6. g[k][c] = RowOf(f, k, c) + n BY <1>2, <1>4, <1>5 DEF Add
<1>7. CounterTyped(f, c) BY DEF CountersTyped, CounterTyped
<1>8. RowRaised(g, f, k, c, n) BY <1>5, <1>6 DEF RowRaised
<1>9. /\ KeptSum(f, K, c) \in Int
      /\ KeptSum(g, K, c) = KeptSum(f, K, c) + (IF k \in K THEN n ELSE 0)
  BY <1>3, <1>7, <1>8, KeptPut
<1>. QED  BY <1>2, <1>9

\* Adding to one row adds to that row and to no other.
LEMMA RowAddTo ==
    ASSUME NEW f, NEW fields, CountersTyped(f, fields), NEW k, NEW delta, AllIntegers(delta),
           NEW g, g = AddTo(f, k, fields, delta), NEW j, NEW c \in fields
    PROVE  /\ RowOf(f, j, c) \in Int
           /\ RowOf(g, j, c) = RowOf(f, j, c)
                 + (IF j = k /\ c \in DOMAIN delta THEN delta[c] ELSE 0)
BY DEF LoadOr, Zeros, CountersTyped, RowOf, AddTo, Put, Add

\* The sum of an empty part of a table.
LEMMA KeptNone ==
    ASSUME NEW f, NEW K, NEW c, (DOMAIN f) \cap K = {} PROVE KeptSum(f, K, c) = 0
BY SumOfNone DEF KeptSum

\* A table without rows has counters of any names and totals of nothing.
LEMMA TotalNone ==
    ASSUME NEW f, DOMAIN f = {}
    PROVE  /\ \A fields : CountersTyped(f, fields)
           /\ \A c : Total(f, c) = 0
<1>1. ASSUME NEW c PROVE Total(f, c) = 0 BY SumOfNone, TotalIsColumn DEF Column
<1>2. ASSUME NEW fields PROVE CountersTyped(f, fields) BY FS_EmptySet DEF CountersTyped
<1>. QED  BY <1>1, <1>2

-----------------------------------------------------------------------------
(* Averages.                                                               *)

\* A weight more.
LEMMA WeightMore ==
    ASSUME NEW lo \in Int, NEW hi \in Int, NEW p \in Int, NEW w \in Nat, NEW W \in Int, NEW Q \in Int,
           lo <= p, p <= hi, lo * W <= Q, Q <= hi * W
    PROVE  lo * (w + W) <= p * w + Q /\ p * w + Q <= hi * (w + W)
BY Q \in Int

\* Values between two bounds, weighted, lie between the bounds weighted.
LEMMA WeightedBetween ==
    ASSUME NEW p, NEW w, NEW q, NEW S, IsFiniteSet(S), NEW lo \in Int, NEW hi \in Int,
           \A x \in S : /\ p[x] \in Int /\ w[x] \in Nat /\ lo <= p[x] /\ p[x] <= hi
                        /\ q[x] = p[x] * w[x]
    PROVE  /\ lo * SumFunctionOnSet(w, S) <= SumFunctionOnSet(q, S)
           /\ SumFunctionOnSet(q, S) <= hi * SumFunctionOnSet(w, S)
           /\ SumFunctionOnSet(w, S) \in Nat /\ SumFunctionOnSet(q, S) \in Int
<1>. DEFINE W(s) == SumFunctionOnSet(w, s)
            Q(s) == SumFunctionOnSet(q, s)
            G == {s \in SUBSET S : lo * W(s) <= Q(s) /\ Q(s) <= hi * W(s)}
<1>1. ASSUME NEW s \in SUBSET S PROVE W(s) \in Nat /\ Q(s) \in Int BY FS_Subset, SumType
<1>2. ASSUME NEW s \in SUBSET S, \A u \in SUBSET s : u # s => u \in G PROVE s \in G
  <2>1. CASE s = {} BY <2>1, SumEmpty
  <2>2. CASE s # {}
    <3>1. PICK x : x = FirstOf(s) OBVIOUS
    <3>2. PICK r : r = s \ {x} OBVIOUS
    <3>3. x \in s /\ r \in SUBSET s /\ r # s BY <2>2, <3>1, <3>2, FirstOfIn
    <3>4. IsFiniteSet(s) BY FS_Subset
    <3>5. W(s) = w[x] + W(r) /\ Q(s) = q[x] + Q(r)
      BY <2>2, <3>1, <3>2, <3>4, SumFirst
    <3>6. r \in G BY <1>2, <3>3
    <3>7. W(r) \in Nat /\ Q(r) \in Int /\ lo * W(r) <= Q(r) /\ Q(r) <= hi * W(r)
      BY <1>1, <3>3, <3>6
    <3>8. /\ p[x] \in Int /\ w[x] \in Nat /\ lo <= p[x] /\ p[x] <= hi /\ q[x] = p[x] * w[x]
      BY <3>3
    <3>. HIDE DEF W, Q
    <3>9. PICK a, b, c, d : a = p[x] /\ b = w[x] /\ c = W(r) /\ d = Q(r) OBVIOUS
    <3>10. /\ a \in Int /\ b \in Nat /\ c \in Int /\ d \in Int
           /\ lo <= a /\ a <= hi /\ lo * c <= d /\ d <= hi * c
      BY ONLY <3>7, <3>8, <3>9
    <3>11. lo * (b + c) <= a * b + d /\ a * b + d <= hi * (b + c)
      BY ONLY <3>10, WeightMore, lo \in Int, hi \in Int
    <3>12. W(s) = b + c /\ Q(s) = a * b + d BY <3>5, <3>8, <3>9
    <3>13. lo * W(s) <= Q(s) /\ Q(s) <= hi * W(s) BY ONLY <3>11, <3>12
    <3>. QED  BY <3>13
  <2>. QED  BY <2>1, <2>2
<1>. HIDE DEF G
<1>3. G \in SUBSET SUBSET S BY DEF G
<1>4. S \in G BY <1>2, <1>3, FiniteInduction
<1>. QED  BY <1>1, <1>4 DEF G

\* Ones add up to the number of them.
LEMMA SumOfOnes ==
    ASSUME NEW f, NEW S, IsFiniteSet(S), \A x \in S : f[x] = 1
    PROVE  SumFunctionOnSet(f, S) = Cardinality(S)
<1>. DEFINE sum(s) == SumFunctionOnSet(f, s)
            G == {s \in SUBSET S : sum(s) = Cardinality(s)}
<1>1. ASSUME NEW s \in SUBSET S, \A u \in SUBSET s : u # s => u \in G PROVE s \in G
  <2>1. CASE s = {} BY <2>1, SumEmpty, FS_EmptySet
  <2>2. CASE s # {}
    <3>1. PICK x : x = FirstOf(s) OBVIOUS
    <3>2. PICK r : r = s \ {x} OBVIOUS
    <3>3. x \in s /\ r \in SUBSET s /\ r # s BY <2>2, <3>1, <3>2, FirstOfIn
    <3>4. IsFiniteSet(s) BY FS_Subset
    <3>5. sum(s) = f[x] + sum(r) BY <2>2, <3>1, <3>2, <3>4, SumFirst
    <3>6. sum(r) = Cardinality(r) BY <1>1, <3>3
    <3>7. Cardinality(s) \in Nat /\ Cardinality(r) = Cardinality(s) - 1
      BY <3>2, <3>3, <3>4, FS_CardinalityType, FS_RemoveElement
    <3>8. f[x] = 1 BY <3>3
    <3>. HIDE DEF sum
    <3>9. sum(s) = Cardinality(s) BY <3>5, <3>6, <3>7, <3>8
    <3>. QED  BY <3>9
  <2>. QED  BY <2>1, <2>2
<1>. HIDE DEF G
<1>2. G \in SUBSET SUBSET S BY DEF G
<1>3. S \in G BY <1>1, <1>2, FiniteInduction
<1>. QED  BY <1>3 DEF G

\* A quotient lies between the bounds of what is divided.
LEMMA QuotientBetween ==
    ASSUME NEW lo \in Int, NEW hi \in Int, NEW Q \in Int, NEW W \in Nat, W > 0,
           lo * W <= Q, Q <= hi * W
    PROVE  Q \div W \in Int /\ lo <= Q \div W /\ Q \div W <= hi
BY W \in Nat, W > 0

-----------------------------------------------------------------------------
(* Logs that wait to be handled.  Below, l are the logs, n an item with    *)
(* increases and decreases, p its price, r the item on the chain and rows  *)
(* the store's rows of such items, each under the key of its home.         *)

Positives == Nat \ {0}

IsIncrease(e, n) == e.event = "Increase" /\ e.id = n
IsDecrease(e, n) == e.event = "Decrease" /\ e.id = n
IsFlow(e, n) == IsIncrease(e, n) \/ IsDecrease(e, n)

\* What a log adds to the entry.
PutBy(e, n, p) == IF IsIncrease(e, n) THEN e.amount * p ELSE 0

\* Its row: under its key, its entry, and whether it is active.
KeyOf(n, r) == <<r.home, n>>

EntryOf(n, r, rows) == IF KeyOf(n, r) \in DOMAIN rows THEN rows[KeyOf(n, r)].entry ELSE 0

ActiveRow(n, r, rows) == KeyOf(n, r) \in DOMAIN rows /\ rows[KeyOf(n, r)].active

\* What the logs add to an entry leads from first to last.
Adds(n, first, last, p, l) ==
    \E sum \in [0..Len(l) -> Int] :
       /\ sum[0] = first /\ sum[Len(l)] = last
       /\ \A i \in 1..Len(l) : sum[i] = sum[i - 1] + PutBy(l[i], n, p)

\* The first log is handled: k are the logs after it.
TailOf(l, k) ==
    /\ Len(l) \in Nat /\ Len(k) \in Nat /\ Len(l) = Len(k) + 1
    /\ \A i \in 1..Len(k) : k[i] = l[i + 1]

LEMMA TailIsTailOf ==
    ASSUME NEW S, NEW l \in Seq(S), l # <<>>
    PROVE  /\ TailOf(l, Tail(l)) /\ Tail(l) \in Seq(S) /\ Head(l) = l[1] /\ l[1] \in S
BY EmptySeq DEF TailOf

\* A log but the first is among those after it.
LEMMA TailPlaces ==
    ASSUME NEW l, NEW k, TailOf(l, k)
    PROVE  /\ \A i \in 1..Len(k) : i + 1 \in 1..Len(l) /\ k[i] = l[i + 1]
           /\ \A i \in 1..Len(l) : i = 1 \/ \E u \in 1..Len(k) : i = u + 1 /\ k[u] = l[i]
BY DEF TailOf

LEMMA AddsAfter ==
    ASSUME NEW n, NEW first, NEW last, NEW p, NEW l, NEW k, Adds(n, first, last, p, l),
           TailOf(l, k)
    PROVE  Adds(n, first + PutBy(l[1], n, p), last, p, k)
<1>1. PICK sum \in [0..Len(l) -> Int] :
         /\ sum[0] = first /\ sum[Len(l)] = last
         /\ \A i \in 1..Len(l) : sum[i] = sum[i - 1] + PutBy(l[i], n, p)
  BY DEF Adds
<1>2. /\ Len(l) \in Nat /\ Len(k) \in Nat /\ Len(l) = Len(k) + 1
      /\ \A i \in 1..Len(k) : k[i] = l[i + 1]
  BY DEF TailOf
<1>3. sum[1] = first + PutBy(l[1], n, p)
  <2>1. 1 \in 1..Len(l) /\ 1 - 1 = 0 BY <1>2
  <2>. QED  BY <1>1, <2>1
<1>4. PICK rest : rest = [i \in 0..Len(k) |-> sum[i + 1]] OBVIOUS
<1>5. rest \in [0..Len(k) -> Int] /\ \A i \in 0..Len(k) : rest[i] = sum[i + 1] BY <1>1, <1>2, <1>4
<1>6. rest[0] = first + PutBy(l[1], n, p) /\ rest[Len(k)] = last BY <1>1, <1>2, <1>3, <1>5
<1>7. ASSUME NEW i \in 1..Len(k) PROVE rest[i] = rest[i - 1] + PutBy(k[i], n, p)
  <2>1. i + 1 \in 1..Len(l) /\ k[i] = l[i + 1] /\ i - 1 \in 0..Len(k) /\ i \in 0..Len(k)
        /\ (i + 1) - 1 = i /\ (i - 1) + 1 = i
    BY <1>2
  <2>2. sum[i + 1] = sum[(i + 1) - 1] + PutBy(l[i + 1], n, p) BY <1>1, <2>1
  <2>. QED  BY <1>5, <2>1, <2>2
<1>. QED  BY <1>5, <1>6, <1>7 DEF Adds

\* Logs are appended: k are the logs l and more.
Extends(l, k) ==
    /\ Len(l) \in Nat /\ Len(k) \in Nat /\ Len(l) <= Len(k)
    /\ \A i \in 1..Len(l) : k[i] = l[i]
After(l, k) == (Len(l) + 1)..Len(k)

LEMMA ExtendsPlaces ==
    ASSUME NEW l, NEW k, Extends(l, k)
    PROVE  /\ \A i \in 1..Len(l) : i \in 1..Len(k) /\ k[i] = l[i]
           /\ \A i \in 1..Len(k) : i \in 1..Len(l) \/ i \in After(l, k)
           /\ \A i \in After(l, k) : i \in 1..Len(k)
BY DEF Extends, After

LEMMA AddsMore ==
    ASSUME NEW n, NEW first, NEW last, NEW p, NEW l, NEW k, Adds(n, first, last, p, l),
           Extends(l, k), Len(k) = Len(l) + 1, PutBy(k[Len(k)], n, p) \in Int
    PROVE  Adds(n, first, last + PutBy(k[Len(k)], n, p), p, k)
<1>1. PICK sum \in [0..Len(l) -> Int] :
         /\ sum[0] = first /\ sum[Len(l)] = last
         /\ \A i \in 1..Len(l) : sum[i] = sum[i - 1] + PutBy(l[i], n, p)
  BY DEF Adds
<1>2. /\ Len(l) \in Nat /\ Len(k) \in Nat /\ Len(k) = Len(l) + 1
      /\ \A i \in 1..Len(l) : k[i] = l[i]
  BY DEF Extends
<1>3. PICK added : added = PutBy(k[Len(k)], n, p) OBVIOUS
<1>4. added \in Int /\ last \in Int BY <1>1, <1>2, <1>3
<1>5. PICK more : more = [i \in 0..Len(k) |-> IF i = Len(k) THEN last + added ELSE sum[i]] OBVIOUS
<1>6. /\ \A i \in 0..Len(l) : i \in 0..Len(k) /\ i # Len(k) /\ more[i] = sum[i] /\ sum[i] \in Int
      /\ more[Len(k)] = last + added
  BY <1>1, <1>2, <1>5
<1>7. more \in [0..Len(k) -> Int]
  <2>1. \A i \in 0..Len(k) : i = Len(k) \/ i \in 0..Len(l) BY <1>2
  <2>. QED  BY <1>4, <1>5, <1>6, <2>1
<1>8. more[0] = first BY <1>1, <1>2, <1>6
<1>9. ASSUME NEW i \in 1..Len(k) PROVE more[i] = more[i - 1] + PutBy(k[i], n, p)
  <2>1. CASE i \in 1..Len(l)
    <3>1. i \in 0..Len(l) /\ i - 1 \in 0..Len(l) BY <1>2, <2>1
    <3>. QED  BY <1>1, <1>2, <1>6, <2>1, <3>1
  <2>2. CASE i \notin 1..Len(l)
    <3>1. i = Len(k) /\ i - 1 = Len(l) /\ Len(l) \in 0..Len(l) BY <1>2, <2>2
    <3>. QED  BY <1>1, <1>3, <1>6, <3>1
  <2>. QED  BY <2>1, <2>2
<1>. QED  BY <1>3, <1>6, <1>7, <1>8, <1>9 DEF Adds

LEMMA AddsNothing ==
    ASSUME NEW n, NEW first \in Int, NEW p, NEW l, Len(l) \in Nat,
           \A i \in 1..Len(l) : ~IsIncrease(l[i], n)
    PROVE  Adds(n, first, first, p, l)
<1>1. PICK sum : sum = [i \in 0..Len(l) |-> first] OBVIOUS
<1>2. sum \in [0..Len(l) -> Int] /\ sum[0] = first /\ sum[Len(l)] = first BY <1>1
<1>3. ASSUME NEW i \in 1..Len(l) PROVE sum[i] = sum[i - 1] + PutBy(l[i], n, p)
  BY <1>3, <1>1 DEF PutBy
<1>. QED  BY <1>2, <1>3 DEF Adds

\* Logs that add nothing.
LEMMA AddsQuietly ==
    ASSUME NEW n, NEW first, NEW last, NEW p, NEW l, NEW k, Adds(n, first, last, p, l),
           Extends(l, k), \A i \in After(l, k) : ~IsIncrease(k[i], n)
    PROVE  Adds(n, first, last, p, k)
<1>1. PICK sum \in [0..Len(l) -> Int] :
         /\ sum[0] = first /\ sum[Len(l)] = last
         /\ \A i \in 1..Len(l) : sum[i] = sum[i - 1] + PutBy(l[i], n, p)
  BY DEF Adds
<1>2. /\ Len(l) \in Nat /\ Len(k) \in Nat /\ Len(l) <= Len(k)
      /\ \A i \in 1..Len(l) : k[i] = l[i]
  BY DEF Extends
<1>3. last \in Int BY <1>1, <1>2
<1>4. PICK more : more = [i \in 0..Len(k) |-> IF i > Len(l) THEN last ELSE sum[i]] OBVIOUS
<1>5. /\ \A i \in 0..Len(l) : more[i] = sum[i] /\ sum[i] \in Int
      /\ \A i \in Len(l)..Len(k) : more[i] = last
  <2>1. ASSUME NEW i \in 0..Len(l) PROVE more[i] = sum[i] /\ sum[i] \in Int BY <1>2, <1>1, <1>4
  <2>2. ASSUME NEW i \in Len(l)..Len(k) PROVE more[i] = last BY <1>2, <1>1, <1>4
  <2>. QED  BY ONLY <2>1, <2>2
<1>6. more \in [0..Len(k) -> Int] BY <1>2, <1>3, <1>4, <1>5
<1>7. more[0] = first /\ more[Len(k)] = last BY <1>2, <1>1, <1>5
<1>8. ASSUME NEW i \in 1..Len(k) PROVE more[i] = more[i - 1] + PutBy(k[i], n, p)
  <2>1. CASE i \in 1..Len(l) BY <1>2, <2>1, <1>1, <1>5
  <2>2. CASE i \notin 1..Len(l) BY <1>2, <2>2, <1>3, <1>5 DEF After, PutBy
  <2>. QED  BY <2>1, <2>2
<1>. QED  BY <1>6, <1>7, <1>8 DEF Adds

Joined(l, es, k) == k = l \o es

LEMMA Concatenated ==
    ASSUME NEW S, NEW l \in Seq(S), NEW es \in Seq(S), NEW k, Joined(l, es, k)
    PROVE  /\ k \in Seq(S) /\ Extends(l, k) /\ Len(k) = Len(l) + Len(es)
           /\ \A j \in 1..Len(es) : k[Len(l) + j] = es[j]
           /\ \A i \in After(l, k) : \E j \in 1..Len(es) : k[i] = es[j]
<1>1. /\ Len(l) \in Nat /\ Len(es) \in Nat /\ k \in Seq(S) /\ Len(k) = Len(l) + Len(es)
      /\ \A i \in 1..Len(k) : k[i] = IF i <= Len(l) THEN l[i] ELSE es[i - Len(l)]
  BY ConcatProperties DEF Joined
<1>2. Extends(l, k) BY <1>1 DEF Extends
<1>3. ASSUME NEW j \in 1..Len(es) PROVE k[Len(l) + j] = es[j]
  <2>1. PICK i : i = Len(l) + j OBVIOUS
  <2>2. i \in 1..Len(k) /\ ~(i <= Len(l)) /\ i - Len(l) = j BY <1>1, <2>1
  <2>. QED  BY <1>1, <2>1, <2>2
<1>4. ASSUME NEW i \in After(l, k) PROVE \E j \in 1..Len(es) : k[i] = es[j] BY <1>1 DEF After
<1>. QED  BY <1>1, <1>2, <1>3, <1>4
=============================================================================
