----------------------------- MODULE FoldLemmas -----------------------------
(***************************************************************************)
(* Sums over finite sets: what aggregateIPStats computes in Go is a sum    *)
(* over the flows of a pass, and SumFunction is its TLA+.  The operator is *)
(* defined by recursion over subsets, in an order CHOOSE fixes; the lemmas *)
(* say that the order is irrelevant and compare sums over different sets.  *)
(*                                                                         *)
(* The induction is by contradiction on a smallest counterexample: if any  *)
(* subset of a finite set is bad, some bad subset has no bad proper part.  *)
(***************************************************************************)
EXTENDS Naturals, Functions, FiniteSetTheorems, TLAPS

(* The recursive function in the definition of MapThenFoldSet. *)
Partial(g, S) ==
  CHOOSE F : F = [s \in SUBSET S |->
                    IF s = {} THEN 0
                    ELSE LET x == CHOOSE x \in s : TRUE IN g[x] + F[s \ {x}]]

(* F computes the sums over the subsets of S. *)
IsPartial(F, g, S) ==
  F = [s \in SUBSET S |->
         IF s = {} THEN 0
         ELSE LET x == CHOOSE x \in s : TRUE IN g[x] + F[s \ {x}]]

-----------------------------------------------------------------------------
(* SumFunctionOnSet is that function, taken at the whole set. *)
LEMMA SumIsPartial ==
  ASSUME NEW g, NEW S
  PROVE  SumFunctionOnSet(g, S) = Partial(g, S)[S]
BY DEF SumFunctionOnSet, FoldFunctionOnSet, MapThenFoldSet, Partial

LEMMA SmallestBadSubset ==
  ASSUME NEW S, IsFiniteSet(S), NEW Bad, Bad \subseteq SUBSET S, Bad # {}
  PROVE  \E T \in Bad : \A U \in SUBSET T : U # T => U \notin Bad
<1>1. IsWellFoundedOn(StrictSubsetOrdering(S), SUBSET S)
  BY FS_StrictSubsetOrderingWellFounded, FS_FiniteSubsetsOfFinite
<1>2. PICK T \in Bad : \A U \in Bad : ~(<<U, T>> \in StrictSubsetOrdering(S))
  <2> HIDE DEF StrictSubsetOrdering
  <2> QED  BY <1>1, WFMin
<1>3. ASSUME NEW U \in SUBSET T, U # T, U \in Bad
      PROVE  FALSE
  <2>1. <<U, T>> \in StrictSubsetOrdering(S)
    BY <1>3 DEF StrictSubsetOrdering
  <2> QED  BY <1>2, <1>3, <2>1
<1> QED  BY <1>2, <1>3

(* Two such functions agree wherever both are defined. *)
LEMMA PartialUnique ==
  ASSUME NEW S, IsFiniteSet(S), NEW R, NEW g, NEW F, NEW G,
         IsPartial(F, g, S), IsPartial(G, g, R),
         NEW s, s \subseteq S, s \subseteq R
  PROVE  F[s] = G[s]
<1> DEFINE Bad == {u \in SUBSET S : u \subseteq R /\ F[u] # G[u]}
<1>1. SUFFICES ASSUME Bad # {} PROVE FALSE
  OBVIOUS
<1>2. PICK u \in Bad : \A v \in SUBSET u : v # u => v \notin Bad
  <2>1. Bad \subseteq SUBSET S
    OBVIOUS
  <2> HIDE DEF Bad
  <2> QED  BY <1>1, <2>1, SmallestBadSubset
<1>3. u # {}
  BY <1>2 DEF IsPartial
<1> DEFINE x == CHOOSE x \in u : TRUE
<1>4. x \in u
  BY <1>3
<1>5. F[u] = g[x] + F[u \ {x}] /\ G[u] = g[x] + G[u \ {x}]
  <2>1. u \in SUBSET S /\ u \in SUBSET R
    BY <1>2
  <2> QED  BY <1>3, <2>1 DEF IsPartial
<1>6. F[u \ {x}] = G[u \ {x}]
  <2> HIDE DEF x
  <2> QED  BY <1>2, <1>4
<1> QED
  BY <1>2, <1>5, <1>6

(* There is one for every finite set. *)
LEMMA PartialExists ==
  ASSUME NEW S, IsFiniteSet(S), NEW g
  PROVE  IsPartial(Partial(g, S), g, S)
<1> DEFINE Bad == {T \in SUBSET S : ~IsPartial(Partial(g, T), g, T)}
<1>1. SUFFICES ASSUME Bad # {} PROVE FALSE
  OBVIOUS
<1>2. PICK T \in Bad : \A U \in SUBSET T : U # T => U \notin Bad
  <2>1. Bad \subseteq SUBSET S
    OBVIOUS
  <2> HIDE DEF Bad
  <2> QED  BY <1>1, <2>1, SmallestBadSubset
<1>3. \A U \in SUBSET T : U # T => IsPartial(Partial(g, U), g, U)
  BY <1>2
<1>4. T \in SUBSET S /\ ~IsPartial(Partial(g, T), g, T)
  BY <1>2
<1> HIDE DEF Bad
<1> DEFINE pick(s) == CHOOSE x \in s : TRUE
           less(s) == s \ {pick(s)}
           F == [s \in SUBSET T |->
                   IF s = {} THEN 0 ELSE g[pick(s)] + Partial(g, less(s))[less(s)]]
<1>5. ASSUME NEW s \in SUBSET T, s # {}
      PROVE  F[less(s)] = Partial(g, less(s))[less(s)]
  <2> DEFINE U == less(s)
  <2>1. U \in SUBSET T /\ U # T
    BY <1>5
  <2>2. IsPartial(Partial(g, U), g, U)
    <3> HIDE DEF U
    <3> QED  BY <1>3, <2>1
  <2>3. CASE U = {}
    BY <2>1, <2>2, <2>3 DEF IsPartial
  <2>4. CASE U # {}
    <3>1. less(U) \in SUBSET U /\ less(U) \in SUBSET T /\ less(U) # T
      BY <2>1
    <3>2. IsPartial(Partial(g, less(U)), g, less(U))
      <4> HIDE DEF less
      <4> QED  BY <1>3, <3>1
    <3>3. IsFiniteSet(less(U))
      <4> HIDE DEF less
      <4> QED  BY <1>4, <3>1, FS_Subset
    <3>4. Partial(g, less(U))[less(U)] = Partial(g, U)[less(U)]
      <4> HIDE DEF less, U
      <4> QED  BY <2>2, <3>1, <3>2, <3>3, PartialUnique
    <3>5. Partial(g, U)[U] = g[pick(U)] + Partial(g, U)[less(U)]
      <4> HIDE DEF U
      <4> QED  BY <2>2, <2>4 DEF IsPartial
    <3>6. F[U] = g[pick(U)] + Partial(g, less(U))[less(U)]
      <4> HIDE DEF U
      <4> QED  BY <2>1, <2>4
    <3> QED
      BY <3>4, <3>5, <3>6
  <2> QED
    BY <2>3, <2>4
<1>6. IsPartial(F, g, T)
  <2>1. ASSUME NEW s \in SUBSET T
        PROVE  F[s] = IF s = {} THEN 0 ELSE g[pick(s)] + F[less(s)]
    <3>1. F[s] = IF s = {} THEN 0 ELSE g[pick(s)] + Partial(g, less(s))[less(s)]
      OBVIOUS
    <3> HIDE DEF F, pick, less
    <3> QED  BY <1>5, <3>1
  <2>2. F = [s \in SUBSET T |-> IF s = {} THEN 0 ELSE g[pick(s)] + F[less(s)]]
    <3> DEFINE G == [s \in SUBSET T |-> IF s = {} THEN 0 ELSE g[pick(s)] + F[less(s)]]
    <3>1. DOMAIN F = SUBSET T /\ DOMAIN G = SUBSET T
      OBVIOUS
    <3>2. \A s \in SUBSET T : F[s] = G[s]
      BY <2>1
    <3>3. F = [s \in SUBSET T |-> F[s]] /\ G = [s \in SUBSET T |-> G[s]]
      OBVIOUS
    <3> HIDE DEF F, G
    <3>4. F = G
      BY <3>1, <3>2, <3>3
    <3> QED  BY <3>4 DEF G
  <2> HIDE DEF F
  <2> QED  BY <2>2 DEF IsPartial
<1>7. IsPartial(Partial(g, T), g, T)
  <2> HIDE DEF F
  <2>1. \E H : IsPartial(H, g, T)
    BY <1>6
  <2> QED  BY <2>1 DEF Partial, IsPartial
<1> QED
  BY <1>4, <1>7

-----------------------------------------------------------------------------
LEMMA SumEmpty ==
  ASSUME NEW g
  PROVE  SumFunctionOnSet(g, {}) = 0
<1>1. IsPartial(Partial(g, {}), g, {})
  BY FS_EmptySet, PartialExists
<1> QED
  BY <1>1, SumIsPartial DEF IsPartial

(* The definition takes elements out one at a time, as CHOOSE likes. *)
LEMMA SumUnfold ==
  ASSUME NEW g, NEW S, IsFiniteSet(S), S # {}
  PROVE  \E x \in S : SumFunctionOnSet(g, S) = g[x] + SumFunctionOnSet(g, S \ {x})
<1> DEFINE x == CHOOSE x \in S : TRUE
<1>1. x \in S
  OBVIOUS
<1>2. Partial(g, S)[S] = g[x] + Partial(g, S)[S \ {x}]
  <2>1. IsPartial(Partial(g, S), g, S)
    BY PartialExists
  <2> QED  BY <2>1 DEF IsPartial
<1> HIDE DEF x
<1>3. Partial(g, S)[S \ {x}] = Partial(g, S \ {x})[S \ {x}]
  <2> DEFINE R == S \ {x}
  <2>1. IsFiniteSet(R) /\ R \subseteq S
    BY FS_Subset
  <2> HIDE DEF R
  <2>2. IsPartial(Partial(g, S), g, S) /\ IsPartial(Partial(g, R), g, R)
    BY <2>1, PartialExists
  <2>3. Partial(g, S)[R] = Partial(g, R)[R]
    BY <2>1, <2>2, PartialUnique
  <2> QED  BY <2>3 DEF R
<1> QED
  BY <1>1, <1>2, <1>3, SumIsPartial

LEMMA SumType ==
  ASSUME NEW S, IsFiniteSet(S), NEW g, \A x \in S : g[x] \in Nat
  PROVE  SumFunctionOnSet(g, S) \in Nat
<1> DEFINE Bad == {T \in SUBSET S : SumFunctionOnSet(g, T) \notin Nat}
<1>1. SUFFICES ASSUME Bad # {} PROVE FALSE
  OBVIOUS
<1>2. PICK T \in Bad : \A U \in SUBSET T : U # T => U \notin Bad
  <2>1. Bad \subseteq SUBSET S
    OBVIOUS
  <2> HIDE DEF Bad
  <2> QED  BY <1>1, <2>1, SmallestBadSubset
<1>3. T \subseteq S /\ IsFiniteSet(T) /\ SumFunctionOnSet(g, T) \notin Nat
  BY <1>2, FS_Subset
<1>4. T # {}
  BY <1>3, SumEmpty
<1>5. PICK x \in T : SumFunctionOnSet(g, T) = g[x] + SumFunctionOnSet(g, T \ {x})
  BY <1>3, <1>4, SumUnfold
<1>6. SumFunctionOnSet(g, T \ {x}) \in Nat
  BY <1>2, <1>3
<1> QED
  BY <1>3, <1>5, <1>6

(* Any element may go first. *)
LEMMA SumRemove ==
  ASSUME NEW S, IsFiniteSet(S), NEW g, \A x \in S : g[x] \in Nat, NEW a \in S
  PROVE  SumFunctionOnSet(g, S) = g[a] + SumFunctionOnSet(g, S \ {a})
<1> DEFINE Bad == {T \in SUBSET S : \E x \in T :
                     SumFunctionOnSet(g, T) # g[x] + SumFunctionOnSet(g, T \ {x})}
<1>1. SUFFICES ASSUME Bad # {} PROVE FALSE
  OBVIOUS
<1>2. PICK T \in Bad : \A U \in SUBSET T : U # T => U \notin Bad
  <2>1. Bad \subseteq SUBSET S
    OBVIOUS
  <2> HIDE DEF Bad
  <2> QED  BY <1>1, <2>1, SmallestBadSubset
<1>3. PICK x \in T : SumFunctionOnSet(g, T) # g[x] + SumFunctionOnSet(g, T \ {x})
  BY <1>2
<1>4. T \subseteq S /\ IsFiniteSet(T)
  BY <1>2, FS_Subset
<1>5. PICK y \in T : SumFunctionOnSet(g, T) = g[y] + SumFunctionOnSet(g, T \ {y})
  BY <1>3, <1>4, SumUnfold
<1>6. x # y
  BY <1>3, <1>5
<1> DEFINE R == (T \ {x}) \ {y}
<1>7. R = (T \ {y}) \ {x} /\ IsFiniteSet(R) /\ R \subseteq S
  BY <1>4, FS_Subset
<1>8. SumFunctionOnSet(g, T \ {y}) = g[x] + SumFunctionOnSet(g, R)
  <2> DEFINE U == T \ {y}
  <2>1. U \in SUBSET T /\ U # T /\ U \subseteq S /\ x \in U /\ U \notin Bad
    BY <1>2, <1>4, <1>6
  <2>2. SumFunctionOnSet(g, U) = g[x] + SumFunctionOnSet(g, U \ {x})
    BY <2>1
  <2> QED  BY <2>2, <1>7
<1>9. SumFunctionOnSet(g, T \ {x}) = g[y] + SumFunctionOnSet(g, R)
  <2> DEFINE U == T \ {x}
  <2>1. U \in SUBSET T /\ U # T /\ U \subseteq S /\ y \in U /\ U \notin Bad
    BY <1>2, <1>4, <1>6
  <2>2. SumFunctionOnSet(g, U) = g[y] + SumFunctionOnSet(g, U \ {y})
    BY <2>1
  <2> QED  BY <2>2
<1>10. g[x] \in Nat /\ g[y] \in Nat /\ SumFunctionOnSet(g, R) \in Nat
  BY <1>4, <1>7, SumType
<1> HIDE DEF R, Bad
<1> QED
  BY <1>3, <1>5, <1>8, <1>9, <1>10

(* When the non-zero terms of one sum map one to one to terms of another *)
(* that are at least as large, the other sum is at least as large.       *)
LEMMA SumCompare ==
  ASSUME NEW S, IsFiniteSet(S), NEW g, \A x \in S : g[x] \in Nat,
         NEW C, IsFiniteSet(C), NEW h, \A y \in C : h[y] \in Nat,
         NEW to,
         \A x \in S : g[x] # 0 => to[x] \in C /\ g[x] <= h[to[x]],
         \A x, y \in S : (g[x] # 0 /\ g[y] # 0 /\ to[x] = to[y]) => x = y
  PROVE  SumFunctionOnSet(g, S) <= SumFunctionOnSet(h, C)
<1> DEFINE Covered(T, U) == \A x \in T : g[x] # 0 => to[x] \in U
           Bad == {T \in SUBSET S : \E U \in SUBSET C :
                     /\ Covered(T, U)
                     /\ ~(SumFunctionOnSet(g, T) <= SumFunctionOnSet(h, U))}
<1>1. SUFFICES ASSUME S \in Bad PROVE FALSE
  OBVIOUS
<1>2. PICK T \in Bad : \A V \in SUBSET T : V # T => V \notin Bad
  <2>1. Bad \subseteq SUBSET S
    OBVIOUS
  <2> HIDE DEF Bad
  <2> QED  BY <1>1, <2>1, SmallestBadSubset
<1>3. T \subseteq S /\ IsFiniteSet(T)
  BY <1>2, FS_Subset
<1>4. PICK U \in SUBSET C : /\ Covered(T, U)
                            /\ ~(SumFunctionOnSet(g, T) <= SumFunctionOnSet(h, U))
  BY <1>2
<1>5. IsFiniteSet(U) /\ SumFunctionOnSet(h, U) \in Nat
  <2>1. IsFiniteSet(U)
    BY FS_Subset
  <2> QED  BY <2>1, SumType
<1>6. T # {}
  BY <1>4, <1>5, SumEmpty
<1>7. PICK x : x \in T
  BY <1>6
<1> DEFINE V == T \ {x}
<1>8. /\ SumFunctionOnSet(g, T) = g[x] + SumFunctionOnSet(g, V)
      /\ g[x] \in Nat /\ SumFunctionOnSet(g, V) \in Nat
  <2>1. SumFunctionOnSet(g, T) = g[x] + SumFunctionOnSet(g, V)
    BY <1>3, <1>7, SumRemove
  <2>2. IsFiniteSet(V) /\ V \subseteq S
    BY <1>3, FS_Subset
  <2>3. SumFunctionOnSet(g, V) \in Nat
    BY <2>2, SumType
  <2> QED  BY <2>1, <2>3, <1>3, <1>7
<1>9. V \in SUBSET T /\ V # T /\ V \in SUBSET S /\ V \notin Bad
  BY <1>2, <1>3, <1>7
<1>10. \A W \in SUBSET C : Covered(V, W) => SumFunctionOnSet(g, V) <= SumFunctionOnSet(h, W)
  BY <1>9
<1>11. CASE g[x] = 0
  <2>1. SumFunctionOnSet(g, V) <= SumFunctionOnSet(h, U)
    BY <1>4, <1>10
  <2> HIDE DEF V
  <2> QED  BY <1>4, <1>8, <1>11, <2>1
<1>12. CASE g[x] # 0
  <2> DEFINE W == U \ {to[x]}
  <2>1. to[x] \in U /\ to[x] \in C /\ g[x] <= h[to[x]] /\ h[to[x]] \in Nat
    BY <1>3, <1>4, <1>7, <1>12
  <2>2. Covered(V, W)
    <3> SUFFICES ASSUME NEW z \in V, g[z] # 0 PROVE to[z] \in W
      OBVIOUS
    <3>1. to[z] \in U /\ z \in S /\ x \in S /\ z # x
      BY <1>3, <1>4, <1>7
    <3>2. to[z] # to[x]
      BY <1>12, <3>1
    <3> QED  BY <3>1, <3>2
  <2>3. W \in SUBSET C /\ IsFiniteSet(W)
    BY <1>5, FS_Subset
  <2>4. SumFunctionOnSet(g, V) <= SumFunctionOnSet(h, W)
    BY <1>10, <2>2, <2>3
  <2>5. SumFunctionOnSet(h, W) \in Nat
    BY <2>3, SumType
  <2>6. SumFunctionOnSet(h, U) = h[to[x]] + SumFunctionOnSet(h, W)
    BY <1>5, <2>1, SumRemove
  <2> HIDE DEF V, W, Covered, Bad
  <2> QED
    BY <1>4, <1>5, <1>8, <2>1, <2>4, <2>5, <2>6
<1> QED
  BY <1>11, <1>12
=============================================================================
