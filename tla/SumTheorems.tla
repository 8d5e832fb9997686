---------------------------- MODULE SumTheorems ----------------------------
(***************************************************************************)
(* Sums over finite sets: what MapThenFoldSet adds up.  The induction over *)
(* subsets that the library states for operators is stated here for sets   *)
(* of sets, which is what a proof about a fold needs.                      *)
(***************************************************************************)
EXTENDS Integers, FiniteSets, Folds, FiniteSetTheorems, WellFoundedInduction,
        TLAPS

(* The sum of f[x] for the x in S. *)
SumOver(f, S) ==
  MapThenFoldSet(+, 0, LAMBDA x : f[x], LAMBDA X : CHOOSE x \in X : TRUE, S)

Pick(s) == CHOOSE x \in s : TRUE
Rest(s) == s \ {Pick(s)}

(* g is the function by which MapThenFoldSet is defined. *)
Added(f, g, s) == IF s = {} THEN 0 ELSE f[Pick(s)] + g[Rest(s)]
Adds(f, S, g)  == g = [s \in SUBSET S |-> Added(f, g, s)]

-----------------------------------------------------------------------------
(* Induction. *)

LEMMA LeastElement ==
  ASSUME NEW T \in SUBSET Nat, T # {}
  PROVE  \E n \in T : \A m \in T : n <= m
<1>1. PICK n \in T : \A m \in T : <<m, n>> \notin OpToRel(<, Nat)
  BY NatLessThanWellFounded, WFMin
<1>2. ASSUME NEW m \in T, m < n
      PROVE  FALSE
  <2>1. <<m, n>> \in Nat \X Nat /\ <<m, n>>[1] < <<m, n>>[2]
    BY <1>2
  <2>2. <<m, n>> \in OpToRel(<, Nat)
    BY <2>1, Zenon DEF OpToRel
  <2>3. QED
    BY <1>1, <2>2, Zenon
<1>3. QED
  BY <1>2

LEMMA EveryNumber ==
  ASSUME NEW T \in SUBSET Nat, 0 \in T, \A n \in T : n + 1 \in T
  PROVE  T = Nat
<1> SUFFICES ASSUME T # Nat
             PROVE  FALSE
  OBVIOUS
<1> DEFINE U == Nat \ T
<1>1. PICK n \in U : \A m \in U : n <= m
  BY LeastElement
<1>2. n # 0 /\ n - 1 \in Nat /\ n - 1 \notin U
  BY <1>1
<1>3. QED
  BY <1>1, <1>2

LEMMA RestIsSmaller ==
  ASSUME NEW s, IsFiniteSet(s), s # {}
  PROVE  /\ Pick(s) \in s /\ IsFiniteSet(Rest(s))
         /\ Cardinality(s) \in Nat /\ Cardinality(Rest(s)) \in Nat
         /\ Cardinality(Rest(s)) = Cardinality(s) - 1
<1>1. Pick(s) \in s
  BY DEF Pick
<1>2. QED
  BY <1>1, FS_RemoveElement, FS_CardinalityType DEF Rest

(* A set of subsets that takes in every set whose rest it has, has all.    *)
LEMMA EverySubset ==
  ASSUME NEW S, IsFiniteSet(S), NEW T, {} \in T,
         \A s \in SUBSET S : s # {} /\ Rest(s) \in T => s \in T
  PROVE  \A s \in SUBSET S : s \in T
<1> DEFINE N == {n \in Nat : \A s \in SUBSET S : Cardinality(s) = n => s \in T}
<1>1. \A s \in SUBSET S : IsFiniteSet(s) /\ Cardinality(s) \in Nat
  BY FS_Subset, FS_CardinalityType
<1>2. 0 \in N
  BY <1>1, FS_EmptySet
<1>3. ASSUME NEW n \in N
      PROVE  n + 1 \in N
  <2> SUFFICES ASSUME NEW s \in SUBSET S, Cardinality(s) = n + 1
               PROVE  s \in T
    OBVIOUS
  <2>1. s # {}
    BY FS_EmptySet
  <2>2. Rest(s) \in SUBSET S /\ Cardinality(Rest(s)) = n
    BY <1>1, <2>1, RestIsSmaller DEF Rest
  <2>3. QED
    BY <2>1, <2>2
<1>4. N = Nat
  <2> HIDE DEF N
  <2>1. N \in SUBSET Nat
    BY DEF N
  <2>2. QED
    BY <1>2, <1>3, <2>1, EveryNumber
<1>5. QED
  BY <1>1, <1>4

-----------------------------------------------------------------------------
(* The function exists, and with it the sum is what its definition says.   *)
LEMMA AddsExists ==
  ASSUME NEW f, NEW S, IsFiniteSet(S)
  PROVE  \E g : Adds(f, S, g)
<1> DEFINE Partly(g, n) == \A s \in SUBSET S :
             Cardinality(s) <= n => g[s] = Added(f, g, s)
           N == {n \in Nat : \E g : Partly(g, n)}
<1>1. \A s \in SUBSET S : IsFiniteSet(s) /\ Cardinality(s) \in Nat
  BY FS_Subset, FS_CardinalityType
<1>2. 0 \in N
  <2>1. Partly([s \in SUBSET S |-> 0], 0)
    BY <1>1, FS_EmptySet DEF Added
  <2>2. QED
    BY <2>1
<1>3. ASSUME NEW n \in N
      PROVE  n + 1 \in N
  <2>1. PICK g : Partly(g, n)
    OBVIOUS
  <2> DEFINE h == [s \in SUBSET S |-> Added(f, g, s)]
  <2>2. ASSUME NEW s \in SUBSET S, Cardinality(s) <= n + 1
        PROVE  h[s] = Added(f, h, s)
    <3>1. CASE s = {}
      BY <3>1 DEF Added
    <3>2. CASE s # {}
      <4>1. Rest(s) \in SUBSET S /\ Cardinality(Rest(s)) <= n
        BY <1>1, <2>2, <3>2, RestIsSmaller DEF Rest
      <4>2. h[Rest(s)] = g[Rest(s)]
        BY <2>1, <4>1
      <4>3. QED
        BY <3>2, <4>2 DEF Added
    <3>3. QED
      BY <3>1, <3>2
  <2>3. Partly(h, n + 1)
    BY <2>2
  <2> HIDE DEF h
  <2>4. QED
    BY <2>3
<1>4. N = Nat
  <2> HIDE DEF N
  <2>1. N \in SUBSET Nat
    BY DEF N
  <2>2. QED
    BY <1>2, <1>3, <2>1, EveryNumber
<1>5. PICK g : Partly(g, Cardinality(S))
  BY <1>1, <1>4
<1>6. \A s \in SUBSET S : g[s] = Added(f, g, s)
  BY <1>1, <1>5, FS_Subset
<1> DEFINE h == [s \in SUBSET S |-> g[s]]
<1>7. \A s \in SUBSET S : h[s] = Added(f, h, s)
  <2> TAKE s \in SUBSET S
  <2>1. Rest(s) \in SUBSET S
    BY DEF Rest
  <2>2. QED
    BY <1>6, <2>1 DEF Added
<1>8. Adds(f, S, h)
  BY <1>7 DEF Adds
<1>9. QED
  BY <1>8

LEMMA SumOfAdds ==
  ASSUME NEW f, NEW S, IsFiniteSet(S)
  PROVE  \E g : Adds(f, S, g) /\ SumOver(f, S) = g[S]
<1>1. SumOver(f, S) = (CHOOSE g : Adds(f, S, g))[S]
  BY DEF SumOver, MapThenFoldSet, Adds, Added, Pick, Rest
<1>2. Adds(f, S, CHOOSE g : Adds(f, S, g))
  BY AddsExists
<1>3. QED
  BY <1>1, <1>2

(* Two such functions agree where both are defined and f does.             *)
LEMMA AddsAgree ==
  ASSUME NEW f, NEW g, NEW S, IsFiniteSet(S), NEW R \in SUBSET S,
         \A x \in R : f[x] = g[x],
         NEW F, Adds(f, S, F), NEW G, Adds(g, R, G)
  PROVE  F[R] = G[R]
<1> DEFINE T == {s \in SUBSET R : F[s] = G[s]}
<1>1. IsFiniteSet(R)
  BY FS_Subset
<1>2. \A s \in SUBSET R : F[s] = Added(f, F, s) /\ G[s] = Added(g, G, s)
  BY DEF Adds
<1>3. {} \in T
  BY <1>2 DEF Added
<1>4. ASSUME NEW s \in SUBSET R, s # {}, Rest(s) \in T
      PROVE  s \in T
  <2>1. Pick(s) \in R
    BY <1>4 DEF Pick
  <2>2. QED
    BY <1>2, <1>4, <2>1 DEF Added
<1>5. \A s \in SUBSET R : s \in T
  <2> HIDE DEF T
  <2>1. QED
    BY <1>1, <1>3, <1>4, EverySubset
<1>6. QED
  BY <1>5

-----------------------------------------------------------------------------
(* What the sum is. *)
LEMMA SumOfNone ==
  ASSUME NEW f
  PROVE  SumOver(f, {}) = 0
<1>1. PICK g : Adds(f, {}, g) /\ SumOver(f, {}) = g[{}]
  BY SumOfAdds, FS_EmptySet
<1>2. g[{}] = Added(f, g, {})
  BY <1>1 DEF Adds
<1>3. QED
  BY <1>1, <1>2 DEF Added

LEMMA SumStep ==
  ASSUME NEW f, NEW S, IsFiniteSet(S), S # {}
  PROVE  SumOver(f, S) = f[Pick(S)] + SumOver(f, Rest(S))
<1>1. PICK F : Adds(f, S, F) /\ SumOver(f, S) = F[S]
  BY SumOfAdds
<1>2. Rest(S) \in SUBSET S /\ IsFiniteSet(Rest(S))
  BY FS_Subset DEF Rest
<1>3. PICK G : Adds(f, Rest(S), G) /\ SumOver(f, Rest(S)) = G[Rest(S)]
  BY <1>2, SumOfAdds
<1>4. F[Rest(S)] = G[Rest(S)]
  BY <1>1, <1>2, <1>3, AddsAgree
<1>5. F[S] = Added(f, F, S)
  BY <1>1 DEF Adds
<1>6. QED
  BY <1>1, <1>3, <1>4, <1>5 DEF Added

LEMMA SumSame ==
  ASSUME NEW f, NEW g, NEW S, IsFiniteSet(S), \A x \in S : f[x] = g[x]
  PROVE  SumOver(f, S) = SumOver(g, S)
<1>1. PICK F : Adds(f, S, F) /\ SumOver(f, S) = F[S]
  BY SumOfAdds
<1>2. PICK G : Adds(g, S, G) /\ SumOver(g, S) = G[S]
  BY SumOfAdds
<1>3. QED
  BY <1>1, <1>2, AddsAgree

LEMMA SumIsInt ==
  ASSUME NEW f, NEW S, IsFiniteSet(S), \A x \in S : f[x] \in Int
  PROVE  SumOver(f, S) \in Int
<1> DEFINE T == {s \in SUBSET S : SumOver(f, s) \in Int}
<1>1. {} \in T
  BY SumOfNone
<1>2. ASSUME NEW s \in SUBSET S, s # {}, Rest(s) \in T
      PROVE  s \in T
  <2>1. SumOver(f, s) = f[Pick(s)] + SumOver(f, Rest(s)) /\ Pick(s) \in S
    BY <1>2, SumStep, FS_Subset DEF Pick
  <2>2. QED
    BY <1>2, <2>1
<1>3. \A s \in SUBSET S : s \in T
  <2> HIDE DEF T
  <2>1. QED
    BY <1>1, <1>2, EverySubset
<1>4. QED
  BY <1>3

(* Two functions that differ at x only: so do their sums.                  *)
LEMMA SumChange ==
  ASSUME NEW f, NEW g, NEW S, IsFiniteSet(S), NEW x \in S,
         \A y \in S : f[y] \in Int /\ g[y] \in Int,
         \A y \in S \ {x} : g[y] = f[y]
  PROVE  SumOver(g, S) = SumOver(f, S) + g[x] - f[x]
<1> DEFINE Shift(s) == IF x \in s THEN g[x] - f[x] ELSE 0
           T == {s \in SUBSET S : SumOver(g, s) = SumOver(f, s) + Shift(s)}
<1>1. {} \in T
  BY SumOfNone
<1>2. ASSUME NEW s \in SUBSET S, s # {}, Rest(s) \in T
      PROVE  s \in T
  <2>1. IsFiniteSet(s) /\ Rest(s) \in SUBSET S /\ IsFiniteSet(Rest(s))
    BY FS_Subset DEF Rest
  <2>2. /\ SumOver(f, s) = f[Pick(s)] + SumOver(f, Rest(s))
        /\ SumOver(g, s) = g[Pick(s)] + SumOver(g, Rest(s))
    BY <1>2, <2>1, SumStep
  <2>3. SumOver(f, Rest(s)) \in Int /\ SumOver(g, Rest(s)) \in Int
    BY <2>1, SumIsInt
  <2>4. Pick(s) \in S /\ Pick(s) \in s
    BY <1>2 DEF Pick
  <2>5. SumOver(g, Rest(s)) = SumOver(f, Rest(s)) + Shift(Rest(s))
    BY <1>2
  <2>6. CASE Pick(s) = x
    <3>1. Shift(s) = g[x] - f[x] /\ Shift(Rest(s)) = 0
      BY <2>4, <2>6 DEF Rest
    <3>2. QED
      BY <2>2, <2>3, <2>4, <2>5, <2>6, <3>1
  <2>7. CASE Pick(s) # x
    <3>1. Shift(s) = Shift(Rest(s)) /\ g[Pick(s)] = f[Pick(s)]
      BY <2>4, <2>7 DEF Rest
    <3>2. Shift(s) \in Int /\ f[Pick(s)] \in Int
      BY <2>4
    <3>3. SumOver(g, s) = SumOver(f, s) + Shift(s)
      <4> HIDE DEF Shift
      <4>1. QED
        BY <2>2, <2>3, <2>5, <3>1, <3>2
    <3>4. QED
      BY <3>3
  <2>8. QED
    BY <2>6, <2>7
<1>3. \A s \in SUBSET S : s \in T
  <2> HIDE DEF T
  <2>1. QED
    BY <1>1, <1>2, EverySubset
<1>4. SumOver(g, S) = SumOver(f, S) + (g[x] - f[x])
  BY <1>3
<1>5. SumOver(f, S) \in Int
  BY SumIsInt
<1>6. QED
  BY <1>4, <1>5

LEMMA SumIsNat ==
  ASSUME NEW f, NEW S, IsFiniteSet(S), \A x \in S : f[x] \in Nat
  PROVE  /\ SumOver(f, S) \in Nat
         /\ \A x \in S : f[x] <= SumOver(f, S)
<1> DEFINE T == {s \in SUBSET S : /\ SumOver(f, s) \in Nat
                                  /\ \A x \in s : f[x] <= SumOver(f, s)}
<1>1. {} \in T
  BY SumOfNone
<1>2. ASSUME NEW s \in SUBSET S, s # {}, Rest(s) \in T
      PROVE  s \in T
  <2>1. SumOver(f, s) = f[Pick(s)] + SumOver(f, Rest(s)) /\ Pick(s) \in S
    BY <1>2, SumStep, FS_Subset DEF Pick
  <2>2. \A x \in s : x = Pick(s) \/ x \in Rest(s)
    BY DEF Rest
  <2>3. QED
    BY <1>2, <2>1, <2>2
<1>3. \A s \in SUBSET S : s \in T
  <2> HIDE DEF T
  <2>1. QED
    BY <1>1, <1>2, EverySubset
<1>4. QED
  BY <1>3

LEMMA SumOfZeros ==
  ASSUME NEW f, NEW S, IsFiniteSet(S), \A x \in S : f[x] = 0
  PROVE  SumOver(f, S) = 0
<1> DEFINE T == {s \in SUBSET S : SumOver(f, s) = 0}
<1>1. {} \in T
  BY SumOfNone
<1>2. ASSUME NEW s \in SUBSET S, s # {}, Rest(s) \in T
      PROVE  s \in T
  <2>1. SumOver(f, s) = f[Pick(s)] + SumOver(f, Rest(s)) /\ Pick(s) \in S
    BY <1>2, SumStep, FS_Subset DEF Pick
  <2>2. QED
    BY <1>2, <2>1
<1>3. \A s \in SUBSET S : s \in T
  <2> HIDE DEF T
  <2>1. QED
    BY <1>1, <1>2, EverySubset
<1>4. QED
  BY <1>3

(* Any element can be taken out of a sum, not only the one the fold picks. *)
LEMMA SumWithout ==
  ASSUME NEW f, NEW S, IsFiniteSet(S), \A x \in S : f[x] \in Int
  PROVE  \A x \in S : SumOver(f, S) = f[x] + SumOver(f, S \ {x})
<1> DEFINE Free(s) == \A x \in s : SumOver(f, s) = f[x] + SumOver(f, s \ {x})
           N == {n \in Nat : \A s \in SUBSET S : Cardinality(s) = n => Free(s)}
<1>1. \A s \in SUBSET S : IsFiniteSet(s) /\ Cardinality(s) \in Nat
  BY FS_Subset, FS_CardinalityType
<1>2. 0 \in N
  BY <1>1, FS_EmptySet
<1>3. ASSUME NEW n \in N
      PROVE  n + 1 \in N
  <2> SUFFICES ASSUME NEW s \in SUBSET S, Cardinality(s) = n + 1, NEW x \in s
               PROVE  SumOver(f, s) = f[x] + SumOver(f, s \ {x})
    OBVIOUS
  <2> DEFINE y == Pick(s)
  <2>1. IsFiniteSet(s) /\ s # {} /\ n \in Nat
    BY <1>1, FS_EmptySet
  <2>2. y \in s /\ SumOver(f, s) = f[y] + SumOver(f, s \ {y})
    BY <2>1, SumStep, RestIsSmaller DEF Rest
  <2> HIDE DEF y
  <2>3. CASE x = y
    BY <2>2, <2>3
  <2>4. CASE x # y
    <3>0. /\ Cardinality(s \ {x}) = Cardinality(s) - 1
          /\ Cardinality(s \ {y}) = Cardinality(s) - 1
      BY <2>1, <2>2, FS_RemoveElement
    <3>1. Cardinality(s \ {x}) = n /\ Cardinality(s \ {y}) = n
      BY <2>1, <3>0
    <3>2. Free(s \ {x}) /\ Free(s \ {y})
      BY <3>1
    <3>3. (s \ {x}) \ {y} = (s \ {y}) \ {x}
      OBVIOUS
    <3>4. /\ SumOver(f, s \ {x}) = f[y] + SumOver(f, (s \ {y}) \ {x})
          /\ SumOver(f, s \ {y}) = f[x] + SumOver(f, (s \ {y}) \ {x})
      BY <2>2, <2>4, <3>2, <3>3
    <3>5. SumOver(f, (s \ {y}) \ {x}) \in Int
      BY <2>1, SumIsInt, FS_Subset
    <3>6. f[x] \in Int /\ f[y] \in Int
      BY <2>2
    <3>7. QED
      BY <2>2, <3>4, <3>5, <3>6
  <2>5. QED
    BY <2>3, <2>4
<1>4. N = Nat
  <2> HIDE DEF N
  <2>1. N \subseteq Nat
    BY DEF N
  <2>2. QED
    BY <1>2, <1>3, <2>1, EveryNumber
<1>5. QED
  BY <1>1, <1>4

(* One summand joins, leaves or changes, and the others stay.              *)
LEMMA SumMove ==
  ASSUME NEW f, NEW g, NEW R, NEW Q, IsFiniteSet(R), IsFiniteSet(Q), NEW x,
         R \ {x} = Q \ {x},
         \A y \in R : f[y] \in Int, \A y \in Q : g[y] \in Int,
         \A y \in R \ {x} : g[y] = f[y]
  PROVE  SumOver(g, Q) = SumOver(f, R) + (IF x \in Q THEN g[x] ELSE 0)
                                       - (IF x \in R THEN f[x] ELSE 0)
<1> DEFINE rest == SumOver(f, R \ {x})
<1>1. IsFiniteSet(R \ {x})
  BY FS_Subset
<1>2. rest \in Int /\ SumOver(g, Q \ {x}) = rest
  BY <1>1, SumIsInt, SumSame
<1>3. SumOver(f, R) = rest + (IF x \in R THEN f[x] ELSE 0)
  <2>1. CASE x \in R
    BY <1>2, <2>1, SumWithout
  <2>2. CASE x \notin R
    <3>1. SumOver(f, R) = SumOver(f, R \ {x})
      <4>1. R \ {x} = R
        BY <2>2
      <4>2. QED
        BY <4>1, Zenon
    <3> HIDE DEF rest
    <3>2. SumOver(f, R) = rest
      BY <1>2, <3>1 DEF rest
    <3>3. QED
      BY <1>2, <2>2, <3>2
  <2>3. QED
    BY <2>1, <2>2
<1>4. SumOver(g, Q) = rest + (IF x \in Q THEN g[x] ELSE 0)
  <2>1. CASE x \in Q
    BY <1>2, <2>1, SumWithout
  <2>2. CASE x \notin Q
    <3>1. SumOver(g, Q) = SumOver(g, Q \ {x})
      <4>1. Q \ {x} = Q
        BY <2>2
      <4>2. QED
        BY <4>1, Zenon
    <3> HIDE DEF rest
    <3>2. SumOver(g, Q) = rest
      BY <1>2, <3>1 DEF rest
    <3>3. QED
      BY <1>2, <2>2, <3>2
  <2>3. QED
    BY <2>1, <2>2
<1>5. (IF x \in Q THEN g[x] ELSE 0) \in Int /\ (IF x \in R THEN f[x] ELSE 0) \in Int
  OBVIOUS
<1> HIDE DEF rest
<1>6. QED
  BY <1>2, <1>3, <1>4, <1>5
=============================================================================
