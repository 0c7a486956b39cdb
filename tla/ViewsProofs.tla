----------------------------- MODULE ViewsProofs -----------------------------
(***************************************************************************)
(* Theorems about what the dashboard shows. Costs, for any readings:       *)
(* nothing is priced with the fallback in silence. The capacity estimate,  *)
(* for any hours and any ladder: its basis is the largest mean there is,   *)
(* and the ladder follows it. The replay, for any readings: it looks like  *)
(* the database. The heatmap, for any readings and any calendar: its       *)
(* hours, energy, weekdays and switches are exact. The views, for any      *)
(* readings, any calendar and any numbers of rows: they agree wherever     *)
(* both reach back. Panels, for any rhythm of the refreshes: the tab that  *)
(* is open is fresh. Wire, for frames of any length, two printers and any  *)
(* mixture of texts, resets and timeouts: what is shown was printed.       *)
(***************************************************************************)
EXTENDS Views, FiniteSetTheorems, SequenceTheorems, WellFoundedInduction, TLAPS

-----------------------------------------------------------------------------
(* Sums.                                                                     *)

\* The only induction: among sets of parts of a finite set there is a least one.
LEMMA SmallestPart ==
  ASSUME NEW S, IsFiniteSet(S), NEW Q, Q \subseteq SUBSET S, Q # {}
  PROVE  \E T \in Q : \A U \in Q : U \subseteq T => U = T
<1>1. IsWellFoundedOn(StrictSubsetOrdering(S), SUBSET S)
  BY FS_StrictSubsetOrderingWellFounded, FS_FiniteSubsetsOfFinite
<1>2. PICK T \in Q : \A U \in Q : ~ (<<U, T>> \in StrictSubsetOrdering(S))
  BY <1>1, WFMin
<1> QED BY <1>2 DEF StrictSubsetOrdering

\* Whatever holds of a part once it holds of all that have one element less holds of the whole.
LEMMA FiniteInduction ==
  ASSUME NEW S, IsFiniteSet(S), NEW Q,
         \A T \in SUBSET S : (\A x \in T : T \ {x} \in Q) => T \in Q
  PROVE  \A T \in SUBSET S : T \in Q
<1> DEFINE Bad == {T \in SUBSET S : T \notin Q}
<1> SUFFICES ASSUME Bad # {} PROVE FALSE
  OBVIOUS
<1>1. PICK T \in Bad : \A U \in Bad : U \subseteq T => U = T
  <2>1. Bad \subseteq SUBSET S
    OBVIOUS
  <2> HIDE DEF Bad
  <2> QED BY <2>1, SmallestPart
<1>2. \A x \in T : T \ {x} \in Q
  BY <1>1
<1> QED BY <1>1, <1>2

\* The element a sum takes next.
Pick(s) == CHOOSE x \in s : TRUE

LEMMA PickIn == \A s : s # {} => Pick(s) \in s
  BY DEF Pick

\* A sum, unfolded: one element after the other, in an order that CHOOSE gives.
Added(F, S, g) == g = [s \in SUBSET S |-> IF s = {} THEN 0 ELSE F[Pick(s)] + g[s \ {Pick(s)}]]

\* The parts of a finite set are finite, and one element less is one less.
LEMMA PartFinite ==
  ASSUME NEW S, IsFiniteSet(S)
  PROVE  \A T \in SUBSET S : /\ IsFiniteSet(T) /\ Cardinality(T) \in Nat
                             /\ \A x \in T : Cardinality(T \ {x}) = Cardinality(T) - 1
  BY FS_Subset, FS_CardinalityType, FS_RemoveElement

\* Induction over the numbers, for a set instead of a predicate.
LEMMA CountUp ==
  ASSUME NEW N, N \subseteq Nat, 0 \in N, \A n \in N : n + 1 \in N
  PROVE  N = Nat
<1> SUFFICES ASSUME Nat \ N # {} PROVE FALSE
  OBVIOUS
<1>1. IsWellFoundedOn(OpToRel(<, Nat), Nat)
  BY NatLessThanWellFounded, Zenon
<1>2. PICK n \in Nat \ N : \A m \in Nat \ N : ~ (<<m, n>> \in OpToRel(<, Nat))
  BY <1>1, WFMin, Zenon
<1>3. \A m \in Nat \ N : ~ (m < n)
  BY <1>2, Zenon DEF OpToRel
<1> QED BY <1>3

\* There is such an unfolding for every finite set: part after part, by their size.
LEMMA SumExists ==
  ASSUME NEW S, IsFiniteSet(S), NEW F
  PROVE  \E g : Added(F, S, g)
<1> DEFINE Part(n) == {T \in SUBSET S : Cardinality(T) <= n}
           Unfold(g) == [s \in SUBSET S |-> IF s = {} THEN 0 ELSE F[Pick(s)] + g[s \ {Pick(s)}]]
           Good(g, n) == \A s \in Part(n) : g[s] = Unfold(g)[s]
           N == {n \in Nat : \E g : g = [s \in SUBSET S |-> g[s]] /\ Good(g, n)}
<1>1. 0 \in N
  <2> DEFINE g == [s \in SUBSET S |-> 0]
  <2>1. \A s \in Part(0) : s = {}
    BY FS_EmptySet, PartFinite
  <2>2. Good(g, 0)
    BY <2>1
  <2>3. g = [s \in SUBSET S |-> g[s]]
    OBVIOUS
  <2> HIDE DEF g
  <2> QED BY <2>2, <2>3
<1>2. ASSUME NEW n \in N PROVE n + 1 \in N
  <2>1. PICK g : Good(g, n)
    OBVIOUS
  <2> DEFINE k == Unfold(g)
  <2>2. ASSUME NEW s \in Part(n + 1), s # {} PROVE k[s \ {Pick(s)}] = g[s \ {Pick(s)}]
    <3>1. s \ {Pick(s)} \in Part(n)
      BY <2>2, PickIn, PartFinite
    <3> QED BY <3>1, <2>1
  <2>3. ASSUME NEW s \in Part(n + 1) PROVE k[s] = Unfold(k)[s]
    BY <2>2
  <2>4. Good(k, n + 1)
    BY <2>3
  <2>5. k = [s \in SUBSET S |-> k[s]]
    OBVIOUS
  <2> HIDE DEF k, Good
  <2>6. n + 1 \in Nat
    OBVIOUS
  <2> QED BY <2>4, <2>5, <2>6
<1>3. N = Nat
  <2>1. N \subseteq Nat
    OBVIOUS
  <2> HIDE DEF N
  <2> QED BY <2>1, <1>1, <1>2, CountUp
<1>4. PICK g : g = [s \in SUBSET S |-> g[s]] /\ Good(g, Cardinality(S))
  <2>1. Cardinality(S) \in N
    <3> HIDE DEF N
    <3> QED BY <1>3, FS_CardinalityType
  <2> HIDE DEF Good
  <2> QED BY <2>1
<1>5. \A s \in SUBSET S : s \in Part(Cardinality(S))
  BY FS_Subset, PartFinite
<1>6. g = Unfold(g)
  BY <1>4, <1>5
<1> QED BY <1>6 DEF Added

\* So the sum is its value at the whole set.
LEMMA SumIs ==
  ASSUME NEW S, IsFiniteSet(S), NEW F
  PROVE  \E g : Added(F, S, g) /\ SumFunctionOnSet(F, S) = g[S]
<1> DEFINE g == CHOOSE g : Added(F, S, g)
<1>1. Added(F, S, g)
  BY SumExists
<1>2. SumFunctionOnSet(F, S) = g[S]
  BY DEF SumFunctionOnSet, FoldFunctionOnSet, MapThenFoldSet, Added, Pick
<1> HIDE DEF g
<1> QED BY <1>1, <1>2

\* Two sums that agree on their elements agree, on every part.
LEMMA AddedAgree ==
  ASSUME NEW S, IsFiniteSet(S), NEW F, NEW g, Added(F, S, g),
         NEW T \in SUBSET S, NEW G, NEW h, Added(G, T, h), \A x \in T : F[x] = G[x]
  PROVE  \A U \in SUBSET T : g[U] = h[U]
<1> DEFINE Q == {U \in SUBSET T : g[U] = h[U]}
<1>1. IsFiniteSet(T)
  BY PartFinite
<1>2. ASSUME NEW U \in SUBSET T, \A x \in U : U \ {x} \in Q PROVE g[U] = h[U]
  <2>1. CASE U = {}
    BY <2>1 DEF Added
  <2>2. CASE U # {}
    <3>1. Pick(U) \in U
      BY <2>2, PickIn
    <3>2. g[U] = F[Pick(U)] + g[U \ {Pick(U)}] /\ h[U] = G[Pick(U)] + h[U \ {Pick(U)}]
      BY <2>2 DEF Added
    <3> QED BY <1>2, <3>1, <3>2
  <2> QED BY <2>1, <2>2
<1>3. \A U \in SUBSET T : (\A x \in U : U \ {x} \in Q) => U \in Q
  BY <1>2
<1> HIDE DEF Q
<1>4. \A U \in SUBSET T : U \in Q
  BY <1>1, <1>3, FiniteInduction
<1> QED BY <1>4 DEF Q

\* Functions that agree on a set have the same sum over it.
LEMMA SumSame ==
  ASSUME NEW S, IsFiniteSet(S), NEW F, NEW G, \A x \in S : F[x] = G[x]
  PROVE  SumFunctionOnSet(F, S) = SumFunctionOnSet(G, S)
<1>1. PICK g : Added(F, S, g) /\ SumFunctionOnSet(F, S) = g[S]
  BY SumIs
<1>2. PICK h : Added(G, S, h) /\ SumFunctionOnSet(G, S) = h[S]
  BY SumIs
<1> QED BY <1>1, <1>2, AddedAgree

\* Nothing adds up to nothing.
LEMMA SumEmpty == \A F : SumFunctionOnSet(F, {}) = 0
<1> TAKE F
<1>1. PICK g : Added(F, {}, g) /\ SumFunctionOnSet(F, {}) = g[{}]
  BY SumIs, FS_EmptySet
<1> QED BY <1>1 DEF Added

\* Integers add up to integers.
LEMMA AddedInt ==
  ASSUME NEW S, IsFiniteSet(S), NEW F, \A x \in S : F[x] \in Int, NEW g, Added(F, S, g)
  PROVE  \A T \in SUBSET S : g[T] \in Int
<1> DEFINE Q == {T \in SUBSET S : g[T] \in Int}
<1>1. ASSUME NEW T \in SUBSET S, \A x \in T : T \ {x} \in Q PROVE g[T] \in Int
  <2>1. CASE T = {}
    BY <2>1 DEF Added
  <2>2. CASE T # {}
    <3>1. Pick(T) \in T
      BY <2>2, PickIn
    <3>2. g[T] = F[Pick(T)] + g[T \ {Pick(T)}]
      BY <2>2 DEF Added
    <3>3. F[Pick(T)] \in Int /\ g[T \ {Pick(T)}] \in Int
      BY <3>1, <1>1
    <3> QED BY <3>2, <3>3
  <2> QED BY <2>1, <2>2
<1>2. \A T \in SUBSET S : (\A x \in T : T \ {x} \in Q) => T \in Q
  BY <1>1
<1> HIDE DEF Q
<1>3. \A T \in SUBSET S : T \in Q
  BY <1>2, FiniteInduction
<1> QED BY <1>3 DEF Q

\* The order does not matter: any element can be the first.
AnyFirst(F, S, g) == \A T \in SUBSET S : \A x \in T : g[T] = F[x] + g[T \ {x}]

LEMMA AddedFirst ==
  ASSUME NEW S, IsFiniteSet(S), NEW F, \A x \in S : F[x] \in Int, NEW g, Added(F, S, g)
  PROVE  AnyFirst(F, S, g)
<1> DEFINE Free(U) == \A x \in U : g[U] = F[x] + g[U \ {x}]
           Q == {T \in SUBSET S : \A U \in SUBSET T : Free(U)}
<1>0. \A U \in SUBSET S : g[U] \in Int
  BY AddedInt
<1>1. ASSUME NEW T \in SUBSET S, \A x \in T : T \ {x} \in Q, NEW x \in T
      PROVE  g[T] = F[x] + g[T \ {x}]
  <2> DEFINE c == Pick(T)
  <2>1. c \in T /\ T # {}
    BY PickIn
  <2>2. g[T] = F[c] + g[T \ {c}]
    BY <2>1 DEF Added
  <2> HIDE DEF c
  <2>3. CASE x = c
    BY <2>2, <2>3
  <2>4. CASE x # c
    <3>1. Free(T \ {c}) /\ Free(T \ {x})
      BY <1>1, <2>1
    <3>2. g[T \ {c}] = F[x] + g[(T \ {c}) \ {x}]
      BY <3>1, <2>1, <2>4
    <3>3. g[T \ {x}] = F[c] + g[(T \ {x}) \ {c}]
      BY <3>1, <2>1, <2>4
    <3>4. (T \ {c}) \ {x} = (T \ {x}) \ {c}
      OBVIOUS
    <3>5. F[x] \in Int /\ F[c] \in Int /\ g[(T \ {c}) \ {x}] \in Int
      BY <1>0, <2>1
    <3> DEFINE m == g[(T \ {c}) \ {x}]
    <3>6. g[T] = F[c] + (F[x] + m) /\ g[T \ {x}] = F[c] + m
      BY <2>2, <3>2, <3>3, <3>4
    <3>7. F[x] \in Int /\ F[c] \in Int /\ m \in Int
      BY <3>5
    <3> HIDE DEF m
    <3> QED BY ONLY <3>6, <3>7
  <2> QED BY <2>3, <2>4
<1>2. ASSUME NEW T \in SUBSET S, \A x \in T : T \ {x} \in Q PROVE T \in Q
  <2>1. Free(T)
    BY <1>1, <1>2
  <2>2. ASSUME NEW U \in SUBSET T PROVE Free(U)
    <3>1. CASE U = T
      BY <2>1, <3>1
    <3>2. CASE U # T
      <4>1. PICK x \in T : x \notin U
        BY <3>2
      <4>2. U \in SUBSET (T \ {x}) /\ T \ {x} \in Q
        BY <4>1, <1>2
      <4> QED BY <4>2
    <3> QED BY <3>1, <3>2
  <2> QED BY <2>2
<1>3. \A T \in SUBSET S : (\A x \in T : T \ {x} \in Q) => T \in Q
  BY <1>2
<1> HIDE DEF Q
<1>4. \A T \in SUBSET S : T \in Q
  BY <1>3, FiniteInduction
<1> QED BY <1>4 DEF Q, AnyFirst

\* What the sums of the model are used for: their type, and one element taken out.
LEMMA SumFacts ==
  ASSUME NEW S, IsFiniteSet(S), NEW F, \A x \in S : F[x] \in Int
  PROVE  /\ \A T \in SUBSET S : SumFunctionOnSet(F, T) \in Int
         /\ \A T \in SUBSET S : \A x \in T :
              SumFunctionOnSet(F, T) = F[x] + SumFunctionOnSet(F, T \ {x})
<1>1. PICK g : Added(F, S, g) /\ SumFunctionOnSet(F, S) = g[S]
  BY SumIs
<1>2. ASSUME NEW T \in SUBSET S PROVE SumFunctionOnSet(F, T) = g[T]
  <2>1. IsFiniteSet(T)
    BY PartFinite
  <2>2. PICK h : Added(F, T, h) /\ SumFunctionOnSet(F, T) = h[T]
    BY <2>1, SumIs
  <2>3. \A x \in T : F[x] = F[x]
    OBVIOUS
  <2>4. \A U \in SUBSET T : g[U] = h[U]
    <3>1. Added(F, S, g) /\ Added(F, T, h) /\ T \in SUBSET S
      BY <1>1, <2>2
    <3> QED BY ONLY <3>1, <2>3, AddedAgree, IsFiniteSet(S)
  <2> QED BY <2>2, <2>4
<1>3. \A T \in SUBSET S : g[T] \in Int
  BY <1>1, AddedInt
<1>4. \A T \in SUBSET S : \A x \in T : g[T] = F[x] + g[T \ {x}]
  <2>1. AnyFirst(F, S, g)
    BY <1>1, AddedFirst
  <2> QED BY <2>1 DEF AnyFirst
<1>5. \A T \in SUBSET S : \A x \in T : T \ {x} \in SUBSET S
  OBVIOUS
<1> QED BY <1>2, <1>3, <1>4, <1>5

\* A common factor.
LEMMA SumScaled ==
  ASSUME NEW S, IsFiniteSet(S), NEW F, \A x \in S : F[x] \in Int, NEW c \in Int,
         NEW G, \A x \in S : G[x] = F[x] * c
  PROVE  SumFunctionOnSet(G, S) = SumFunctionOnSet(F, S) * c
<1> DEFINE Q == {T \in SUBSET S : SumFunctionOnSet(G, T) = SumFunctionOnSet(F, T) * c}
<1>1. \A x \in S : G[x] \in Int
  OBVIOUS
<1>2. ASSUME NEW T \in SUBSET S, \A x \in T : T \ {x} \in Q
      PROVE  SumFunctionOnSet(G, T) = SumFunctionOnSet(F, T) * c
  <2>1. CASE T = {}
    BY <2>1, SumEmpty
  <2>2. CASE T # {}
    <3>1. PICK x \in T : TRUE
      BY <2>2
    <3> DEFINE a == F[x]  b == SumFunctionOnSet(F, T \ {x})
    <3>2. a \in Int /\ b \in Int
      BY SumFacts
    <3>3. SumFunctionOnSet(F, T) = a + b
      BY SumFacts
    <3>4. SumFunctionOnSet(G, T) = G[x] + SumFunctionOnSet(G, T \ {x})
      BY SumFacts, <1>1
    <3>5. G[x] = a * c /\ SumFunctionOnSet(G, T \ {x}) = b * c
      BY <1>2
    <3> HIDE DEF a, b
    <3>6. (a + b) * c = a * c + b * c
      BY <3>2
    <3> QED BY <3>3, <3>4, <3>5, <3>6
  <2> QED BY <2>1, <2>2
<1>3. \A T \in SUBSET S : (\A x \in T : T \ {x} \in Q) => T \in Q
  BY <1>2
<1> HIDE DEF Q
<1>4. \A T \in SUBSET S : T \in Q
  BY <1>3, FiniteInduction
<1> QED BY <1>4 DEF Q

\* Zeros add up to zero.
LEMMA SumZero ==
  ASSUME NEW S, IsFiniteSet(S), NEW F, \A x \in S : F[x] = 0
  PROVE  SumFunctionOnSet(F, S) = 0
<1>1. \A x \in S : F[x] = F[x] * 0 /\ F[x] \in Int
  OBVIOUS
<1>2. SumFunctionOnSet(F, S) = SumFunctionOnSet(F, S) * 0
  BY <1>1, SumScaled
<1>3. SumFunctionOnSet(F, S) \in Int
  BY <1>1, SumFacts
<1> QED BY <1>2, <1>3

\* A sum is the sum of the sums of its groups.
GroupSums(F, S, p, K, H) ==
  H = {p[x] : x \in S} /\ \A h \in H : K[h] = SumFunctionOnSet(F, {x \in S : p[x] = h})

LEMMA SumGrouped ==
  ASSUME NEW S, IsFiniteSet(S), NEW F, \A x \in S : F[x] \in Int,
         NEW p, NEW K, NEW H, GroupSums(F, S, p, K, H)
  PROVE  IsFiniteSet(H) /\ SumFunctionOnSet(F, S) = SumFunctionOnSet(K, H)
<1> USE DEF GroupSums
<1> DEFINE Group(T, h) == {x \in T : p[x] = h}
           Sums(T) == [h \in H |-> SumFunctionOnSet(F, Group(T, h))]
           Q == {T \in SUBSET S : SumFunctionOnSet(F, T) = SumFunctionOnSet(Sums(T), H)}
<1>0. IsFiniteSet(H)
  <2> DEFINE f == [x \in S |-> p[x]]
  <2>1. f \in Surjection(S, H)
    BY DEF Surjection
  <2> HIDE DEF f
  <2> QED BY <2>1, FS_Surjection
<1>1. ASSUME NEW T \in SUBSET S, NEW x \in T, T \ {x} \in Q
      PROVE  SumFunctionOnSet(F, T) = SumFunctionOnSet(Sums(T), H)
  <2> DEFINE U == T \ {x}
             h0 == p[x]
             A == Sums(T)
             B == Sums(U)
             rest == SumFunctionOnSet(A, H \ {h0})
  <2>1. h0 \in H /\ U \in SUBSET S
    OBVIOUS
  <2>2. \A V \in SUBSET S : \A h : SumFunctionOnSet(F, Group(V, h)) \in Int
    BY SumFacts
  <2>3. (\A h \in H : A[h] \in Int) /\ (\A h \in H : B[h] \in Int)
    <3>1. \A h \in H : /\ A[h] = SumFunctionOnSet(F, Group(T, h))
                        /\ B[h] = SumFunctionOnSet(F, Group(U, h))
      OBVIOUS
    <3> HIDE DEF A, B, U, Group
    <3> QED BY <2>1, <2>2, <3>1
  <2>4. \A h \in H \ {h0} : A[h] = B[h]
    <3> SUFFICES ASSUME NEW h \in H \ {h0} PROVE Group(T, h) = Group(U, h)
      OBVIOUS
    <3> QED OBVIOUS
  <2>5. rest = SumFunctionOnSet(B, H \ {h0})
    <3>1. IsFiniteSet(H \ {h0})
      BY <1>0, FS_Subset
    <3> HIDE DEF A, B
    <3> QED BY <3>1, <2>4, SumSame
  <2>6. A[h0] = F[x] + B[h0]
    <3>1. x \in Group(T, h0) /\ Group(T, h0) \in SUBSET S /\ Group(T, h0) \ {x} = Group(U, h0)
      OBVIOUS
    <3>2. SumFunctionOnSet(F, Group(T, h0)) = F[x] + SumFunctionOnSet(F, Group(T, h0) \ {x})
      BY <3>1, SumFacts
    <3>3. A[h0] = SumFunctionOnSet(F, Group(T, h0)) /\ B[h0] = SumFunctionOnSet(F, Group(U, h0))
      BY <2>1
    <3> QED BY <3>1, <3>2, <3>3
  <2>7. SumFunctionOnSet(F, T) = F[x] + SumFunctionOnSet(F, U)
    BY SumFacts
  <2>8. SumFunctionOnSet(F, U) = SumFunctionOnSet(B, H)
    BY <1>1
  <2> HIDE DEF A, B, U, h0
  <2>9. SumFunctionOnSet(A, H) = A[h0] + rest
    BY <1>0, <2>1, <2>3, SumFacts
  <2>10. SumFunctionOnSet(B, H) = B[h0] + SumFunctionOnSet(B, H \ {h0})
    BY <1>0, <2>1, <2>3, SumFacts
  <2>11. rest \in Int
    <3>1. H \ {h0} \in SUBSET H
      OBVIOUS
    <3> QED BY <3>1, <1>0, <2>3, SumFacts
  <2>12. F[x] \in Int /\ B[h0] \in Int
    BY <2>1, <2>3
  <2> HIDE DEF rest
  <2>13. SumFunctionOnSet(F, T) = F[x] + (B[h0] + rest) /\ SumFunctionOnSet(A, H) = (F[x] + B[h0]) + rest
    BY <2>5, <2>6, <2>7, <2>8, <2>9, <2>10
  <2>14. SumFunctionOnSet(F, T) = SumFunctionOnSet(A, H)
    BY ONLY <2>11, <2>12, <2>13
  <2> QED BY <2>14 DEF A
<1>2. SumFunctionOnSet(F, {}) = SumFunctionOnSet(Sums({}), H)
  <2> DEFINE A == Sums({})
  <2>1. \A h \in H : A[h] = 0
    BY SumEmpty
  <2> HIDE DEF A
  <2>2. SumFunctionOnSet(A, H) = 0
    BY <1>0, <2>1, SumZero
  <2> QED BY <2>2, SumEmpty DEF A
<1>3. \A T \in SUBSET S : (\A x \in T : T \ {x} \in Q) => T \in Q
  <2> TAKE T \in SUBSET S
  <2> SUFFICES ASSUME \A x \in T : T \ {x} \in Q PROVE SumFunctionOnSet(F, T) = SumFunctionOnSet(Sums(T), H)
    OBVIOUS
  <2>1. CASE T = {}
    BY <1>2, <2>1
  <2>2. CASE T # {}
    BY <1>1, <2>2
  <2> QED BY <2>1, <2>2
<1>4. \A T \in SUBSET S : T \in Q
  <2> HIDE DEF Q
  <2> QED BY <1>3, FiniteInduction
<1>5. SumFunctionOnSet(F, S) = SumFunctionOnSet(Sums(S), H)
  BY <1>4
<1>6. SumFunctionOnSet(Sums(S), H) = SumFunctionOnSet(K, H)
  <2> DEFINE A == Sums(S)
  <2>1. \A h \in H : A[h] = K[h]
    OBVIOUS
  <2> HIDE DEF A
  <2>2. SumFunctionOnSet(A, H) = SumFunctionOnSet(K, H)
    BY <1>0, <2>1, SumSame
  <2> QED BY <2>2 DEF A
<1> QED BY <1>0, <1>5, <1>6

\* A set of numbers has a largest.
LEMMA HasMax ==
  ASSUME NEW S, IsFiniteSet(S), S \subseteq Int, S # {}
  PROVE  \E m \in S : \A x \in S : x <= m
<1> DEFINE Q == {T \in SUBSET S : T # {} => \E m \in T : \A x \in T : x <= m}
<1>1. ASSUME NEW T \in SUBSET S, \A x \in T : T \ {x} \in Q, T # {} PROVE \E m \in T : \A x \in T : x <= m
  <2>1. PICK y \in T : TRUE
    BY <1>1
  <2>2. CASE T \ {y} = {}
    BY <2>1, <2>2
  <2>3. CASE T \ {y} # {}
    <3>1. PICK m \in T \ {y} : \A x \in T \ {y} : x <= m
      BY <1>1, <2>3
    <3>2. m \in Int /\ y \in Int /\ T \subseteq Int
      OBVIOUS
    <3>3. CASE y <= m
      BY <3>1, <3>2, <3>3
    <3>4. CASE m <= y
      BY <3>1, <3>2, <3>4
    <3> QED BY <3>2, <3>3, <3>4
  <2> QED BY <2>2, <2>3
<1>2. \A T \in SUBSET S : (\A x \in T : T \ {x} \in Q) => T \in Q
  BY <1>1
<1>3. \A T \in SUBSET S : T \in Q
  <2> HIDE DEF Q
  <2> QED BY <1>2, FiniteInduction
<1> QED BY <1>3

\* The numbers of a finite set can be counted.
LEMMA NthExists ==
  ASSUME NEW S, IsFiniteSet(S), S \subseteq Int
  PROVE  \A k \in 1 .. Cardinality(S) : \E j \in S : Cardinality({m \in S : m < j}) = k - 1
<1> DEFINE Has(T, k) == \E j \in T : Cardinality({m \in T : m < j}) = k - 1
           Q == {T \in SUBSET S : \A k \in 1 .. Cardinality(T) : Has(T, k)}
<1>1. ASSUME NEW T \in SUBSET S, \A x \in T : T \ {x} \in Q, NEW k \in 1 .. Cardinality(T) PROVE Has(T, k)
  <2>1. T # {} /\ IsFiniteSet(T) /\ T \subseteq Int /\ Cardinality(T) \in Nat
    <3>1. IsFiniteSet(T) /\ Cardinality(T) \in Nat
      BY PartFinite
    <3>2. T # {}
      BY FS_EmptySet
    <3> QED BY <3>1, <3>2
  <2>2. PICK max \in T : \A x \in T : x <= max
    BY <2>1, HasMax
  <2> DEFINE U == T \ {max}
  <2>3. Cardinality(U) = Cardinality(T) - 1 /\ U \in Q
    BY <1>1, PartFinite
  <2>4. CASE k = Cardinality(T)
    <3>1. {m \in T : m < max} = U
      <4>1. \A m \in T : m < max <=> m # max
        BY <2>1, <2>2
      <4> QED BY <4>1
    <3> QED BY <2>3, <2>4, <3>1
  <2>5. CASE k # Cardinality(T)
    <3>1. k \in 1 .. Cardinality(U)
      BY <2>1, <2>3, <2>5
    <3>2. PICK j \in U : Cardinality({m \in U : m < j}) = k - 1
      BY <2>3, <3>1
    <3>3. {m \in T : m < j} = {m \in U : m < j}
      BY <2>1, <2>2
    <3> QED BY <3>2, <3>3
  <2> QED BY <2>4, <2>5
<1>2. \A T \in SUBSET S : (\A x \in T : T \ {x} \in Q) => T \in Q
  BY <1>1
<1>3. \A T \in SUBSET S : T \in Q
  <2> HIDE DEF Q
  <2> QED BY <1>2, FiniteInduction
<1> QED BY <1>3

\* Counted, a finite set of integers is a sequence of its elements.
LEMMA NthIn ==
  ASSUME NEW S, IsFiniteSet(S), S \subseteq Int
  PROVE  /\ \A k \in 1 .. Cardinality(S) : Nth(S, k) \in S /\ Cardinality({m \in S : m < Nth(S, k)}) = k - 1
         /\ InOrder(S) = [k \in 1 .. Cardinality(S) |-> Nth(S, k)]
         /\ Cardinality(S) \in Nat /\ Len(InOrder(S)) = Cardinality(S)
<1>1. Cardinality(S) \in Nat
  BY FS_CardinalityType
<1>2. ASSUME NEW k \in 1 .. Cardinality(S)
      PROVE  Nth(S, k) \in S /\ Cardinality({m \in S : m < Nth(S, k)}) = k - 1
  <2>1. \E j \in S : Cardinality({m \in S : m < j}) = k - 1
    BY NthExists
  <2> QED BY <2>1 DEF Nth
<1>3. InOrder(S) = [k \in 1 .. Cardinality(S) |-> Nth(S, k)]
  BY DEF InOrder
<1> HIDE DEF InOrder
<1>4. Len(InOrder(S)) = Cardinality(S)
  BY <1>1, <1>3
<1> QED BY <1>1, <1>2, <1>3, <1>4

-----------------------------------------------------------------------------
(* The readings.                                                             *)

\* The rows of the reading table; the oldest has a time.
Row == [t : Int, import : Int, export : Int, amps : {kind.amps : kind \in Kinds}]

TableInv == table \in Seq(Row) /\ (table # <<>> => table[1].t # NoTime)

\* Reversed, the rows are the same rows.
LEMMA ReverseFacts ==
  ASSUME NEW S, NEW q \in Seq(S)
  PROVE  /\ Reverse(q) \in Seq(S) /\ Len(Reverse(q)) = Len(q)
         /\ \A i \in 1 .. Len(q) : Reverse(q)[i] = q[Len(q) - i + 1]
  BY DEF Reverse

\* Reversed twice, the rows are as they were.
LEMMA ReverseTwice ==
  ASSUME NEW S, NEW q \in Seq(S)
  PROVE  Reverse(Reverse(q)) = q
<1> DEFINE r == Reverse(q)  s == Reverse(r)
<1>1. r \in Seq(S) /\ Len(r) = Len(q) /\ \A i \in 1 .. Len(q) : r[i] = q[Len(q) - i + 1]
  BY ReverseFacts
<1>2. s \in Seq(S) /\ Len(s) = Len(r) /\ \A i \in 1 .. Len(r) : s[i] = r[Len(r) - i + 1]
  BY <1>1, ReverseFacts
<1> HIDE DEF r, s
<1>3. \A i \in 1 .. Len(q) : s[i] = q[i]
  BY <1>1, <1>2
<1> QED BY <1>1, <1>2, <1>3 DEF r, s

\* The readings with a time, the oldest first.
LEMMA DatedFacts ==
  ASSUME NEW q \in Seq(Row), NEW d, d = Dated(Reverse(q))
  PROVE  /\ d \in Seq(Row) /\ \A i \in 1 .. Len(d) : d[i].t # NoTime
         /\ Len(d) = Cardinality({i \in 1 .. Len(q) : q[i].t # NoTime})
         /\ q # <<>> /\ q[1].t # NoTime => Len(d) >= 1
<1> DEFINE T == {i \in 1 .. Len(q) : q[i].t # NoTime}
           ids == InOrder(T)
<1>1. d = [k \in 1 .. Len(ids) |-> q[ids[k]]]
  BY ReverseTwice DEF Dated, At
<1>2. IsFiniteSet(T) /\ T \subseteq Int
  <2>1. IsFiniteSet(1 .. Len(q))
    BY FS_Interval
  <2> QED BY <2>1, FS_Subset
<1>3. /\ ids = [k \in 1 .. Cardinality(T) |-> Nth(T, k)]
      /\ Cardinality(T) \in Nat /\ Len(ids) = Cardinality(T)
      /\ \A k \in 1 .. Cardinality(T) : Nth(T, k) \in T
  <2> HIDE DEF T
  <2> QED BY <1>2, NthIn
<1>4. \A k \in 1 .. Len(ids) : ids[k] \in T
  BY <1>3
<1>5. \A k \in 1 .. Len(ids) : q[ids[k]] \in Row /\ q[ids[k]].t # NoTime
  BY <1>4
<1>6. Len(d) = Len(ids) /\ Len(ids) \in Nat
  <2> HIDE DEF ids, T
  <2> QED BY <1>1, <1>3
<1>7. d \in Seq(Row) /\ \A i \in 1 .. Len(d) : d[i].t # NoTime
  <2> HIDE DEF ids, T
  <2> QED BY <1>1, <1>5, <1>6
<1>8. ASSUME q # <<>>, q[1].t # NoTime PROVE Len(d) >= 1
  <2>1. 1 \in T
    BY <1>8
  <2>2. Cardinality(T) # 0
    BY <2>1, <1>2, FS_EmptySet
  <2> QED BY <1>3, <1>6, <2>2
<1> QED BY <1>3, <1>6, <1>7, <1>8

\* What a reading with an energy gives.
Interval == [start : Int, ticks : Int, import : Int, export : Int]

\* The intervals of a table of readings are intervals.
LEMMA IntervalsFacts ==
  ASSUME NEW q \in Seq(Row)
  PROVE  integrated_intervals(q, <<>>, 0) \in Seq(Interval)
<1> DEFINE d == Dated(Reverse(q))
           T == EnergyIntervals(d)
           ids == InOrder(T)
           of(i) == [start |-> d[i].t, ticks |-> Gap(d, i), import |-> d[i].import, export |-> d[i].export]
<1>1. d \in Seq(Row)
  BY DatedFacts
<1>2. integrated_intervals(q, <<>>, 0) = [k \in 1 .. Len(ids) |-> of(ids[k])]
  BY DEF integrated_intervals, all_records_desc, get_all
<1> HIDE DEF d
<1>3. IsFiniteSet(T) /\ T \subseteq Int /\ T \subseteq 1 .. Len(d) - 1
  <2>1. IsFiniteSet(1 .. Len(d) - 1)
    BY <1>1, FS_Interval
  <2> QED BY <2>1, <1>1, FS_Subset DEF EnergyIntervals
<1>4. /\ ids = [k \in 1 .. Cardinality(T) |-> Nth(T, k)]
      /\ Cardinality(T) \in Nat /\ Len(ids) = Cardinality(T)
      /\ \A k \in 1 .. Cardinality(T) : Nth(T, k) \in T
  <2> HIDE DEF T
  <2> QED BY <1>3, NthIn
<1>5. \A i \in T : of(i) \in Interval
  <2> SUFFICES ASSUME NEW i \in T PROVE of(i) \in Interval
    OBVIOUS
  <2>1. d[i] \in Row /\ d[i + 1] \in Row
    BY <1>1, <1>3
  <2> QED BY <2>1 DEF Row, Interval, Gap
<1> HIDE DEF ids, T, of
<1> QED BY <1>2, <1>4, <1>5

\* The table: empty at first, and each step writes whole rows.
LEMMA InitTable == Init => TableInv
  BY DEF Init, NoData, TableInv

\* ... and every step keeps it so.
LEMMA TableStep == TableInv /\ [Next]_vars => TableInv'
<1> SUFFICES ASSUME TableInv, [Next]_vars PROVE TableInv'
  OBVIOUS
<1>1. CASE AddReading
  <2>1. CASE table' = table
    BY <2>1 DEF TableInv
  <2>2. ASSUME NEW kind \in Kinds, NEW t \in Start, table = <<>>, table' = save_snapshot(table, Reading(t, kind))
        PROVE  TableInv'
    <3>1. Reading(t, kind) \in Row /\ Reading(t, kind).t # NoTime
      BY ViewsAssumption DEF Reading, Row
    <3>2. table' = <<Reading(t, kind)>>
      BY <2>2 DEF save_snapshot
    <3> QED BY <3>1, <3>2 DEF TableInv
  <2>3. ASSUME NEW kind \in Kinds, NEW gap \in Gaps, table # <<>>,
               table' = save_snapshot(table, Reading(IF gap = NoTime THEN NoTime ELSE Clock + gap, kind))
        PROVE  TableInv'
    <3> DEFINE t == IF gap = NoTime THEN NoTime ELSE Clock + gap
    <3>1. table \in Seq(Row) /\ table[1].t # NoTime
      BY <2>3 DEF TableInv
    <3>2. Clock \in Int
      <4> DEFINE d == Dated(Reverse(table))
      <4>1. d \in Seq(Row) /\ Len(d) >= 1
        BY <3>1, <2>3, DatedFacts
      <4> HIDE DEF d
      <4>2. d[Len(d)] \in Row
        BY <4>1
      <4>3. d[Len(d)].t \in Int
        BY <4>2 DEF Row
      <4> QED BY <4>3 DEF Clock, d
    <3>3. t \in Int
      <4>1. gap \in Int /\ NoTime \in Int
        BY ViewsAssumption DEF NoTime
      <4> QED BY <3>2, <4>1
    <3> HIDE DEF t
    <3>4. Reading(t, kind) \in Row
      BY <3>3, ViewsAssumption DEF Reading, Row
    <3>5. table' = Append(table, Reading(t, kind))
      BY <2>3 DEF save_snapshot, t
    <3>6. table' \in Seq(Row) /\ table'[1] = table[1]
      <4>1. PICK q, e : q = table /\ e = Reading(t, kind)
        OBVIOUS
      <4>2. q \in Seq(Row) /\ e \in Row /\ q # <<>>
        BY <4>1, <3>1, <3>4, <2>3
      <4>3. Append(q, e) \in Seq(Row) /\ Append(q, e)[1] = q[1]
        BY <4>2, AppendProperties, EmptySeq
      <4> QED BY <4>1, <4>3, <3>5
    <3> QED BY <3>1, <3>6 DEF TableInv
  <2> QED BY <1>1, <2>2, <2>3 DEF AddReading
<1>2. CASE table' = table
  BY <1>2 DEF TableInv
<1> QED BY <1>1, <1>2 DEF Next, vars, AddHour, UseCommand, UsePage, UseWire

-----------------------------------------------------------------------------
(* The costs.                                                                *)

\* Hours do not cross the midnight.
LEMMA HourInDay ==
  ASSUME NEW s \in Int, NEW t \in Int, HourOf(s) = HourOf(t)
  PROVE  DayOf(s) = DayOf(t) /\ HourOf(s) \in Int
<1> DEFINE H == HourLen  P == HoursPerDay
<1>0. H \in Nat /\ H > 0 /\ P \in Nat /\ P > 0
  BY CalendarAssumption
<1> HIDE DEF H, P
<1>1. ASSUME NEW x \in Int PROVE (x \div H) \in Int /\ H * (x \div H) <= x /\ x < H * (x \div H) + H
  BY <1>0
<1>2. DayLen \in Int /\ DayLen = H * P /\ DayLen > 0
  BY <1>0 DEF DayLen, H, P
<1>3. PICK q : q = HourOf(s) /\ q = HourOf(t) /\ q \in Int
  BY <1>1 DEF HourOf, H
<1>4. PICK d : d = q \div P /\ d \in Int /\ P * d <= q /\ q + 1 <= P * d + P
  BY <1>0, <1>3
<1>5. ASSUME NEW x \in Int, q = HourOf(x) PROVE DayOf(x) = d
  <2>1. H * q <= x /\ x < H * (q + 1)
    BY <1>1, <1>5, <1>3, <1>0 DEF HourOf, H
  <2>2. \A a, b \in Int : a <= b => H * a <= H * b
    BY <1>0
  <2>3. H * (P * d) <= H * q /\ H * (q + 1) <= H * (P * d + P)
    BY <1>0, <1>3, <1>4, <2>2
  <2>4. H * (P * d) = DayLen * d /\ H * (P * d + P) = DayLen * d + DayLen
    BY <1>0, <1>2, <1>4
  <2>5. DayLen * d <= x /\ x < DayLen * d + DayLen
    <3> DEFINE a == H * (P * d)  b == H * (P * d + P)  e == H * q  f == H * (q + 1)
    <3>1. a \in Int /\ b \in Int /\ e \in Int /\ f \in Int
      BY <1>0, <1>3, <1>4
    <3>2. e <= x /\ x < f /\ a <= e /\ f <= b
      BY <2>1, <2>3
    <3> HIDE DEF a, b, e, f
    <3>3. a <= x /\ x < b
      BY ONLY <3>1, <3>2, x \in Int
    <3> QED BY <3>3, <2>4 DEF a, b
  <2>6. \A y \in Int : DayLen * d <= y /\ y < DayLen * d + DayLen => y \div DayLen = d
    <3> SUFFICES ASSUME NEW y \in Int, DayLen * d <= y, y < DayLen * d + DayLen PROVE y \div DayLen = d
      OBVIOUS
    <3>1. PICK D : D = DayLen /\ D \in Int /\ D > 0
      BY <1>2
    <3>2. PICK e \in Int : e = y \div D /\ D * e <= y /\ y < D * e + D
      BY <3>1
    <3>3. \A a, b \in Int : a + 1 <= b => D * a + D <= D * b
      <4> TAKE a, b \in Int
      <4> HAVE a + 1 <= b
      <4>1. D * (a + 1) <= D * b
        BY <3>1
      <4>2. D * (a + 1) = D * a + D
        BY <3>1
      <4> QED BY <4>1, <4>2
    <3>4. D * d <= y /\ y < D * d + D
      BY <3>1
    <3>5. D * d \in Int /\ D * e \in Int
      BY <1>4, <3>1
    <3>6. ~ (e + 1 <= d) /\ ~ (d + 1 <= e)
      <4>1. PICK u, v : u = D * d /\ v = D * e /\ u \in Int /\ v \in Int
        BY <3>5
      <4>2. (e + 1 <= d => v + D <= u) /\ (d + 1 <= e => u + D <= v)
        BY <3>3, <4>1, <1>4
      <4>3. u <= y /\ y < u + D /\ v <= y /\ y < v + D
        BY <3>2, <3>4, <4>1
      <4>4. ~ (v + D <= u) /\ ~ (u + D <= v)
        BY ONLY <4>1, <4>3, <3>1, y \in Int
      <4> QED BY <4>2, <4>4
    <3>7. e = d
      BY ONLY <3>6, <1>4, e \in Int
    <3> QED BY <3>1, <3>2, <3>7
  <2> QED BY <2>5, <2>6 DEF DayOf
<1> QED BY <1>3, <1>5

\* The least number of a set.
LEMMA MinIs ==
  ASSUME NEW S, IsFiniteSet(S), S \subseteq Int, S # {}
  PROVE  Min(S) \in S /\ \A x \in S : Min(S) <= x
<1>1. Cardinality(S) \in Nat /\ Cardinality(S) # 0
  BY FS_CardinalityType, FS_EmptySet
<1>2. PICK j \in S : Cardinality({m \in S : m < j}) = 0
  <2>1. 1 \in 1 .. Cardinality(S)
    BY <1>1
  <2>2. \E j \in S : Cardinality({m \in S : m < j}) = 1 - 1
    BY <2>1, NthExists
  <2> QED BY <2>2
<1>3. IsFiniteSet({m \in S : m < j})
  BY FS_Subset
<1>4. {m \in S : m < j} = {}
  BY <1>2, <1>3, FS_EmptySet
<1>5. \A x \in S : j <= x
  BY <1>4
<1> QED BY <1>5 DEF Min

\* The body of FallbackIsSurfaced, for any intervals.
LEMMA CostsSurface ==
  ASSUME NEW iv \in Seq(Interval), NEW arrives \in 1 .. Len(iv) + 1
  PROVE  LET quote == [k \in 1 .. Len(iv) |-> [price |-> IF k < arrives THEN 10 ELSE 3, fallback |-> k < arrives]]
             costs == build_summary(iv, Genuine, quote, 2, 1)
             AtFallback(h) == \E k \in 1 .. Len(iv) : HourOf(iv[k].start) = h /\ k < arrives
         IN /\ \A h \in DOMAIN costs.rows :
                 /\ h \in costs.warned <=> AtFallback(h)
                 /\ h \notin costs.warned =>
                      /\ costs.rows[h].cost = costs.rows[h].import * (3 + costs.rows[h].grid)
                      /\ costs.rows[h].value = costs.rows[h].export * 3
            /\ costs.daily.cost = Sum(LAMBDA h : costs.rows[h].cost, DOMAIN costs.rows)
<1> DEFINE quote == [k \in 1 .. Len(iv) |-> [price |-> IF k < arrives THEN 10 ELSE 3, fallback |-> k < arrives]]
           costs == build_summary(iv, Genuine, quote, 2, 1)
           Hour(k)   == HourOf(iv[k].start)
           Grid(k)   == current_grid_rate(Hour(k), 2, 1)
           latest    == {k \in 1 .. Len(iv) : \A m \in 1 .. Len(iv) : DayOf(iv[m].start) <= DayOf(iv[k].start)}
           In(h)     == {k \in latest : Hour(k) = h}
           Import(k) == iv[k].import * iv[k].ticks
           Export(k) == iv[k].export * iv[k].ticks
           Cost(k)   == Import(k) * (quote[k].price + Grid(k))
           Value(k)  == Export(k) * quote[k].price
           H == {Hour(k) : k \in latest}
           CostOf(h) == SumFunctionOnSet([k \in In(h) |-> Cost(k)], In(h))
           ImportOf(h) == SumFunctionOnSet([k \in In(h) |-> Import(k)], In(h))
           ExportOf(h) == SumFunctionOnSet([k \in In(h) |-> Export(k)], In(h))
           ValueOf(h) == SumFunctionOnSet([k \in In(h) |-> Value(k)], In(h))
<1>1. /\ DOMAIN costs.rows = H
      /\ \A h \in H : /\ costs.rows[h].grid = Grid(Min(In(h)))
                      /\ costs.rows[h].cost = CostOf(h) /\ costs.rows[h].import = ImportOf(h)
                      /\ costs.rows[h].value = ValueOf(h) /\ costs.rows[h].export = ExportOf(h)
      /\ costs.daily.cost = SumFunctionOnSet([k \in latest |-> Cost(k)], latest)
      /\ costs.warned = {Hour(k) : k \in {m \in latest : quote[m].fallback}}
  BY DEF build_summary, Sum, Warned
<1> HIDE DEF costs
<1>2. latest \subseteq 1 .. Len(iv) /\ IsFiniteSet(latest) /\ \A h : IsFiniteSet(In(h)) /\ In(h) \subseteq latest
  <2>1. IsFiniteSet(1 .. Len(iv))
    BY FS_Interval
  <2>2. latest \subseteq 1 .. Len(iv) /\ IsFiniteSet(latest)
    BY <2>1, FS_Subset
  <2> HIDE DEF latest
  <2> QED BY <2>2, FS_Subset
<1>3. \A k \in 1 .. Len(iv) : /\ Import(k) \in Int /\ Export(k) \in Int /\ iv[k].start \in Int
                              /\ Grid(k) \in {1, 2} /\ quote[k].price \in {3, 10}
                              /\ quote[k].fallback = (k < arrives)
  <2> SUFFICES ASSUME NEW k \in 1 .. Len(iv)
               PROVE  /\ Import(k) \in Int /\ Export(k) \in Int /\ iv[k].start \in Int
                      /\ Grid(k) \in {1, 2} /\ quote[k].price \in {3, 10}
                      /\ quote[k].fallback = (k < arrives)
    OBVIOUS
  <2>1. PICK r : r = iv[k] /\ r \in Interval
    OBVIOUS
  <2>2. r.import * r.ticks \in Int /\ r.export * r.ticks \in Int /\ r.start \in Int
    BY <2>1 DEF Interval
  <2>3. Grid(k) \in {1, 2}
    BY DEF current_grid_rate
  <2>4. quote[k].price \in {3, 10} /\ quote[k].fallback = (k < arrives)
    OBVIOUS
  <2> QED BY <2>1, <2>2, <2>3, <2>4
<1>4. \A k \in 1 .. Len(iv) : Cost(k) \in Int
  <2> SUFFICES ASSUME NEW k \in 1 .. Len(iv) PROVE Cost(k) \in Int
    OBVIOUS
  <2>1. PICK a \in Int, p \in Int, g \in Int : a = Import(k) /\ p = quote[k].price /\ g = Grid(k)
    <3>1. Import(k) \in Int /\ quote[k].price \in Int /\ Grid(k) \in Int
      <4> HIDE DEF Import, Grid, quote
      <4> QED BY <1>3, SMTT(30)
    <3> HIDE DEF Import, Grid, quote
    <3> QED BY <3>1
  <2>2. a * (p + g) \in Int
    OBVIOUS
  <2>3. Cost(k) = a * (p + g)
    <3> HIDE DEF Import, Grid, quote
    <3> QED BY <2>1
  <2> QED BY <2>2, <2>3
<1>5. ASSUME NEW h \in H PROVE h \in costs.warned <=> \E k \in 1 .. Len(iv) : Hour(k) = h /\ k < arrives
  <2>1. ASSUME NEW k \in 1 .. Len(iv), Hour(k) = h PROVE k \in latest
    <3>1. PICK m \in latest : Hour(m) = h
      OBVIOUS
    <3>2. DayOf(iv[k].start) = DayOf(iv[m].start)
      BY <1>3, <2>1, <3>1, HourInDay
    <3> QED BY <3>1, <3>2
  <2>2. h \in costs.warned <=> \E k \in latest : Hour(k) = h /\ k < arrives
    <3> HIDE DEF latest, Hour, quote
    <3> QED BY <1>1, <1>2, <1>3
  <2> HIDE DEF latest, Hour
  <2> QED BY <1>2, <2>1, <2>2
<1>6. ASSUME NEW h \in H, h \notin costs.warned
      PROVE  /\ CostOf(h) = ImportOf(h) * (3 + costs.rows[h].grid)
             /\ ValueOf(h) = ExportOf(h) * 3
  <2> DEFINE g == costs.rows[h].grid
  <2>1. \A k \in In(h) : k \in 1 .. Len(iv) /\ ~(k < arrives) /\ Hour(k) = h
    BY <1>5, <1>6, <1>2
  <2>2. \A k \in In(h) : quote[k].price = 3
    BY <2>1
  <2>3. Min(In(h)) \in In(h)
    <3>1. In(h) # {} /\ In(h) \subseteq Int
      BY <1>2
    <3> HIDE DEF In
    <3> QED BY <3>1, <1>2, MinIs
  <2>4. g \in Int /\ \A k \in In(h) : Grid(k) = g
    <3>1. g = Grid(Min(In(h)))
      BY <1>1
    <3>2. \A k \in In(h) : Grid(k) = current_grid_rate(h, 2, 1)
      BY <2>1
    <3>3. current_grid_rate(h, 2, 1) \in Int
      BY DEF current_grid_rate
    <3> HIDE DEF g, Grid, In
    <3>4. g = current_grid_rate(h, 2, 1)
      BY <3>1, <3>2, <2>3
    <3> QED BY <3>2, <3>3, <3>4
  <2> HIDE DEF g, quote, Grid
  <2> DEFINE I == [k \in In(h) |-> Import(k)]  C == [k \in In(h) |-> Cost(k)]
             E == [k \in In(h) |-> Export(k)]  V == [k \in In(h) |-> Value(k)]
  <2>5. \A k \in In(h) : I[k] \in Int /\ C[k] = I[k] * (3 + g) /\ E[k] \in Int /\ V[k] = E[k] * 3
    <3> SUFFICES ASSUME NEW k \in In(h)
                 PROVE  I[k] \in Int /\ C[k] = I[k] * (3 + g) /\ E[k] \in Int /\ V[k] = E[k] * 3
      OBVIOUS
    <3>1. quote[k].price = 3 /\ Grid(k) = g /\ k \in 1 .. Len(iv)
      BY <2>1, <2>2, <2>4
    <3>2. Import(k) \in Int /\ Export(k) \in Int
      BY <3>1, <1>3
    <3>3. Cost(k) = Import(k) * (3 + g) /\ Value(k) = Export(k) * 3
      BY <3>1
    <3> HIDE DEF Import, Export, Cost, Value, In
    <3> QED BY <3>2, <3>3
  <2>6. IsFiniteSet(In(h)) /\ 3 + g \in Int
    <3>1. IsFiniteSet(In(h))
      BY <1>2
    <3> QED BY <3>1, <2>4
  <2> HIDE DEF I, C, E, V, In
  <2>7. SumFunctionOnSet(C, In(h)) = SumFunctionOnSet(I, In(h)) * (3 + g)
    BY <2>5, <2>6, SumScaled
  <2>8. SumFunctionOnSet(V, In(h)) = SumFunctionOnSet(E, In(h)) * 3
    BY <2>5, <2>6, SumScaled
  <2> QED BY <2>7, <2>8 DEF g, I, C, E, V
<1>7. costs.daily.cost = Sum(LAMBDA h : costs.rows[h].cost, DOMAIN costs.rows)
  <2> DEFINE F == [k \in latest |-> Cost(k)]
             p == [k \in latest |-> Hour(k)]
             K == [h \in H |-> costs.rows[h].cost]
  <2>1. \A k \in latest : F[k] \in Int
    BY <1>2, <1>4
  <2>2. H = {p[k] : k \in latest}
    OBVIOUS
  <2>3. \A h \in H : K[h] = SumFunctionOnSet(F, {k \in latest : p[k] = h})
    <3> SUFFICES ASSUME NEW h \in H PROVE K[h] = SumFunctionOnSet(F, {k \in latest : p[k] = h})
      OBVIOUS
    <3> DEFINE G == [k \in In(h) |-> Cost(k)]
    <3>1. {k \in latest : p[k] = h} = In(h)
      OBVIOUS
    <3>2. K[h] = SumFunctionOnSet(G, In(h))
      BY <1>1
    <3>3. \A k \in In(h) : G[k] = F[k]
      OBVIOUS
    <3> HIDE DEF G, F, In, K, p
    <3>4. SumFunctionOnSet(G, In(h)) = SumFunctionOnSet(F, In(h))
      BY <1>2, <3>3, SumSame
    <3> QED BY <3>1, <3>2, <3>4
  <2> HIDE DEF F, p, K, H, latest
  <2>4. SumFunctionOnSet(F, latest) = SumFunctionOnSet(K, H)
    <3>1. IsFiniteSet(latest)
      BY <1>2
    <3>2. GroupSums(F, latest, p, K, H)
      BY <2>2, <2>3 DEF GroupSums
    <3> QED BY <3>1, <3>2, <2>1, SumGrouped
  <2>5. Sum(LAMBDA h : costs.rows[h].cost, DOMAIN costs.rows) = SumFunctionOnSet(K, H)
    BY <1>1 DEF Sum, K
  <2> QED BY <1>1, <2>4, <2>5 DEF F
<1> QED BY <1>1, <1>5, <1>6, <1>7 DEF costs, quote

\* The intervals of the table are such intervals.
LEMMA CostsOf == TableInv => FallbackIsSurfaced
<1> SUFFICES ASSUME TableInv, table # <<>> PROVE FallbackIsSurfaced
  BY DEF FallbackIsSurfaced
<1>1. PICK iv : iv = integrated_intervals(table, <<>>, 0) /\ iv \in Seq(Interval)
  BY IntervalsFacts DEF TableInv
<1> QED BY <1>1, CostsSurface DEF FallbackIsSurfaced

\* An hour whose price is the fallback is warned about, whenever the prices arrive, and the
\* totals of the day are those of the rows, whatever readings the table holds: build_summary
\* over integrated_intervals.
THEOREM FallbackSurfaced == Spec => []FallbackIsSurfaced
<1>1. Spec => []TableInv
  BY InitTable, TableStep, PTL DEF Spec
<1> QED BY <1>1, CostsOf, PTL

-----------------------------------------------------------------------------
(* The capacity step.                                                        *)

\* A finite set has a best element, by any total order.
LEMMA HasBest ==
  ASSUME NEW S, IsFiniteSet(S), S # {}, NEW R,
         \A x, y \in S : <<x, y>> \in R \/ <<y, x>> \in R,
         \A x, y, z \in S : <<x, y>> \in R /\ <<y, z>> \in R => <<x, z>> \in R
  PROVE  \E m \in S : \A x \in S : <<m, x>> \in R
<1> DEFINE Best(T) == \E m \in T : \A x \in T : <<m, x>> \in R
           Q == {T \in SUBSET S : T = {} \/ Best(T)}
<1>1. ASSUME NEW T \in SUBSET S, \A x \in T : T \ {x} \in Q, T # {} PROVE Best(T)
  <2>1. PICK y \in T : TRUE
    BY <1>1
  <2>2. CASE T \ {y} = {}
    <3>1. \A x \in T : x = y
      BY <2>2
    <3> QED BY <2>1, <3>1
  <2>3. CASE T \ {y} # {}
    <3>1. PICK m \in T \ {y} : \A x \in T \ {y} : <<m, x>> \in R
      BY <1>1, <2>3
    <3>2. CASE <<m, y>> \in R
      BY <3>1, <3>2
    <3>3. CASE <<y, m>> \in R
      <4>1. \A x \in T \ {y} : <<y, x>> \in R
        BY <3>1, <3>3
      <4>2. <<y, y>> \in R
        OBVIOUS
      <4> QED BY <4>1, <4>2
    <3> QED BY <3>1, <3>2, <3>3
  <2> QED BY <2>2, <2>3
<1>2. \A T \in SUBSET S : (\A x \in T : T \ {x} \in Q) => T \in Q
  BY <1>1
<1>3. \A T \in SUBSET S : T \in Q
  <2> HIDE DEF Q
  <2> QED BY <1>2, FiniteInduction
<1> QED BY <1>3

\* The elements with fewer than n before them are the n first, in a strict total order.
Earlier(S, R, x) == {y \in S : <<y, x>> \in R}
FirstOf(S, R, n) == {x \in S : Cardinality(Earlier(S, R, x)) < n}

\* Of two elements one is before the other.
StrictOrder(S, R) ==
  /\ \A x \in S : <<x, x>> \notin R
  /\ \A x, y \in S : x # y => <<x, y>> \in R \/ <<y, x>> \in R
  /\ \A x, y, z \in S : <<x, y>> \in R /\ <<y, z>> \in R => <<x, z>> \in R

\* None that is left out is before one that is taken.
LEMMA FirstAreFirst ==
  ASSUME NEW S, IsFiniteSet(S), NEW R, StrictOrder(S, R), NEW n \in Nat
  PROVE  /\ FirstOf(S, R, n) \subseteq S
         /\ \A x \in FirstOf(S, R, n), y \in S \ FirstOf(S, R, n) : <<x, y>> \in R
<1> SUFFICES ASSUME NEW x \in FirstOf(S, R, n), NEW y \in S \ FirstOf(S, R, n), <<x, y>> \notin R PROVE FALSE
  BY DEF FirstOf
<1>1. x \in S /\ y \in S /\ x # y
  BY DEF FirstOf
<1>2. <<y, x>> \in R
  BY <1>1 DEF StrictOrder
<1>3. Earlier(S, R, y) \subseteq Earlier(S, R, x)
  BY <1>1, <1>2 DEF StrictOrder, Earlier
<1>4. IsFiniteSet(Earlier(S, R, x)) /\ IsFiniteSet(Earlier(S, R, y))
  <2>1. Earlier(S, R, x) \subseteq S /\ Earlier(S, R, y) \subseteq S
    BY DEF Earlier
  <2> QED BY <2>1, FS_Subset
<1>5. /\ Cardinality(Earlier(S, R, y)) <= Cardinality(Earlier(S, R, x))
      /\ Cardinality(Earlier(S, R, y)) \in Nat /\ Cardinality(Earlier(S, R, x)) \in Nat
  BY <1>3, <1>4, FS_Subset, FS_CardinalityType
<1>6. Cardinality(Earlier(S, R, x)) < n /\ ~ (Cardinality(Earlier(S, R, y)) < n)
  BY <1>1 DEF FirstOf
<1> QED BY <1>5, <1>6

\* They are n, or all there are.
LEMMA FirstCount ==
  ASSUME NEW S, IsFiniteSet(S), NEW R, StrictOrder(S, R), NEW n \in Nat
  PROVE  Cardinality(FirstOf(S, R, n)) = Smaller(n, Cardinality(S))
<1> DEFINE Q == {T \in SUBSET S : Cardinality(FirstOf(T, R, n)) = Smaller(n, Cardinality(T))}
<1>1. ASSUME NEW T \in SUBSET S, \A x \in T : T \ {x} \in Q, T # {} PROVE T \in Q
  <2>0. IsFiniteSet(T) /\ Cardinality(T) \in Nat /\ \A x \in T : Cardinality(T \ {x}) = Cardinality(T) - 1
    BY PartFinite
  <2>1. PICK m \in T : \A x \in T : x # m => <<x, m>> \in R
    <3> DEFINE W == {e \in T \X T : e[1] = e[2] \/ <<e[2], e[1]>> \in R}
    <3>1. \A x, y \in T : <<x, y>> \in W <=> x = y \/ <<y, x>> \in R
      OBVIOUS
    <3> HIDE DEF W
    <3>2. \A x, y \in T : <<x, y>> \in W \/ <<y, x>> \in W
      BY <3>1 DEF StrictOrder
    <3>3. \A x, y, z \in T : <<x, y>> \in W /\ <<y, z>> \in W => <<x, z>> \in W
      BY <3>1 DEF StrictOrder
    <3>4. PICK m \in T : \A x \in T : <<m, x>> \in W
      BY <1>1, <2>0, <3>2, <3>3, HasBest
    <3> QED BY <3>1, <3>4
  <2> DEFINE U == T \ {m}
  <2>2. \A x \in U : Earlier(T, R, x) = Earlier(U, R, x)
    BY <2>1 DEF Earlier, StrictOrder
  <2>3. Earlier(T, R, m) = U
    BY <2>1 DEF Earlier, StrictOrder
  <2>4. Cardinality(U) = Cardinality(T) - 1 /\ Cardinality(U) \in Nat /\ IsFiniteSet(U)
    BY <2>0, FS_Subset, FS_CardinalityType
  <2>5. Cardinality(FirstOf(U, R, n)) = Smaller(n, Cardinality(U))
    BY <1>1
  <2>6. CASE Cardinality(U) < n
    <3>1. FirstOf(U, R, n) = U
      <4>1. FirstOf(U, R, n) \subseteq U
        BY DEF FirstOf
      <4>2. Cardinality(FirstOf(U, R, n)) = Cardinality(U)
        BY <2>4, <2>5, <2>6 DEF Smaller
      <4> QED BY <4>1, <4>2, <2>4, FS_Subset
    <3>2. FirstOf(T, R, n) = T
      BY <2>2, <2>3, <2>6, <3>1 DEF FirstOf
    <3>3. n >= Cardinality(T)
      BY <2>0, <2>4, <2>6
    <3> QED BY <2>0, <3>2, <3>3 DEF Smaller
  <2>7. CASE ~ (Cardinality(U) < n)
    <3>1. FirstOf(T, R, n) = FirstOf(U, R, n)
      BY <2>2, <2>3, <2>7 DEF FirstOf
    <3>2. Smaller(n, Cardinality(U)) = n /\ Smaller(n, Cardinality(T)) = n
      BY <2>0, <2>4, <2>7 DEF Smaller
    <3> QED BY <2>5, <3>1, <3>2
  <2> QED BY <2>6, <2>7
<1>2. {} \in Q
  <2>1. FirstOf({}, R, n) = {}
    BY DEF FirstOf
  <2> QED BY <2>1, FS_EmptySet DEF Smaller
<1>3. \A T \in SUBSET S : (\A x \in T : T \ {x} \in Q) => T \in Q
  BY <1>1, <1>2
<1>4. \A T \in SUBSET S : T \in Q
  <2> HIDE DEF Q
  <2> QED BY <1>3, FiniteInduction
<1> QED BY <1>4

\* A sum grows with its elements, wherever they are found.
Dominated(R, G, b, S, F) ==
  /\ \A r \in R : b[r] \in S /\ G[r] \in Int /\ G[r] <= F[b[r]]
  /\ \A r, s \in R : b[r] = b[s] => r = s

Image(R, b) == {b[r] : r \in R}

LEMMA SumDominated ==
  ASSUME NEW R, IsFiniteSet(R), NEW S, IsFiniteSet(S), NEW F, \A x \in S : F[x] \in Int,
         NEW G, NEW b, Dominated(R, G, b, S, F)
  PROVE  /\ Image(R, b) \subseteq S /\ Cardinality(Image(R, b)) = Cardinality(R)
         /\ SumFunctionOnSet(G, R) <= SumFunctionOnSet(F, Image(R, b))
<1> DEFINE Q == {T \in SUBSET R : /\ Cardinality(Image(T, b)) = Cardinality(T)
                                  /\ SumFunctionOnSet(G, T) <= SumFunctionOnSet(F, Image(T, b))}
<1>1. ASSUME NEW T \in SUBSET R, NEW x \in T, T \ {x} \in Q
      PROVE  T \in Q
  <2> DEFINE U == T \ {x}
  <2>1. b[x] \in Image(T, b) /\ Image(U, b) = Image(T, b) \ {b[x]} /\ Image(T, b) \subseteq S
    BY DEF Image, Dominated
  <2>2. IsFiniteSet(Image(T, b))
    BY <2>1, FS_Subset
  <2>3. Cardinality(Image(T, b)) = Cardinality(T)
    <3>1. Cardinality(U) = Cardinality(T) - 1 /\ Cardinality(T) \in Nat
      BY PartFinite
    <3>2. Cardinality(Image(U, b)) = Cardinality(Image(T, b)) - 1 /\ Cardinality(Image(T, b)) \in Nat
      <4> DEFINE I == Image(T, b)  J == Image(U, b)  e == b[x]
      <4>1. e \in I /\ J = I \ {e} /\ IsFiniteSet(I)
        BY <2>1, <2>2
      <4> HIDE DEF I, J, e
      <4>2. Cardinality(I \ {e}) = Cardinality(I) - 1 /\ Cardinality(I) \in Nat
        BY <4>1, FS_RemoveElement, FS_CardinalityType
      <4> QED BY <4>1, <4>2 DEF I, J
    <3>3. Cardinality(Image(U, b)) = Cardinality(U)
      BY <1>1
    <3> QED BY <3>1, <3>2, <3>3
  <2>4. SumFunctionOnSet(F, Image(T, b)) = F[b[x]] + SumFunctionOnSet(F, Image(U, b))
    <3> DEFINE I == Image(T, b)  J == Image(U, b)  e == b[x]
    <3>1. I \in SUBSET S /\ e \in I /\ J = I \ {e}
      BY <2>1
    <3> HIDE DEF I, J, e
    <3>2. SumFunctionOnSet(F, I) = F[e] + SumFunctionOnSet(F, I \ {e})
      BY <3>1, SumFacts
    <3> QED BY <3>1, <3>2 DEF I, J, e
  <2>5. SumFunctionOnSet(G, T) = G[x] + SumFunctionOnSet(G, U)
    BY SumFacts DEF Dominated
  <2>6. SumFunctionOnSet(G, U) <= SumFunctionOnSet(F, Image(U, b))
    BY <1>1
  <2>7. G[x] \in Int /\ F[b[x]] \in Int /\ G[x] <= F[b[x]]
    BY <2>1 DEF Dominated
  <2>8. SumFunctionOnSet(G, U) \in Int /\ SumFunctionOnSet(F, Image(U, b)) \in Int
    <3>1. SumFunctionOnSet(G, U) \in Int
      BY SumFacts DEF Dominated
    <3>2. Image(U, b) \in SUBSET S
      BY <2>1
    <3> QED BY <3>1, <3>2, SumFacts
  <2>9. SumFunctionOnSet(G, T) <= SumFunctionOnSet(F, Image(T, b))
    <3> DEFINE u == SumFunctionOnSet(G, U)  v == SumFunctionOnSet(F, Image(U, b))
    <3> HIDE DEF u, v
    <3> QED BY <2>4, <2>5, <2>6, <2>7, <2>8 DEF u, v
  <2> QED BY <2>3, <2>9
<1>2. {} \in Q
  <2>1. Image({}, b) = {}
    BY DEF Image
  <2> QED BY <2>1, SumEmpty, FS_EmptySet
<1>3. \A T \in SUBSET R : (\A x \in T : T \ {x} \in Q) => T \in Q
  BY <1>1, <1>2
<1>4. \A T \in SUBSET R : T \in Q
  <2> HIDE DEF Q
  <2> QED BY <1>3, FiniteInduction
<1> QED BY <1>4 DEF Image, Dominated

\* As many elements, none of them above what was taken: a sum that is not larger.
LEMMA SumOfLargest ==
  ASSUME NEW S, IsFiniteSet(S), NEW F, \A x \in S : F[x] \in Int, NEW T \in SUBSET S,
         \A x \in T, y \in S \ T : F[y] <= F[x]
  PROVE  \A U \in SUBSET S :
           Cardinality(U) = Cardinality(T) => SumFunctionOnSet(F, U) <= SumFunctionOnSet(F, T)
<1> DEFINE Below(U) == Cardinality(U) = Cardinality(T) => SumFunctionOnSet(F, U) <= SumFunctionOnSet(F, T)
           Q == {V \in SUBSET S : \A U \in SUBSET S : U \ T = V => Below(U)}
<1>0. /\ \A U \in SUBSET S : IsFiniteSet(U) /\ Cardinality(U) \in Nat
      /\ \A U \in SUBSET S : SumFunctionOnSet(F, U) \in Int
  BY PartFinite, SumFacts
<1>1. ASSUME NEW V \in SUBSET S, \A x \in V : V \ {x} \in Q,
             NEW U \in SUBSET S, U \ T = V, Cardinality(U) = Cardinality(T)
      PROVE  SumFunctionOnSet(F, U) <= SumFunctionOnSet(F, T)
  <2>1. CASE V = {}
    <3>1. U \subseteq T
      BY <1>1, <2>1
    <3>2. U = T
      BY <1>0, <1>1, <3>1, FS_Subset
    <3> QED BY <1>0, <3>2
  <2>2. CASE V # {}
    <3>1. PICK y \in V : TRUE
      BY <2>2
    <3>2. y \in U /\ y \notin T /\ y \in S
      BY <1>1, <3>1
    <3>3. PICK x \in T : x \notin U
      <4> SUFFICES ASSUME T \subseteq U PROVE FALSE
        OBVIOUS
      <4>1. T = U
        BY <1>0, <1>1, FS_Subset
      <4> QED BY <4>1, <3>2
    <3> DEFINE C == U \ {y}
               W == C \cup {x}
    <3>4. W \in SUBSET S /\ W \ T = V \ {y} /\ C \in SUBSET S /\ x \notin C /\ W \ {x} = C
      BY <1>1, <3>2, <3>3
    <3>5. Cardinality(W) = Cardinality(U)
      <4>1. Cardinality(C) = Cardinality(U) - 1
        BY <1>0, <3>2, FS_RemoveElement
      <4>2. Cardinality(W) = Cardinality(C) + 1
        BY <1>0, <3>4, FS_AddElement
      <4> QED BY <1>0, <4>1, <4>2
    <3>6. SumFunctionOnSet(F, W) <= SumFunctionOnSet(F, T)
      BY <1>1, <3>1, <3>4, <3>5
    <3>7. SumFunctionOnSet(F, W) = F[x] + SumFunctionOnSet(F, C)
      BY <3>4, SumFacts
    <3>8. SumFunctionOnSet(F, U) = F[y] + SumFunctionOnSet(F, C)
      BY <3>2, SumFacts
    <3>9. F[y] <= F[x] /\ F[x] \in Int /\ F[y] \in Int
      BY <3>2, <3>3
    <3>10. SumFunctionOnSet(F, C) \in Int /\ SumFunctionOnSet(F, T) \in Int
      BY <1>0, <3>4
    <3> DEFINE c == SumFunctionOnSet(F, C)
    <3> HIDE DEF c, C, W
    <3> QED BY <3>6, <3>7, <3>8, <3>9, <3>10 DEF c
  <2> QED BY <2>1, <2>2
<1>2. \A V \in SUBSET S : (\A x \in V : V \ {x} \in Q) => V \in Q
  BY <1>1
<1>3. \A V \in SUBSET S : V \in Q
  <2> HIDE DEF Q
  <2> QED BY <1>2, FiniteInduction
<1>4. \A U \in SUBSET S : U \ T \in SUBSET S
  OBVIOUS
<1> QED BY <1>3, <1>4

\* What an hour of the month is to the estimate.
HourRecord == [day : Int, hour : Int, kw : {Ratio(k, 1) : k \in Nat}]

\* The hours of a month: each hour once.
Hourly(rows) ==
  IsFiniteSet(rows) /\ rows \subseteq HourRecord /\ \A r, s \in rows : r.hour = s.hour => r = s

\* Hours of a month are records of whole ratios.
LEMMA HourTypes ==
  ASSUME NEW r \in HourRecord
  PROVE  r.day \in Int /\ r.hour \in Int /\ r.kw.sum \in Nat /\ r.kw.count = 1
  BY DEF HourRecord, Ratio

\* Whole ratios are ordered as their numerators.
LEMMA WholeRatios ==
  ASSUME NEW a, NEW b, a.count = 1, b.count = 1, a.sum \in Int, b.sum \in Int
  PROVE  (AboveRatio(a, b) <=> a.sum > b.sum) /\ (SameRatio(a, b) <=> a.sum = b.sum)
  BY DEF AboveRatio, SameRatio

\* The energies to add.
Kws(rows) == [r \in rows |-> r.kw.sum]

\* The mean of the hours: their sum and their number.
LEMMA MeanIs ==
  ASSUME NEW S, IsFiniteSet(S), S \subseteq HourRecord
  PROVE  Mean(S) = Ratio(SumFunctionOnSet(Kws(S), S), Larger(1, Cardinality(S)))
<1> DEFINE F == Kws(S)
           op(x, acc) == AddRatio(acc, x.kw)
           Fold(f) == f = [s \in SUBSET S |-> IF s = {} THEN Ratio(0, 1) ELSE op(Pick(s), f[s \ {Pick(s)}])]
           total == CHOOSE f : Fold(f)
<1>1. \A x \in S : F[x] = x.kw.sum /\ F[x] \in Int /\ x.kw.count = 1 /\ x.kw.sum \in Int
  BY HourTypes DEF Kws
<1> HIDE DEF F
<1>2. PICK g : Added(F, S, g) /\ SumFunctionOnSet(F, S) = g[S]
  BY SumIs
<1>3. \A T \in SUBSET S : g[T] \in Int
  BY <1>1, <1>2, AddedInt
<1>4. ASSUME NEW x \in S, NEW n \in Int PROVE op(x, Ratio(n, 1)) = Ratio(F[x] + n, 1)
  BY <1>1 DEF AddRatio, Ratio
<1>5. \A T \in SUBSET S : T # {} => /\ Pick(T) \in S /\ T \ {Pick(T)} \in SUBSET S
                                    /\ g[T] = F[Pick(T)] + g[T \ {Pick(T)}]
  BY <1>2, PickIn DEF Added
<1>6. Fold([T \in SUBSET S |-> Ratio(g[T], 1)])
  <2> DEFINE f == [T \in SUBSET S |-> Ratio(g[T], 1)]
  <2>1. ASSUME NEW T \in SUBSET S, T # {} PROVE f[T] = op(Pick(T), f[T \ {Pick(T)}])
    BY <2>1, <1>3, <1>4, <1>5
  <2>2. f[{}] = Ratio(0, 1)
    BY <1>2 DEF Added
  <2> HIDE DEF op
  <2>3. \A T \in SUBSET S : f[T] = IF T = {} THEN Ratio(0, 1) ELSE op(Pick(T), f[T \ {Pick(T)}])
    BY <2>1, <2>2
  <2> QED BY <2>3
<1>7. Fold(total)
  <2> HIDE DEF Fold
  <2> QED BY <1>6
<1>8. \A T \in SUBSET S : total[T] = Ratio(g[T], 1)
  <2> HIDE DEF total
  <2> DEFINE Q == {T \in SUBSET S : total[T] = Ratio(g[T], 1)}
  <2>1. ASSUME NEW T \in SUBSET S, \A x \in T : T \ {x} \in Q PROVE total[T] = Ratio(g[T], 1)
    <3>1. CASE T = {}
      BY <1>2, <1>7, <3>1 DEF Added
    <3>2. CASE T # {}
      <4>1. total[T] = op(Pick(T), total[T \ {Pick(T)}])
        BY <1>7, <3>2
      <4>2. total[T \ {Pick(T)}] = Ratio(g[T \ {Pick(T)}], 1)
        BY <2>1, <3>2, PickIn
      <4> HIDE DEF op
      <4> QED BY <4>1, <4>2, <3>2, <1>3, <1>4, <1>5
    <3> QED BY <3>1, <3>2
  <2>2. \A T \in SUBSET S : (\A x \in T : T \ {x} \in Q) => T \in Q
    BY <2>1
  <2>3. \A T \in SUBSET S : T \in Q
    <3> HIDE DEF Q
    <3> QED BY <2>2, FiniteInduction
  <2> QED BY <2>3
<1>9. Mean(S) = Ratio(total[S].sum, total[S].count * Larger(1, Cardinality(S)))
  BY DEF Mean, FoldSet, MapThenFoldSet, Pick
<1>10. Larger(1, Cardinality(S)) \in Int
  BY FS_CardinalityType DEF Larger
<1> HIDE DEF total
<1>11. total[S].sum = g[S] /\ total[S].count = 1
  <2>1. S \in SUBSET S
    OBVIOUS
  <2>2. total[S] = Ratio(g[S], 1)
    BY ONLY <1>8, <2>1
  <2> QED BY <2>2 DEF Ratio
<1> QED BY <1>2, <1>9, <1>10, <1>11 DEF F

\* Every day with an import has one best hour.
LEMMA BestHours ==
  ASSUME NEW rows, Hourly(rows)
  PROVE  LET best == BestByDay(rows) IN
         /\ best \subseteq AnyHours(rows) /\ IsFiniteSet(AnyHours(rows)) /\ IsFiniteSet(best)
         /\ \A r \in AnyHours(rows) : \E b \in best : b.day = r.day /\ r.kw.sum <= b.kw.sum
         /\ \A r, s \in best : r.day = s.day => r = s
<1> DEFINE any == AnyHours(rows)
           Beats(r, s) == AboveRatio(r.kw, s.kw) \/ (SameRatio(r.kw, s.kw) /\ r.hour <= s.hour)
           best == BestByDay(rows)
<1>1. any \subseteq rows /\ IsFiniteSet(any)
  <2>1. any \subseteq rows
    BY DEF AnyHours
  <2> QED BY <2>1, FS_Subset DEF Hourly
<1>2. best = {r \in any : \A s \in any : s.day = r.day => Beats(r, s)}
  BY DEF BestByDay
<1>3. best \subseteq any /\ IsFiniteSet(best)
  <2>1. best \subseteq any
    BY <1>2
  <2> HIDE DEF best, any
  <2> QED BY <2>1, <1>1, FS_Subset
<1>4. \A r \in rows : r.day \in Int /\ r.hour \in Int /\ r.kw.sum \in Int /\ r.kw.count = 1
  BY HourTypes DEF Hourly
<1>5. \A r, s \in rows : Beats(r, s) <=> r.kw.sum > s.kw.sum \/ (r.kw.sum = s.kw.sum /\ r.hour <= s.hour)
  BY <1>4, WholeRatios
<1>6. \A r, s \in rows : r.hour = s.hour => r = s
  BY DEF Hourly
<1> HIDE DEF Beats, best, any
<1>7. ASSUME NEW r \in any PROVE \E b \in best : b.day = r.day /\ r.kw.sum <= b.kw.sum
  <2> DEFINE S == {s \in any : s.day = r.day}
             R == {e \in S \X S : Beats(e[1], e[2])}
  <2>1. IsFiniteSet(S) /\ S # {} /\ S \subseteq rows
    <3>1. S \subseteq any /\ r \in S
      OBVIOUS
    <3> QED BY <3>1, <1>1, FS_Subset
  <2>2. \A x, y \in S : <<x, y>> \in R <=> Beats(x, y)
    OBVIOUS
  <2>3. \A x, y \in S : <<x, y>> \in R \/ <<y, x>> \in R
    <3> TAKE x, y \in S
    <3>1. x \in rows /\ y \in rows
      BY <2>1
    <3>2. Beats(x, y) \/ Beats(y, x)
      BY <3>1, <1>4, <1>5
    <3> QED BY <2>2, <3>2
  <2>4. \A x, y, z \in S : <<x, y>> \in R /\ <<y, z>> \in R => <<x, z>> \in R
    BY <2>1, <2>2, <1>4, <1>5
  <2>5. PICK b \in S : \A x \in S : <<b, x>> \in R
    <3> HIDE DEF S, R
    <3> QED BY <2>1, <2>3, <2>4, HasBest
  <2>6. b \in best
    BY <1>2, <2>2, <2>5
  <2>7. r.kw.sum <= b.kw.sum
    <3>1. Beats(b, r) /\ b \in rows /\ r \in rows
      BY <2>1, <2>2, <2>5, <1>1
    <3> QED BY <3>1, <1>4, <1>5
  <2> QED BY <2>5, <2>6, <2>7
<1>8. ASSUME NEW r \in best, NEW s \in best, r.day = s.day PROVE r = s
  <2>1. Beats(r, s) /\ Beats(s, r) /\ r \in rows /\ s \in rows
    BY <1>1, <1>2, <1>8
  <2>2. r.hour = s.hour
    BY <2>1, <1>4, <1>5
  <2> QED BY <2>1, <2>2, <1>6
<1> QED BY <1>1, <1>3, <1>7, <1>8 DEF best, any

\* The three first of them: as many as there are, and none of the others is higher.
LEMMA TopHours ==
  ASSUME NEW rows, Hourly(rows)
  PROVE  LET best == BestByDay(rows)  top == Top3(rows) IN
         /\ top \subseteq best /\ Cardinality(top) = Smaller(3, Cardinality(best))
         /\ \A r \in top, s \in best \ top : s.kw.sum <= r.kw.sum
<1> DEFINE best == BestByDay(rows)
           Before(a, b) == AboveRatio(a.kw, b.kw) \/ (SameRatio(a.kw, b.kw) /\ a.hour < b.hour)
           R == {e \in best \X best : Before(e[1], e[2])}
           top == Top3(rows)
<1>1. best \subseteq rows /\ IsFiniteSet(best)
  BY BestHours DEF AnyHours
<1>2. \A r \in rows : r.day \in Int /\ r.hour \in Int /\ r.kw.sum \in Int /\ r.kw.count = 1
  BY HourTypes DEF Hourly
<1>3. \A r, s \in rows : Before(r, s) <=> r.kw.sum > s.kw.sum \/ (r.kw.sum = s.kw.sum /\ r.hour < s.hour)
  BY <1>2, WholeRatios
<1>4. \A r, s \in rows : r.hour = s.hour => r = s
  BY DEF Hourly
<1>5. top = {r \in best : Cardinality({s \in best : Before(s, r)}) < 3}
  BY DEF Top3
<1> HIDE DEF Before, best
<1>6. \A x, y \in best : <<x, y>> \in R <=> Before(x, y)
  OBVIOUS
<1> HIDE DEF R, top
<1>7. top = FirstOf(best, R, 3)
  <2>1. \A r \in best : {s \in best : Before(s, r)} = Earlier(best, R, r)
    BY <1>6 DEF Earlier
  <2> QED BY <2>1, <1>5 DEF FirstOf
<1>8. StrictOrder(best, R)
  <2>1. \A x, y \in best : <<x, y>> \in R <=> x.kw.sum > y.kw.sum \/ (x.kw.sum = y.kw.sum /\ x.hour < y.hour)
    BY <1>1, <1>3, <1>6
  <2>2. \A x \in best : x.kw.sum \in Int /\ x.hour \in Int
    BY <1>1, <1>2
  <2>3. \A x, y \in best : x.hour = y.hour => x = y
    BY <1>1, <1>4
  <2> QED BY ONLY <2>1, <2>2, <2>3 DEF StrictOrder
<1>9. top \subseteq best /\ \A x \in top, y \in best \ top : <<x, y>> \in R
  BY <1>1, <1>7, <1>8, FirstAreFirst
<1>10. Cardinality(top) = Smaller(3, Cardinality(best))
  BY <1>1, <1>7, <1>8, FirstCount
<1>11. ASSUME NEW r \in top, NEW s \in best \ top PROVE s.kw.sum <= r.kw.sum
  <2>1. r \in rows /\ s \in rows /\ Before(r, s)
    BY <1>1, <1>6, <1>9
  <2> QED BY <2>1, <1>2, <1>3
<1> QED BY <1>9, <1>10, <1>11 DEF best, top

\* Three hours of different days, or as many as there are days.
DayChoices(rows) ==
  LET import == AnyHours(rows)
      days == {r.day : r \in import}
  IN {R \in SUBSET import : /\ \A r, s \in R : r # s => r.day # s.day
                            /\ Cardinality(R) = Smaller(3, Cardinality(days))}

\* A choice has no more hours than there are days.
LEMMA AsManyDays ==
  ASSUME NEW rows, Hourly(rows)
  PROVE  LET days == {r.day : r \in AnyHours(rows)} IN
         IsFiniteSet(days) /\ Cardinality(BestByDay(rows)) = Cardinality(days)
<1> DEFINE best == BestByDay(rows)
           days == {r.day : r \in AnyHours(rows)}
           f == [b \in best |-> b.day]
<1>1. IsFiniteSet(best)
  BY BestHours
<1>2. f \in Bijection(best, days)
  <2>1. \A b \in best : b.day \in days
    BY BestHours
  <2>2. \A d \in days : \E b \in best : b.day = d
    BY BestHours
  <2>3. \A r, s \in best : r.day = s.day => r = s
    BY BestHours
  <2> HIDE DEF best, days
  <2>4. f \in Injection(best, days)
    BY <2>1, <2>3 DEF Injection, IsInjective
  <2>5. f \in Surjection(best, days)
    BY <2>1, <2>2 DEF Surjection
  <2> QED BY <2>4, <2>5 DEF Bijection
<1> HIDE DEF best, days, f
<1>3. IsFiniteSet(days) /\ Cardinality(days) = Cardinality(best)
  BY <1>1, <1>2, FS_Bijection DEF ExistsBijection
<1> QED BY <1>3 DEF best, days

\* No choice of hours of different days has a larger sum.
LEMMA TopIsLargest ==
  ASSUME NEW rows, Hourly(rows)
  PROVE  /\ Top3(rows) \in DayChoices(rows) /\ IsFiniteSet(Top3(rows)) /\ Top3(rows) \subseteq HourRecord
         /\ \A R \in DayChoices(rows) : ~ AboveRatio(Mean(R), Mean(Top3(rows)))
<1> DEFINE best == BestByDay(rows)  top == Top3(rows)  any == AnyHours(rows)
           days == {r.day : r \in any}
<1>1. /\ best \subseteq any /\ IsFiniteSet(any) /\ IsFiniteSet(best)
      /\ \A r \in any : \E b \in best : b.day = r.day /\ r.kw.sum <= b.kw.sum
      /\ \A r, s \in best : r.day = s.day => r = s
  BY BestHours
<1>2. /\ top \subseteq best /\ Cardinality(top) = Smaller(3, Cardinality(best))
      /\ \A r \in top, s \in best \ top : s.kw.sum <= r.kw.sum
  BY TopHours
<1>3. Cardinality(best) = Cardinality(days)
  BY AsManyDays
<1>4. any \subseteq HourRecord
  BY DEF AnyHours, Hourly
<1>5. DayChoices(rows) = {R \in SUBSET any : /\ \A r, s \in R : r # s => r.day # s.day
                                          /\ Cardinality(R) = Smaller(3, Cardinality(days))}
  BY DEF DayChoices
<1> HIDE DEF best, top, any, days
<1>6. top \in DayChoices(rows) /\ IsFiniteSet(top) /\ top \subseteq HourRecord
  <2>1. IsFiniteSet(top)
    BY <1>1, <1>2, FS_Subset
  <2> QED BY <2>1, <1>1, <1>2, <1>3, <1>4, <1>5
<1>7. ASSUME NEW R \in DayChoices(rows) PROVE ~ AboveRatio(Mean(R), Mean(top))
  <2> DEFINE b == [r \in R |-> CHOOSE x \in best : x.day = r.day /\ r.kw.sum <= x.kw.sum]
             F == Kws(best)
             G == Kws(R)
             C == Image(R, b)
  <2>1. R \subseteq any /\ IsFiniteSet(R) /\ R \subseteq HourRecord
    BY <1>1, <1>4, <1>5, FS_Subset
  <2>2. \A r \in R : b[r] \in best /\ b[r].day = r.day /\ r.kw.sum <= b[r].kw.sum
    BY <2>1, <1>1
  <2>3. \A x \in best : F[x] = x.kw.sum /\ F[x] \in Int
    BY <1>1, <1>4, HourTypes DEF Kws
  <2>4. \A r \in R : G[r] = r.kw.sum /\ G[r] \in Int
    BY <2>1, HourTypes DEF Kws
  <2>5. \A r, s \in R : b[r] = b[s] => r = s
    BY <2>2, <1>5
  <2> HIDE DEF b, F, G
  <2>6. Dominated(R, G, b, best, F)
    BY <2>2, <2>3, <2>4, <2>5 DEF Dominated
  <2> HIDE DEF C
  <2>7. /\ C \subseteq best /\ Cardinality(C) = Cardinality(R)
        /\ SumFunctionOnSet(G, R) <= SumFunctionOnSet(F, C)
    BY <1>1, <2>1, <2>3, <2>6, SumDominated DEF C
  <2>8. Cardinality(R) = Cardinality(top) /\ Cardinality(top) \in Nat
    BY <1>2, <1>3, <1>5, <1>6, FS_CardinalityType
  <2>9. SumFunctionOnSet(F, C) <= SumFunctionOnSet(F, top)
    <3>1. \A x \in top, y \in best \ top : F[y] <= F[x]
      BY <1>2, <2>3
    <3>2. top \in SUBSET best /\ C \in SUBSET best /\ Cardinality(C) = Cardinality(top)
      BY <1>2, <2>7, <2>8
    <3> QED BY <1>1, <2>3, <3>1, <3>2, SumOfLargest
  <2>10. SumFunctionOnSet(F, top) = SumFunctionOnSet(Kws(top), top)
    <3>1. \A x \in top : F[x] = Kws(top)[x]
      BY <1>2, <2>3 DEF Kws
    <3> QED BY <1>6, <3>1, SumSame
  <2>11. /\ SumFunctionOnSet(G, R) \in Int /\ SumFunctionOnSet(F, C) \in Int
         /\ SumFunctionOnSet(F, top) \in Int
    <3>1. SumFunctionOnSet(G, R) \in Int
      BY <2>1, <2>4, SumFacts
    <3>2. C \in SUBSET best /\ top \in SUBSET best
      BY <1>2, <2>7
    <3> QED BY <3>1, <3>2, <1>1, <2>3, SumFacts
  <2>12. PICK u, v, n : /\ u = SumFunctionOnSet(G, R) /\ v = SumFunctionOnSet(F, top) /\ n = Larger(1, Cardinality(top))
                        /\ u \in Int /\ v \in Int /\ n \in Int /\ n >= 1 /\ u <= v
    BY <2>7, <2>8, <2>9, <2>11 DEF Larger
  <2>13. Mean(R) = Ratio(u, n) /\ Mean(top) = Ratio(v, n)
    BY <2>1, <2>8, <2>10, <2>12, <1>6, MeanIs DEF G
  <2>14. u * n <= v * n
    BY <2>12
  <2> QED BY <2>12, <2>13, <2>14 DEF AboveRatio, Ratio
<1> QED BY <1>6, <1>7 DEF top

\* The steps of the ladder rise.
LEMMA LadderRises == \A i, j \in 1 .. Len(Ladder) : i < j => Ladder[i] < Ladder[j]
<1> DEFINE N == {n \in Nat : \A i, j \in 1 .. Len(Ladder) : i < j /\ j <= n => Ladder[i] < Ladder[j]}
<1>1. Len(Ladder) \in Nat /\ \A k \in 1 .. Len(Ladder) : Ladder[k] \in Nat
  BY LadderAssumption
<1>2. ASSUME NEW n \in N PROVE n + 1 \in N
  <2> SUFFICES ASSUME NEW i \in 1 .. Len(Ladder), NEW j \in 1 .. Len(Ladder), i < j, j <= n + 1
               PROVE  Ladder[i] < Ladder[j]
    OBVIOUS
  <2>1. CASE j <= n
    BY <2>1
  <2>2. CASE j = n + 1
    <3>1. j - 1 \in 1 .. Len(Ladder) /\ j \in 2 .. Len(Ladder)
      BY <1>1
    <3>2. Ladder[j - 1] < Ladder[j]
      BY <3>1, LadderAssumption
    <3>3. i = j - 1 \/ Ladder[i] < Ladder[j - 1]
      BY <2>2, <3>1, <1>1
    <3> QED BY <3>1, <3>2, <3>3, <1>1
  <2> QED BY <2>1, <2>2
<1>3. N = Nat
  <2>1. N \subseteq Nat /\ 0 \in N
    OBVIOUS
  <2> HIDE DEF N
  <2> QED BY <2>1, <1>2, CountUp
<1> QED BY <1>1, <1>3

\* The step chosen, and the ladder, for any basis.
LEMMA LadderOf ==
  ASSUME NEW basis, basis.sum \in Int, basis.count \in Nat \ {0}, NEW k, k = Chosen(basis)
  PROVE  /\ k \in 1 .. Len(Ladder)
         /\ k = Len(Ladder) \/ ~AboveRatio(basis, Step1(Ladder[k]))
         /\ k = 1 \/ AboveRatio(basis, Step1(Ladder[k - 1]))
         /\ \A j \in 1 .. Len(Ladder) :
              Visual(basis, j) = IF j < k THEN "passed" ELSE IF j = k THEN "active" ELSE "future"
<1> DEFINE n == Len(Ladder)
           Fits == {j \in 1 .. n : ~AboveRatio(basis, Step1(Ladder[j]))}
           C == {n} \cup Fits
<1>1. n \in Nat /\ n >= 1 /\ \A j \in 1 .. n : Ladder[j] \in Nat
  BY LadderAssumption
<1>2. IsFiniteSet(C) /\ C \subseteq 1 .. n /\ C # {}
  <2>1. C \subseteq 1 .. n
    BY <1>1
  <2>2. IsFiniteSet(1 .. n)
    BY <1>1, FS_Interval
  <2> QED BY <2>1, <2>2, FS_Subset
<1>3. k \in C /\ \A j \in C : k <= j
  <2>1. k = Min(C)
    BY DEF Chosen
  <2>2. C \subseteq Int
    BY <1>1, <1>2
  <2> HIDE DEF C
  <2> QED BY <2>1, <2>2, <1>2, MinIs
<1>4. PICK s, c : s = basis.sum /\ c = basis.count /\ s \in Int /\ c \in Int /\ c > 0
  OBVIOUS
<1>5. \A j \in 1 .. n : /\ AboveRatio(basis, Step1(Ladder[j])) <=> s > Ladder[j] * c
                        /\ AboveRatio(Step1(Ladder[j]), basis) <=> Ladder[j] * c > s
  BY <1>1, <1>4 DEF AboveRatio, Step1, Ratio
<1>6. \A j \in 1 .. n : Ladder[j] * c \in Int
  BY <1>1, <1>4
<1>7. k \in 1 .. n /\ (k = n \/ ~AboveRatio(basis, Step1(Ladder[k])))
  BY <1>2, <1>3
<1>8. \A j \in 1 .. n : j < k => AboveRatio(basis, Step1(Ladder[j]))
  BY <1>1, <1>3, <1>7
<1>9. \A j \in 1 .. n : j < k => ~AboveRatio(Step1(Ladder[j]), basis)
  BY <1>4, <1>5, <1>6, <1>8
<1>10. ASSUME NEW j \in 1 .. n, j > k PROVE AboveRatio(Step1(Ladder[j]), basis)
  <2>1. Ladder[k] < Ladder[j]
    BY <1>7, <1>10, LadderRises
  <2>2. ~ (s > Ladder[k] * c)
    BY <1>1, <1>5, <1>7, <1>10
  <2>3. PICK a, b : a = Ladder[k] /\ b = Ladder[j] /\ a \in Int /\ b \in Int
    BY <1>1, <1>7
  <2>4. b * c >= (a + 1) * c
    BY ONLY <2>1, <2>3, <1>4, Z3T(30)
  <2>5. (a + 1) * c = a * c + c /\ a * c \in Int /\ b * c \in Int
    BY <2>3, <1>4
  <2>6. b * c > s
    <3> DEFINE x == a * c  y == b * c
    <3>1. ~ (s > x) /\ y >= x + c /\ x \in Int /\ y \in Int
      BY <2>2, <2>3, <2>4, <2>5
    <3> HIDE DEF x, y
    <3>2. y > s
      BY ONLY <3>1, <1>4
    <3> QED BY <3>2 DEF y
  <2> QED BY <2>3, <2>6, <1>5
<1>11. k = 1 \/ AboveRatio(basis, Step1(Ladder[k - 1]))
  BY <1>1, <1>7, <1>8
<1>12. ASSUME NEW j \in 1 .. n
       PROVE  Visual(basis, j) = IF j < k THEN "passed" ELSE IF j = k THEN "active" ELSE "future"
  <2>1. CASE j < k
    BY <2>1, <1>1, <1>7, <1>9 DEF Visual, FullStatus
  <2>2. CASE j = k
    BY <2>2 DEF Visual, FullStatus
  <2>3. CASE j > k
    BY <2>3, <1>1, <1>7, <1>10 DEF Visual
  <2> QED BY <2>1, <2>2, <2>3, <1>1, <1>7
<1> QED BY <1>7, <1>11, <1>12

\* The hours of the month so far.
HoursInv ==
  /\ hours \in Seq(HourRecord)
  /\ \A i \in 1 .. Len(hours) : hours[i].day = hours[i].hour \div MaxHours
  /\ \A i, j \in 1 .. Len(hours) : i < j => hours[i].hour < hours[j].hour

\* The hours: none at first, then one more at a time.
LEMMA InitHours == Init => HoursInv
  BY DEF Init, NoData, HoursInv

\* ... and they stay so.
LEMMA HoursStep == HoursInv /\ [Next]_vars => HoursInv'
<1> SUFFICES ASSUME HoursInv, [Next]_vars PROVE HoursInv'
  OBVIOUS
<1>1. CASE AddHour
  <2>1. PICK day \in {0, 1}, kw \in Kw :
          LET h == IF hours = <<>> THEN 0
                   ELSE IF day = 0 THEN hours[Len(hours)].hour + 1
                   ELSE (hours[Len(hours)].day + 1) * MaxHours
          IN hours' = Append(hours, [day |-> h \div MaxHours, hour |-> h, kw |-> Ratio(kw, 1)])
    BY <1>1 DEF AddHour
  <2>2. PICK q, n, h : /\ q = hours /\ n = Len(q)
                       /\ h = IF q = <<>> THEN 0 ELSE IF day = 0 THEN q[n].hour + 1 ELSE (q[n].day + 1) * MaxHours
    OBVIOUS
  <2> DEFINE e == [day |-> h \div MaxHours, hour |-> h, kw |-> Ratio(kw, 1)]
  <2>3. /\ q \in Seq(HourRecord) /\ n \in Nat /\ hours' = Append(q, e) /\ kw \in Nat
        /\ \A i \in 1 .. n : q[i].day = q[i].hour \div MaxHours
        /\ \A i, j \in 1 .. n : i < j => q[i].hour < q[j].hour
    BY <2>1, <2>2, ViewsAssumption DEF HoursInv
  <2>4. MaxHours \in Nat /\ MaxHours > 0
    BY <1>1, <2>2, <2>3, ViewsAssumption DEF AddHour
  <2>5. \A i \in 1 .. n : q[i].hour \in Int /\ q[i].day \in Int
    <3> TAKE i \in 1 .. n
    <3>1. q[i] \in HourRecord
      BY <2>2, <2>3
    <3> QED BY <3>1, HourTypes
  <2>6. h \in Int /\ \A i \in 1 .. n : q[i].hour < h
    <3>1. CASE q = <<>>
      BY <2>2, <3>1
    <3>2. CASE q # <<>>
      <4>1. n \in 1 .. n /\ \A i \in 1 .. n : q[i].hour <= q[n].hour
        BY <3>2, <2>2, <2>3, <2>5
      <4>2. PICK t, d, M : t = q[n].hour /\ d = q[n].day /\ M = MaxHours /\ d = t \div M /\ t \in Int /\ d \in Int
        BY <4>1, <2>3, <2>5
      <4>3. (d + 1) * M \in Int /\ t < (d + 1) * M
        BY <4>2, <2>4
      <4>4. h \in Int /\ t < h
        <5>1. h = IF day = 0 THEN t + 1 ELSE (d + 1) * M
          BY <4>2, <2>2, <3>2
        <5>2. CASE day = 0
          BY <5>1, <5>2, <4>2
        <5>3. CASE day # 0
          BY <5>1, <5>3, <4>3
        <5> QED BY <5>2, <5>3
      <4> QED BY <4>1, <4>2, <4>4, <2>5
    <3> QED BY <3>1, <3>2
  <2>7. e \in HourRecord /\ e.day = e.hour \div MaxHours /\ e.hour = h
    <3>1. h \div MaxHours \in Int
      BY <2>4, <2>6
    <3> QED BY <3>1, <2>3, <2>6 DEF HourRecord
  <2> HIDE DEF e
  <2>8. /\ Append(q, e) \in Seq(HourRecord) /\ Len(Append(q, e)) = n + 1
        /\ Append(q, e)[n + 1] = e /\ \A i \in 1 .. n : Append(q, e)[i] = q[i]
    BY <2>2, <2>3, <2>7, AppendProperties
  <2>9. \A i \in 1 .. n + 1 : i \in 1 .. n \/ i = n + 1
    BY <2>3
  <2>10. PICK s : s = Append(q, e) /\ hours' = s
    BY <2>3
  <2>11. \A i \in 1 .. n + 1 : s[i].day = s[i].hour \div MaxHours
    BY <2>3, <2>7, <2>8, <2>9, <2>10
  <2>12. \A i, j \in 1 .. n + 1 : i < j => s[i].hour < s[j].hour
    <3> TAKE i, j \in 1 .. n + 1
    <3> HAVE i < j
    <3>1. i \in 1 .. n
      BY <2>3
    <3>2. CASE j = n + 1
      BY <3>1, <3>2, <2>6, <2>7, <2>8, <2>10
    <3>3. CASE j \in 1 .. n
      BY <3>1, <3>3, <2>3, <2>8, <2>10
    <3> QED BY <3>2, <3>3, <2>9
  <2> QED BY <2>8, <2>10, <2>11, <2>12 DEF HoursInv
<1>2. CASE hours' = hours
  BY <1>2 DEF HoursInv
<1> QED BY <1>1, <1>2 DEF Next, vars, AddReading, UseCommand, UsePage, UseWire

\* So the rows handed to the estimate are hours of a month.
LEMMA HoursAreHourly == HoursInv => Hourly(Rows)
<1> SUFFICES ASSUME HoursInv PROVE Hourly(Rows)
  OBVIOUS
<1>1. IsFiniteSet(1 .. Len(hours))
  BY FS_Interval DEF HoursInv
<1>2. IsFiniteSet(Rows)
  <2> DEFINE f == [i \in 1 .. Len(hours) |-> hours[i]]
  <2>1. f \in Surjection(1 .. Len(hours), Rows)
    BY DEF Surjection, Rows
  <2> HIDE DEF f
  <2> QED BY <1>1, <2>1, FS_Surjection
<1>3. Rows \subseteq HourRecord
  BY DEF HoursInv, Rows
<1>4. ASSUME NEW r \in Rows, NEW s \in Rows, r.hour = s.hour PROVE r = s
  <2>1. PICK i \in 1 .. Len(hours), j \in 1 .. Len(hours) : r = hours[i] /\ s = hours[j]
    BY DEF Rows
  <2>2. r.hour \in Int /\ s.hour \in Int
    BY <1>3, HourTypes
  <2>3. ~ (i < j) /\ ~ (j < i)
    BY <1>4, <2>1, <2>2 DEF HoursInv
  <2>4. i = j
    BY <2>3 DEF HoursInv
  <2> QED BY <2>1, <2>4
<1> QED BY <1>2, <1>3, <1>4 DEF Hourly

\* The estimate of those hours.
LEMMA CapacityOf == HoursInv => CapacityFollowsLadder
<1> SUFFICES ASSUME HoursInv PROVE CapacityFollowsLadder
  OBVIOUS
<1>1. PICK rows : rows = Rows /\ Hourly(rows)
  BY HoursAreHourly
<1> DEFINE basis == Mean(Top3(rows))
<1>2. /\ estimate.basis = basis /\ estimate.chosen = Chosen(basis)
      /\ estimate.steps = [j \in 1 .. Len(Ladder) |-> Visual(basis, j)]
  BY <1>1 DEF estimate, estimate_capacity
<1>3. /\ Top3(rows) \in DayChoices(rows)
      /\ \A R \in DayChoices(rows) : ~ AboveRatio(Mean(R), basis)
      /\ IsFiniteSet(Top3(rows)) /\ Top3(rows) \subseteq HourRecord
  BY <1>1, TopIsLargest
<1>4. basis.sum \in Int /\ basis.count \in Nat \ {0}
  <2>1. PICK T : T = Top3(rows) /\ IsFiniteSet(T) /\ T \subseteq HourRecord
    BY <1>3
  <2>2. basis = Ratio(SumFunctionOnSet(Kws(T), T), Larger(1, Cardinality(T)))
    BY <2>1, MeanIs
  <2>3. \A x \in T : Kws(T)[x] \in Int
    BY <2>1, HourTypes DEF Kws
  <2>4. SumFunctionOnSet(Kws(T), T) \in Int
    BY <2>1, <2>3, SumFacts
  <2>5. Larger(1, Cardinality(T)) \in Nat \ {0}
    BY <2>1, FS_CardinalityType DEF Larger
  <2> QED BY <2>2, <2>4, <2>5 DEF Ratio
<1> HIDE DEF basis
<1>5. PICK k : k = Chosen(basis)
  OBVIOUS
<1>6. /\ k = Len(Ladder) \/ ~AboveRatio(basis, Step1(Ladder[k]))
      /\ k = 1 \/ AboveRatio(basis, Step1(Ladder[k - 1]))
      /\ \A j \in 1 .. Len(Ladder) :
           Visual(basis, j) = IF j < k THEN "passed" ELSE IF j = k THEN "active" ELSE "future"
  BY <1>4, <1>5, LadderOf
<1>7. estimate.steps = [j \in 1 .. Len(Ladder) |-> IF j < k THEN "passed" ELSE IF j = k THEN "active" ELSE "future"]
  BY <1>2, <1>6
<1> DEFINE import == {r \in Rows : r.kw.sum > 0}
           days == {r.day : r \in import}
           Picks == {R \in SUBSET import : /\ \A r, s \in R : r # s => r.day # s.day
                                           /\ Cardinality(R) = Smaller(3, Cardinality(days))}
<1>8. DayChoices(rows) = Picks
  BY <1>1 DEF DayChoices, AnyHours
<1>9. \E R \in DayChoices(rows) : SameRatio(basis, Mean(R))
  BY <1>3 DEF SameRatio, basis
<1> HIDE DEF Picks
<1>10. /\ \E R \in Picks : SameRatio(estimate.basis, Mean(R))
       /\ \A R \in Picks : ~AboveRatio(Mean(R), estimate.basis)
  BY <1>2, <1>3, <1>8, <1>9
<1>11. /\ k = estimate.chosen
       /\ k = Len(Ladder) \/ ~AboveRatio(estimate.basis, Step1(Ladder[k]))
       /\ k = 1 \/ AboveRatio(estimate.basis, Step1(Ladder[k - 1]))
  BY <1>2, <1>5, <1>6
<1> QED BY <1>7, <1>10, <1>11 DEF CapacityFollowsLadder, Picks

\* The basis of the capacity estimate is the largest mean that three hours of three days have,
\* it lies in the step chosen, and the ladder shows what is passed, active and to come, for any
\* month of hours and any ladder: estimate_capacity_from_hourly.
THEOREM CapacityLadder == Spec => []CapacityFollowsLadder
<1>1. Spec => []HoursInv
  BY InitHours, HoursStep, PTL DEF Spec
<1> QED BY <1>1, CapacityOf, PTL

-----------------------------------------------------------------------------
(* The replay.                                                               *)

\* Sets whose elements correspond one to one have the same size.
LEMMA SameSize ==
  ASSUME NEW S, IsFiniteSet(S), NEW T, NEW f \in [S -> T],
         \A x, y \in S : f[x] = f[y] => x = y, \A z \in T : \E x \in S : f[x] = z
  PROVE  IsFiniteSet(T) /\ Cardinality(T) = Cardinality(S)
<1>1. f \in Bijection(S, T)
  BY DEF Bijection, Injection, Surjection, IsInjective
<1>2. ExistsBijection(S, T)
  BY <1>1 DEF ExistsBijection
<1> QED BY <1>2, FS_Bijection

\* A proper part has fewer elements.
LEMMA FewerElements ==
  ASSUME NEW S, IsFiniteSet(S), NEW T, T \subseteq S, NEW x \in S, x \notin T
  PROVE  Cardinality(T) < Cardinality(S) /\ Cardinality(T) \in Nat /\ Cardinality(S) \in Nat
<1>1. IsFiniteSet(T) /\ IsFiniteSet(S \ {x}) /\ T \subseteq S \ {x}
  BY FS_Subset
<1>2. Cardinality(T) <= Cardinality(S \ {x}) /\ Cardinality(T) \in Nat
  BY <1>1, FS_Subset, FS_CardinalityType
<1>3. Cardinality(S \ {x}) = Cardinality(S) - 1 /\ Cardinality(S) \in Nat
  BY FS_RemoveElement, FS_CardinalityType
<1> QED BY <1>2, <1>3

\* The elements below another: fewer for the smaller of two.
LEMMA FewerBelow ==
  ASSUME NEW S, IsFiniteSet(S), S \subseteq Int, NEW i \in S, NEW j \in S, i < j
  PROVE  Cardinality({m \in S : m < i}) < Cardinality({m \in S : m < j})
<1>1. /\ IsFiniteSet({m \in S : m < j}) /\ {m \in S : m < i} \subseteq {m \in S : m < j}
      /\ i \in {m \in S : m < j} /\ i \notin {m \in S : m < i}
  <2>1. \A m \in S : m < i => m < j
    OBVIOUS
  <2>2. ~ (i < i)
    OBVIOUS
  <2> QED BY <2>1, <2>2, FS_Subset
<1> QED BY <1>1, FewerElements

\* Of the larger of two numbers, fewer are above it.
LEMMA FewerAbove ==
  ASSUME NEW S, IsFiniteSet(S), S \subseteq Int, NEW i \in S, NEW j \in S, i < j
  PROVE  Cardinality({m \in S : m > j}) < Cardinality({m \in S : m > i})
<1>1. /\ IsFiniteSet({m \in S : m > i}) /\ {m \in S : m > j} \subseteq {m \in S : m > i}
      /\ j \in {m \in S : m > i} /\ j \notin {m \in S : m > j}
  <2>1. \A m \in S : m > j => m > i
    OBVIOUS
  <2>2. ~ (j > j) /\ j > i
    OBVIOUS
  <2> QED BY <2>1, <2>2, FS_Subset
<1> QED BY <1>1, FewerElements

\* Every element of a set has its place in the order.
LEMMA NthOf ==
  ASSUME NEW S, IsFiniteSet(S), S \subseteq Int, NEW j \in S
  PROVE  \E k \in 1 .. Cardinality(S) : Nth(S, k) = j
<1> DEFINE below == {m \in S : m < j}
           k == Cardinality(below) + 1
<1>1. Cardinality(below) < Cardinality(S) /\ Cardinality(below) \in Nat /\ Cardinality(S) \in Nat
  <2>1. below \subseteq S /\ j \notin below
    OBVIOUS
  <2> HIDE DEF below
  <2> QED BY <2>1, FewerElements
<1>2. k \in 1 .. Cardinality(S) /\ k - 1 = Cardinality(below)
  <2> HIDE DEF below
  <2> QED BY <1>1
<1>3. PICK i : i = Nth(S, k) /\ i \in S /\ Cardinality({m \in S : m < i}) = Cardinality(below)
  <2> HIDE DEF below, k
  <2>1. Nth(S, k) \in S /\ Cardinality({m \in S : m < Nth(S, k)}) = k - 1
    BY <1>2, NthIn
  <2> QED BY <1>2, <2>1
<1>4. ~ (i < j) /\ ~ (j < i)
  <2> SUFFICES ASSUME i < j \/ j < i PROVE FALSE
    OBVIOUS
  <2>1. Cardinality({m \in S : m < i}) \in Nat /\ Cardinality({m \in S : m < j}) \in Nat
    BY <1>1, <1>3
  <2>2. Cardinality({m \in S : m < i}) < Cardinality({m \in S : m < j})
        \/ Cardinality({m \in S : m < j}) < Cardinality({m \in S : m < i})
    BY <1>3, FewerBelow
  <2> QED BY <2>1, <2>2, <1>3
<1>5. i = j
  BY <1>3, <1>4
<1> QED BY <1>2, <1>3, <1>5

\* What is picked from a sequence.
LEMMA AtIs ==
  ASSUME NEW q, NEW E, IsFiniteSet(E), E \subseteq Int
  PROVE  /\ At(q, E) = [k \in 1 .. Cardinality(E) |-> q[Nth(E, k)]]
         /\ Len(At(q, E)) = Cardinality(E)
<1>1. /\ InOrder(E) = [k \in 1 .. Cardinality(E) |-> Nth(E, k)]
      /\ Cardinality(E) \in Nat /\ Len(InOrder(E)) = Cardinality(E)
  BY NthIn
<1>2. At(q, E) = [k \in 1 .. Cardinality(E) |-> q[Nth(E, k)]]
  BY <1>1 DEF At
<1> QED BY <1>1, <1>2

\* Mirrored, a set of places has as many.
LEMMA Mirror ==
  ASSUME NEW A, IsFiniteSet(A), A \subseteq Int, NEW n \in Int
  PROVE  IsFiniteSet({n - i : i \in A}) /\ Cardinality({n - i : i \in A}) = Cardinality(A)
<1> DEFINE B == {n - i : i \in A}
           f == [i \in A |-> n - i]
<1>1. f \in [A -> B]
  OBVIOUS
<1>2. \A x, y \in A : f[x] = f[y] => x = y
  OBVIOUS
<1>3. \A z \in B : \E x \in A : f[x] = z
  OBVIOUS
<1> HIDE DEF B, f
<1>4. IsFiniteSet(B) /\ Cardinality(B) = Cardinality(A)
  BY <1>1, <1>2, <1>3, SameSize
<1> QED BY <1>4 DEF B

-----------------------------------------------------------------------------
(* The records.                                                              *)

\* The places with a time.
Timed(q) == {i \in 1 .. Len(q) : q[i].t # NoTime}
Rising(q) == \A i, j \in Timed(q) : i < j => q[i].t < q[j].t

\* A clock that goes forward from one reading to the next goes forward.
LEMMA ForwardRises ==
  ASSUME NEW q \in Seq(Row), NEW d, d = Dated(Reverse(q)),
         \A i \in 1 .. Len(d) - 1 : Gap(d, i) > 0
  PROVE  /\ Rising(q)
         /\ \A a, b \in 1 .. Len(d) : a < b => d[a].t < d[b].t
<1> DEFINE T == Timed(q)
<1>1. IsFiniteSet(T) /\ T \subseteq Int /\ T \subseteq 1 .. Len(q)
  <2>1. IsFiniteSet(1 .. Len(q))
    BY FS_Interval
  <2> QED BY <2>1, FS_Subset DEF Timed
<1>2. d \in Seq(Row) /\ \A i \in 1 .. Len(d) : d[i].t \in Int
  <2>1. d \in Seq(Row)
    BY DatedFacts
  <2>2. \A i \in 1 .. Len(d) : d[i] \in Row
    BY <2>1
  <2> QED BY <2>1, <2>2 DEF Row
<1>3. d = At(q, T)
  BY ReverseTwice DEF Dated, Timed
<1>4. d = [k \in 1 .. Cardinality(T) |-> q[Nth(T, k)]] /\ Len(d) = Cardinality(T)
  <2> HIDE DEF T
  <2>1. /\ At(q, T) = [k \in 1 .. Cardinality(T) |-> q[Nth(T, k)]]
        /\ Len(At(q, T)) = Cardinality(T)
    BY <1>1, AtIs
  <2> QED BY <1>3, <2>1
<1>5. \A a, b \in 1 .. Len(d) : a < b => d[a].t < d[b].t
  <2> DEFINE N == {n \in Nat : \A a, b \in 1 .. Len(d) : a < b /\ b <= n => d[a].t < d[b].t}
  <2>1. 0 \in N
    BY <1>2
  <2>2. ASSUME NEW n \in N PROVE n + 1 \in N
    <3> SUFFICES ASSUME NEW a \in 1 .. Len(d), NEW b \in 1 .. Len(d), a < b, b <= n + 1
                 PROVE  d[a].t < d[b].t
      OBVIOUS
    <3>1. CASE b <= n
      BY <3>1
    <3>2. CASE b = n + 1
      <4>1. n \in 1 .. Len(d) - 1 /\ Gap(d, n) > 0 /\ n \in 1 .. Len(d)
        BY <3>2, <1>2
      <4>2. d[n].t < d[b].t
        BY <4>1, <3>2, <1>2 DEF Gap
      <4>3. a = n \/ (a < n /\ d[a].t < d[n].t)
        BY <3>2, <4>1
      <4> QED BY <4>1, <4>2, <4>3, <1>2
    <3> QED BY <3>1, <3>2
  <2>3. N = Nat
    <3>1. N \subseteq Nat
      OBVIOUS
    <3> HIDE DEF N
    <3> QED BY <2>1, <2>2, <3>1, CountUp
  <2>4. Len(d) \in N
    <3> HIDE DEF N
    <3>1. Len(d) \in Nat
      BY <1>2
    <3> QED BY <2>3, <3>1
  <2>5. \A b \in 1 .. Len(d) : b <= Len(d)
    BY <1>2
  <2> QED BY <2>4, <2>5
<1>6. ASSUME NEW i \in T, NEW j \in T, i < j PROVE q[i].t < q[j].t
  <2> HIDE DEF T
  <2>1. PICK a \in 1 .. Cardinality(T) : Nth(T, a) = i
    BY <1>1, NthOf
  <2>2. PICK b \in 1 .. Cardinality(T) : Nth(T, b) = j
    BY <1>1, NthOf
  <2>3. Cardinality({m \in T : m < i}) = a - 1 /\ Cardinality({m \in T : m < j}) = b - 1
    <3>1. \A k \in 1 .. Cardinality(T) : Cardinality({m \in T : m < Nth(T, k)}) = k - 1
      BY <1>1, NthIn
    <3>2. Cardinality({m \in T : m < Nth(T, a)}) = a - 1 /\ Cardinality({m \in T : m < Nth(T, b)}) = b - 1
      BY <3>1
    <3> QED BY <2>1, <2>2, <3>2
  <2>4. a < b
    <3>1. Cardinality({m \in T : m < i}) < Cardinality({m \in T : m < j})
      BY <1>1, <1>6, FewerBelow
    <3> QED BY <2>3, <3>1
  <2>5. d[a] = q[i] /\ d[b] = q[j] /\ a \in 1 .. Len(d) /\ b \in 1 .. Len(d)
    BY <1>4, <2>1, <2>2
  <2> QED BY <1>5, <2>4, <2>5
<1> QED BY <1>5, <1>6 DEF Rising

\* SQL and Python select and sort the same rows.
LEMMA SinceAgree ==
  ASSUME NEW q \in Seq(Row), q # <<>>, Rising(q), NEW since \in Int
  PROVE  /\ records_since_meter_time(q, <<>>, since, 0) = records_since_meter_time(q, Reverse(q), since, 0)
         /\ \A n \in Nat \ {0} : records_since_meter_time(q, <<>>, since, n)
                                   = records_since_meter_time(q, Reverse(q), since, n)
<1> DEFINE L == Len(q)
           r == Reverse(q)
           A == {i \in 1 .. Len(q) : q[i].t # NoTime /\ q[i].t >= since}
           B == {k \in 1 .. Len(r) : r[k].t # NoTime /\ r[k].t >= since}
           ids == NewestByTime(q, A)
           rows == [k \in 1 .. Len(ids) |-> q[ids[k]]]
<1>0. r \in Seq(Row) /\ Len(r) = L /\ \A i \in 1 .. L : r[i] = q[L - i + 1]
  BY ReverseFacts
<1>1. r # <<>> /\ L \in Nat /\ L > 0
  <2>1. L \in Nat /\ L > 0
    BY EmptySeq
  <2> QED BY <1>0, <2>1
<1>2. IsFiniteSet(A) /\ A \subseteq Int /\ A \subseteq 1 .. L /\ A \subseteq Timed(q)
  <2>1. IsFiniteSet(1 .. L)
    BY FS_Interval
  <2> QED BY <2>1, FS_Subset DEF Timed
<1>3. \A i \in 1 .. L : i \in A <=> (L + 1) - i \in B
  <2> SUFFICES ASSUME NEW i \in 1 .. L PROVE i \in A <=> (L + 1) - i \in B
    OBVIOUS
  <2>1. PICK j \in 1 .. L : j = (L + 1) - i /\ (L - j) + 1 = i
    <3>1. L \in Int
      BY <1>1
    <3> HIDE DEF L
    <3>2. (L + 1) - i \in 1 .. L /\ (L - ((L + 1) - i)) + 1 = i
      BY <3>1
    <3> QED BY <3>2
  <2>2. r[j] = q[i]
    BY <1>0, <2>1
  <2>3. j \in B <=> q[i].t # NoTime /\ q[i].t >= since
    <3> HIDE DEF r, L
    <3> QED BY <1>0, <2>2
  <2> QED BY <2>1, <2>3
<1>4. B = {(L + 1) - i : i \in A}
  <2>1. B \subseteq 1 .. L
    BY <1>0
  <2>2. \A k \in B : (L + 1) - k \in 1 .. L /\ (L + 1) - ((L + 1) - k) = k
    BY <2>1, <1>1
  <2> HIDE DEF A, B, L
  <2>3. ASSUME NEW k \in B PROVE (L + 1) - k \in A
    <3>1. PICK i \in 1 .. L : i = (L + 1) - k /\ (L + 1) - i = k
      BY <2>2
    <3>2. i \in A <=> (L + 1) - i \in B
      BY <1>3
    <3> QED BY <3>1, <3>2
  <2>4. ASSUME NEW i \in A PROVE (L + 1) - i \in B
    BY <1>2, <1>3
  <2> QED BY <2>2, <2>3, <2>4
<1>5. IsFiniteSet(B) /\ B \subseteq Int /\ Cardinality(B) = Cardinality(A) /\ Cardinality(A) \in Nat
  <2>1. L + 1 \in Int
    BY <1>1
  <2>2. B \subseteq Int
    OBVIOUS
  <2> HIDE DEF A, B, L
  <2> QED BY <1>2, <1>4, <2>1, <2>2, Mirror, FS_CardinalityType
<1>6. \A i, j \in A : Newer(q, j, i) <=> j > i
  <2> SUFFICES ASSUME NEW i \in A, NEW j \in A PROVE Newer(q, j, i) <=> j > i
    OBVIOUS
  <2>1. q[i].t \in Int /\ q[j].t \in Int /\ i \in Int /\ j \in Int
    <3>1. i \in 1 .. L /\ j \in 1 .. L
      BY <1>2
    <3> HIDE DEF A
    <3>2. q[i] \in Row /\ q[j] \in Row
      BY <3>1
    <3>3. q[i].t \in Int /\ q[j].t \in Int
      BY ONLY <3>2 DEF Row
    <3> QED BY <3>1, <3>3
  <2>2. (i < j => q[i].t < q[j].t) /\ (j < i => q[j].t < q[i].t)
    <3> HIDE DEF A
    <3> QED BY <1>2 DEF Rising
  <2> HIDE DEF A
  <2> QED BY <2>1, <2>2 DEF Newer
<1>7. ASSUME NEW k \in 1 .. Cardinality(A) PROVE ids[k] = (L + 1) - Nth(B, k) /\ Nth(B, k) \in B
  <2> HIDE DEF A, B
  <2>1. PICK b : b = Nth(B, k) /\ b \in B /\ Cardinality({m \in B : m < b}) = k - 1
    BY <1>5, NthIn
  <2>2. PICK i \in A : b = (L + 1) - i
    BY <1>4, <2>1
  <2> DEFINE Above(x) == {m \in A : m > x}
             Fresher(x) == {m \in A : Newer(q, m, x)}
  <2>3. Cardinality(Above(i)) = k - 1
    <3>1. {(L + 1) - m : m \in Above(i)} = {m \in B : m < b}
      <4>1. \A m \in A : m > i <=> (L + 1) - m < b
        BY <1>1, <1>2, <2>2
      <4> QED BY <4>1, <1>4
    <3>2. IsFiniteSet(Above(i)) /\ Above(i) \subseteq Int
      BY <1>2, FS_Subset
    <3>3. L + 1 \in Int
      BY <1>1
    <3> HIDE DEF Above, L
    <3> QED BY <2>1, <3>1, <3>2, <3>3, Mirror
  <2>4. \A x \in A : Fresher(x) = Above(x)
    BY <1>6
  <2>5. \A x \in A : Cardinality(Above(x)) = k - 1 => x = i
    <3> SUFFICES ASSUME NEW x \in A, Cardinality(Above(x)) = k - 1, x # i PROVE FALSE
      OBVIOUS
    <3>1. x < i \/ i < x
      BY <1>2
    <3>2. Cardinality(Above(x)) < Cardinality(Above(i)) \/ Cardinality(Above(i)) < Cardinality(Above(x))
      <4>1. CASE x < i
        BY <4>1, <1>2, FewerAbove
      <4>2. CASE i < x
        BY <4>2, <1>2, FewerAbove
      <4> QED BY <3>1, <4>1, <4>2
    <3> QED BY <3>2, <2>3
  <2>6. ids[k] = CHOOSE x \in A : Cardinality(Fresher(x)) = k - 1
    BY DEF NewestByTime
  <2>7. (CHOOSE x \in A : Cardinality(Fresher(x)) = k - 1) = i
    <3> HIDE DEF Fresher, Above
    <3>1. \A x \in A : Cardinality(Fresher(x)) = k - 1 <=> x = i
      BY <2>3, <2>4, <2>5
    <3> QED BY <3>1
  <2>8. i = (L + 1) - b
    <3> HIDE DEF L
    <3> QED BY <1>1, <1>2, <2>2
  <2> HIDE DEF ids, L, Fresher
  <2> QED BY <2>1, <2>6, <2>7, <2>8
<1>8. Len(ids) = Cardinality(A)
  BY <1>5 DEF NewestByTime
<1>9. rows = At(r, B)
  <2>1. At(r, B) = [k \in 1 .. Cardinality(B) |-> r[Nth(B, k)]]
    <3> HIDE DEF B, r
    <3> QED BY <1>5, AtIs, ZenonT(40)
  <2>2. ASSUME NEW k \in 1 .. Cardinality(A) PROVE q[ids[k]] = r[Nth(B, k)]
    <3>1. PICK b : b = Nth(B, k) /\ b \in B
      BY <1>7
    <3>2. b \in 1 .. L
      BY <3>1, <1>0
    <3>3. r[b] = q[L - b + 1] /\ L - b + 1 = (L + 1) - b
      BY <3>2, <1>0, <1>1
    <3> HIDE DEF ids, A, B, r, L
    <3> QED BY <3>1, <3>3, <1>7
  <2> HIDE DEF ids, A, B, r, L
  <2> QED BY <1>5, <1>8, <2>1, <2>2
<1>10. \A n : records_since_meter_time(q, <<>>, since, n) = IF n > 0 THEN Newest(n, rows) ELSE rows
  BY DEF records_since_meter_time, get_since_meter_time
<1>11. \A n : records_since_meter_time(q, r, since, n) = IF n > 0 THEN Newest(n, At(r, B)) ELSE At(r, B)
  BY <1>1 DEF records_since_meter_time
<1> HIDE DEF rows, B
<1> QED BY <1>9, <1>10, <1>11 DEF r

\* The newest of the newest.
LEMMA NewestTwice ==
  ASSUME NEW S, NEW q \in Seq(S), NEW n \in Nat, NEW m \in Nat, n <= m
  PROVE  Newest(n, SubSeq(q, 1, Smaller(m, Len(q)))) = Newest(n, q)
<1> DEFINE k == Smaller(m, Len(q))
           s == SubSeq(q, 1, k)
<1>1. k \in Nat /\ k <= Len(q) /\ Smaller(n, k) = Smaller(n, Len(q))
  BY DEF Smaller
<1>2. s = [i \in 1 .. k |-> q[i]] /\ Len(s) = k /\ s \in Seq(S)
  <2> HIDE DEF k
  <2> QED BY <1>1
<1>3. PICK e : e = Smaller(n, Len(q)) /\ e \in Nat /\ e <= k /\ e <= Len(q)
  BY <1>1 DEF Smaller
<1>4. SubSeq(s, 1, e) = SubSeq(q, 1, e)
  <2> HIDE DEF k, s
  <2>1. SubSeq(s, 1, e) = [i \in 1 .. e |-> s[i]] /\ SubSeq(q, 1, e) = [i \in 1 .. e |-> q[i]]
    BY <1>1, <1>2, <1>3
  <2>2. ASSUME NEW i \in 1 .. e PROVE s[i] = q[i]
    <3>1. i \in 1 .. k
      BY <1>1, <1>3
    <3> QED BY <1>2, <3>1
  <2> QED BY <2>1, <2>2
<1> HIDE DEF s
<1> QED BY <1>1, <1>2, <1>3, <1>4 DEF Newest, s

\* The body of ReplayLooksLikeLive.
LEMMA LooksLikeLive ==
  ASSUME TableInv, table # <<>>, Forward
  PROVE  ReplayLooksLikeLive
<1> DEFINE replay == ReplayRecords(table)
           R == Reverse(table)
<1>1. /\ table \in Seq(Row) /\ R \in Seq(Row) /\ Len(R) = Len(table) /\ Len(table) \in Nat /\ Len(table) > 0
      /\ ReplayMax \in Nat /\ ReplayMax > 0
  <2>1. table \in Seq(Row)
    BY DEF TableInv
  <2>2. Len(table) \in Nat /\ Len(table) > 0
    BY <2>1, EmptySeq
  <2> QED BY <2>1, <2>2, ReverseFacts, ReplayAssumption
<1>2. replay = SubSeq(R, 1, Smaller(ReplayMax, Len(R)))
  BY <1>1 DEF ReplayRecords
<1>3. Len(table) <= ReplayMax => replay = R
  <2> SUFFICES ASSUME Len(table) <= ReplayMax PROVE replay = R
    OBVIOUS
  <2>1. Smaller(ReplayMax, Len(R)) = Len(R)
    BY <1>1 DEF Smaller
  <2> HIDE DEF replay, R
  <2> QED BY <1>1, <1>2, <2>1
<1>4. replay # <<>>
  <2>1. PICK k : k = Smaller(ReplayMax, Len(R)) /\ k \in Nat /\ k > 0 /\ k <= Len(R)
    BY <1>1 DEF Smaller
  <2>2. Len(SubSeq(R, 1, k)) = k
    <3> HIDE DEF R
    <3> QED BY <1>1, <2>1
  <2> HIDE DEF replay, R
  <2> QED BY <1>2, <2>1, <2>2
<1>5. ASSUME NEW n \in 1 .. ReplayMax PROVE Newest(n, replay) = Newest(n, R) /\ n \in Nat /\ n > 0
  <2>1. n \in Nat /\ n <= ReplayMax /\ n > 0
    BY <1>1
  <2> HIDE DEF replay, R
  <2> QED BY <1>1, <1>2, <2>1, NewestTwice
<1>6. Rising(table) /\ \A i \in 1 .. Len(dated) : dated[i].t \in Int
  <2>1. PICK d : d = dated
    OBVIOUS
  <2>2. d = Dated(Reverse(table))
    BY <2>1 DEF dated, desc, get_all
  <2>3. d \in Seq(Row) /\ Rising(table)
    <3>1. \A i \in 1 .. Len(d) - 1 : Gap(d, i) > 0
      BY <2>1 DEF Forward
    <3> QED BY <1>1, <2>2, <3>1, DatedFacts, ForwardRises
  <2>4. \A i \in 1 .. Len(d) : d[i] \in Row
    BY <2>3
  <2> QED BY <2>1, <2>3, <2>4 DEF Row
<1>7. ASSUME NEW n \in 1 .. ReplayMax
      PROVE  /\ all_records_desc(table, <<>>, n) = all_records_desc(table, replay, n)
             /\ records_desc(table, <<>>, n) = records_desc(table, replay, n)
             /\ records_desc(table, <<>>, n) = Newest(n, R)
             /\ summary(table, <<>>, n) = summary(table, replay, n)
             /\ export_csv(table, n) = Reverse(records_desc(table, replay, n))
  <2> HIDE DEF replay
  <2> QED BY <1>4, <1>5, <1>7 DEF all_records_desc, records_desc, summary, get_summary, export_csv, get_recent, get_all
<1>8. ASSUME Len(table) <= ReplayMax, NEW n \in Nat, NEW since \in Int
      PROVE  records_since_meter_time(table, <<>>, since, n) = records_since_meter_time(table, replay, since, n)
  <2>1. n = 0 \/ n \in Nat \ {0}
    OBVIOUS
  <2> HIDE DEF replay
  <2> QED BY <1>1, <1>3, <1>6, <1>8, <2>1, SinceAgree
<1>9. ASSUME Len(table) <= ReplayMax, NEW n \in 1 .. ReplayMax
      PROVE  WeekSummary(table, <<>>, n) = WeekSummary(table, replay, n)
  <2> DEFINE recent == Newest(n, R)
             latest == recent[1].t
             since == WeekOf(latest) * WeekLen
  <2>1. latest \in Int
    <3>1. PICK k : k = Smaller(n, Len(R)) /\ k \in Nat /\ k > 0 /\ k <= Len(R)
      BY <1>1 DEF Smaller
    <3>2. SubSeq(R, 1, k)[1] = R[1] /\ R[1] \in Row
      <4> HIDE DEF R
      <4> QED BY <1>1, <3>1
    <3>3. recent[1] = R[1]
      <4> HIDE DEF R
      <4> QED BY <3>1, <3>2 DEF Newest
    <3> HIDE DEF recent, R
    <3> QED BY <3>2, <3>3 DEF Row
  <2>2. since \in Int
    <3> HIDE DEF latest
    <3>1. WeekLen \in Nat /\ WeekLen > 0
      <4>1. \A a, b \in Nat \ {0} : a * b \in Nat \ {0}
        OBVIOUS
      <4>2. PICK a \in Nat \ {0}, b \in Nat \ {0}, c \in Nat \ {0} :
              a = HourLen /\ b = HoursPerDay /\ c = DaysPerWeek
        BY CalendarAssumption
      <4>3. (a * b) * c \in Nat \ {0}
        BY <4>1
      <4> QED BY <4>2, <4>3 DEF WeekLen, DayLen
    <3>2. \A x \in Int, w \in Nat \ {0} : (x \div w) * w \in Int
      OBVIOUS
    <3> HIDE DEF WeekLen
    <3> QED BY <2>1, <3>1, <3>2 DEF WeekOf
  <2>3. records_since_meter_time(table, <<>>, since, 0) = records_since_meter_time(table, replay, since, 0)
    <3> HIDE DEF since, replay
    <3> QED BY <2>2, <1>8, <1>9
  <2>4. records_desc(table, <<>>, n) = recent /\ records_desc(table, replay, n) = recent
    <3> HIDE DEF recent, replay, R
    <3> QED BY <1>7 DEF recent
  <2> HIDE DEF recent, replay
  <2> QED BY <2>3, <2>4 DEF WeekSummary
<1> HIDE DEF replay
<1>10. \A n \in 1 .. ReplayMax, i \in 1 .. Len(dated) : n \in Nat /\ dated[i].t \in Int
  BY <1>1, <1>6
<1> QED BY <1>7, <1>8, <1>9, <1>10 DEF ReplayLooksLikeLive, replay

\* For any readings, repeated and missing times included: once they are all loaded as a replay
\* the history shows them as the database would, at every limit and since every time that was
\* read, and so does the summary of the week (history_service.py:50-87, storage.py:94-156).
THEOREM ReplayAsLive == Spec => []ReplayLooksLikeLive
<1>1. Spec => []TableInv
  BY InitTable, TableStep, PTL DEF Spec
<1>2. TableInv => ReplayLooksLikeLive
  BY LooksLikeLive DEF ReplayLooksLikeLive
<1> QED BY <1>1, <1>2, PTL

-----------------------------------------------------------------------------
(* The heatmap.                                                              *)

-----------------------------------------------------------------------------
(* More about sums.                                                          *)

\* What adds nothing can be left out.
LEMMA SumWithout ==
  ASSUME NEW S, IsFiniteSet(S), NEW T, T \subseteq S, NEW F, \A x \in S : F[x] \in Int,
         \A x \in S \ T : F[x] = 0
  PROVE  SumFunctionOnSet(F, S) = SumFunctionOnSet(F, T)
<1> DEFINE Q == {U \in SUBSET S : SumFunctionOnSet(F, U) = SumFunctionOnSet(F, U \cap T)}
<1>1. ASSUME NEW U \in SUBSET S, \A x \in U : U \ {x} \in Q
      PROVE  SumFunctionOnSet(F, U) = SumFunctionOnSet(F, U \cap T)
  <2>1. CASE U = {}
    <3>1. U \cap T = U
      BY <2>1
    <3> QED BY <3>1
  <2>2. CASE U # {}
    <3>1. PICK x \in U : TRUE
      BY <2>2
    <3>2. PICK a : a = SumFunctionOnSet(F, U \ {x}) /\ a \in Int
                   /\ SumFunctionOnSet(F, U) = F[x] + a
      BY SumFacts
    <3>3. a = SumFunctionOnSet(F, (U \ {x}) \cap T)
      BY <1>1, <3>1, <3>2
    <3>4. CASE x \in T
      <4>1. PICK V : V = U \cap T
        OBVIOUS
      <4>2. V \in SUBSET S /\ x \in V /\ V \ {x} = (U \ {x}) \cap T
        BY <4>1, <3>1, <3>4
      <4>3. SumFunctionOnSet(F, V) = F[x] + SumFunctionOnSet(F, V \ {x})
        BY <4>2, SumFacts
      <4>4. a = SumFunctionOnSet(F, V \ {x})
        BY <4>2, <3>3, Zenon
      <4>5. SumFunctionOnSet(F, V) = F[x] + a
        BY <4>3, <4>4, Zenon
      <4> QED BY <4>1, <4>5, <3>2, Zenon
    <3>5. CASE x \notin T
      <4>1. (U \ {x}) \cap T = U \cap T /\ F[x] = 0
        BY <3>5
      <4>2. a = SumFunctionOnSet(F, U \cap T)
        BY <4>1, <3>3, Zenon
      <4>3. F[x] + a = a
        BY <4>1, <3>2
      <4> QED BY <4>2, <4>3, <3>2, Zenon
    <3> QED BY <3>4, <3>5
  <2> QED BY <2>1, <2>2
<1>2. \A U \in SUBSET S : (\A x \in U : U \ {x} \in Q) => U \in Q
  BY <1>1
<1>3. \A U \in SUBSET S : U \in Q
  <2> HIDE DEF Q
  <2> QED BY <1>2, FiniteInduction
<1>4. S \cap T = T /\ S \in Q
  BY <1>3
<1> QED BY <1>4

\* The sums of groups, with groups that may be empty.
GroupsIn(F, S, p, K, D) ==
  (\A x \in S : p[x] \in D) /\ \A h \in D : K[h] = SumFunctionOnSet(F, {x \in S : p[x] = h})

LEMMA SumGroupedIn ==
  ASSUME NEW S, IsFiniteSet(S), NEW F, \A x \in S : F[x] \in Int,
         NEW D, IsFiniteSet(D), NEW p, NEW K, GroupsIn(F, S, p, K, D)
  PROVE  SumFunctionOnSet(F, S) = SumFunctionOnSet(K, D)
<1> DEFINE H == {p[x] : x \in S}
<1>1. H \subseteq D
  BY DEF GroupsIn
<1>2. GroupSums(F, S, p, K, H)
  BY <1>1 DEF GroupSums, GroupsIn
<1>3. SumFunctionOnSet(F, S) = SumFunctionOnSet(K, H)
  <2> HIDE DEF H
  <2> QED BY <1>2, SumGrouped
<1>4. ASSUME NEW h \in D PROVE K[h] \in Int
  <2>1. {x \in S : p[x] = h} \in SUBSET S
    OBVIOUS
  <2>2. SumFunctionOnSet(F, {x \in S : p[x] = h}) \in Int
    BY <2>1, SumFacts
  <2> QED BY <2>2 DEF GroupsIn
<1>5. ASSUME NEW h \in D \ H PROVE K[h] = 0
  <2>1. {x \in S : p[x] = h} = {}
    BY <1>5
  <2>2. K[h] = SumFunctionOnSet(F, {x \in S : p[x] = h})
    BY DEF GroupsIn
  <2> QED BY <2>1, <2>2, SumEmpty
<1> HIDE DEF H
<1>6. SumFunctionOnSet(K, D) = SumFunctionOnSet(K, H)
  BY <1>1, <1>4, <1>5, SumWithout
<1> QED BY <1>3, <1>6

\* Ones add up to the number of elements, and a constant to its multiple.
LEMMA SumCounts ==
  ASSUME NEW S, IsFiniteSet(S), NEW F, NEW c \in Int, \A x \in S : F[x] = c
  PROVE  SumFunctionOnSet(F, S) = c * Cardinality(S)
<1> DEFINE One == [x \in S |-> 1]
           Q == {T \in SUBSET S : SumFunctionOnSet(One, T) = Cardinality(T)}
<1>1. ASSUME NEW T \in SUBSET S, \A x \in T : T \ {x} \in Q PROVE SumFunctionOnSet(One, T) = Cardinality(T)
  <2>1. CASE T = {}
    BY <2>1, SumEmpty, FS_EmptySet
  <2>2. CASE T # {}
    <3>1. PICK x \in T : TRUE
      BY <2>2
    <3>2. \A y \in S : One[y] \in Int /\ One[y] = 1
      OBVIOUS
    <3> HIDE DEF One
    <3>3. SumFunctionOnSet(One, T) = 1 + SumFunctionOnSet(One, T \ {x})
      BY <3>2, SumFacts
    <3>4. Cardinality(T \ {x}) = Cardinality(T) - 1 /\ Cardinality(T) \in Nat
      BY PartFinite
    <3>5. SumFunctionOnSet(One, T \ {x}) = Cardinality(T \ {x})
      BY <1>1, <3>1
    <3> QED BY <3>3, <3>4, <3>5
  <2> QED BY <2>1, <2>2
<1>2. \A T \in SUBSET S : (\A x \in T : T \ {x} \in Q) => T \in Q
  BY <1>1
<1>3. S \in Q
  <2> HIDE DEF Q
  <2>1. \A T \in SUBSET S : T \in Q
    BY <1>2, FiniteInduction
  <2> QED BY <2>1
<1>4. \A x \in S : One[x] \in Int /\ F[x] = One[x] * c
  OBVIOUS
<1>5. SumFunctionOnSet(One, S) = Cardinality(S) /\ Cardinality(S) \in Nat
  BY <1>3, FS_CardinalityType
<1> HIDE DEF One
<1>6. SumFunctionOnSet(F, S) = SumFunctionOnSet(One, S) * c
  BY <1>4, SumScaled
<1> QED BY <1>5, <1>6

-----------------------------------------------------------------------------
(* The hours and their ticks.                                                *)

\* An hour has at least one tick.
LEMMA HourLenIs == HourLen \in Nat /\ HourLen > 0 /\ HalfHour \in Int
<1>1. HourLen \in Nat \ {0}
  BY CalendarAssumption
<1> QED BY <1>1 DEF HalfHour

\* The ticks of an hour.
LEMMA TicksOfHour ==
  ASSUME NEW u \in Int
  PROVE  /\ HourOf(u) \in Int
         /\ \A h \in Int : HourOf(u) = h <=> u \in h * HourLen .. (h + 1) * HourLen - 1
<1>1. PICK L \in Nat : L = HourLen /\ L > 0
  BY HourLenIs
<1>2. u \div L \in Int /\ u = L * (u \div L) + (u % L) /\ u % L \in 0 .. L - 1
  BY <1>1
<1>3. PICK q \in Int, r \in 0 .. L - 1 : q = u \div L /\ u = L * q + r
  BY <1>2
<1>4. ASSUME NEW h \in Int PROVE q = h <=> u \in h * L .. (h + 1) * L - 1
  <2>1. (h + 1) * L - 1 = h * L + (L - 1) /\ h * L \in Int
    OBVIOUS
  <2>2. CASE q = h
    BY <2>1, <2>2, <1>3
  <2>3. CASE q < h
    <3>1. PICK e \in Nat : h = (q + 1) + e
      <4>1. h - (q + 1) \in Nat /\ h = (q + 1) + (h - (q + 1))
        BY <2>3
      <4> QED BY <4>1
    <3>2. h * L = (L * q + L) + e * L
      BY <3>1
    <3>3. e * L \in Nat /\ L * q \in Int
      OBVIOUS
    <3> QED BY <3>2, <3>3, <2>3, <1>3, <2>1
  <2>4. CASE q > h
    <3>1. PICK e \in Nat : q = (h + 1) + e
      <4>1. q - (h + 1) \in Nat /\ q = (h + 1) + (q - (h + 1))
        BY <2>4
      <4> QED BY <4>1
    <3>2. L * q = (h * L + L) + e * L
      BY <3>1
    <3>3. e * L \in Nat /\ h * L \in Int
      OBVIOUS
    <3> QED BY <3>2, <3>3, <2>4, <1>3, <2>1
  <2> QED BY <2>2, <2>3, <2>4
<1> QED BY <1>1, <1>3, <1>4 DEF HourOf

\* Later ticks lie in later hours.
LEMMA HoursRise ==
  ASSUME NEW u \in Int, NEW v \in Int, u <= v
  PROVE  HourOf(u) <= HourOf(v)
<1>1. PICK L \in Nat : L = HourLen /\ L > 0
  BY HourLenIs
<1>2. PICK a \in Int, b \in Int : a = HourOf(u) /\ b = HourOf(v)
  BY TicksOfHour
<1>3. a * L <= u /\ v <= (b + 1) * L - 1
  <2>1. u \in a * L .. (a + 1) * L - 1 /\ v \in b * L .. (b + 1) * L - 1
    BY <1>1, <1>2, TicksOfHour
  <2> QED BY <2>1
<1>4. CASE a > b
  <2>1. PICK e \in Nat : a = (b + 1) + e
    <3>1. a - (b + 1) \in Nat /\ a = (b + 1) + (a - (b + 1))
      BY <1>4
    <3> QED BY <3>1
  <2>2. a * L = (b + 1) * L + e * L /\ e * L \in Nat /\ (b + 1) * L \in Int /\ a * L \in Int
    BY <2>1
  <2> QED BY <2>2, <1>3
<1> QED BY <1>2, <1>4

\* The ticks of hour h that lie in an interval, each with its interval.
TicksIn(d, h) == {x \in HeatIntervals(d) \X (h * HourLen .. (h + 1) * HourLen - 1) :
                    d[x[1]].t <= x[2] /\ x[2] < d[x[1] + 1].t}

\* The intervals with a part in hour h.
Filling(d, h) == {i \in HeatIntervals(d) : Segment(d, i, h) > 0}

\* What an interval lies between.
LEMMA IntervalIs ==
  ASSUME NEW d \in Seq(Row), NEW i \in HeatIntervals(d)
  PROVE  /\ i \in Int /\ i \in 1 .. Len(d) - 1 /\ d[i] \in Row /\ d[i + 1] \in Row
         /\ d[i].t \in Int /\ d[i + 1].t \in Int /\ d[i].t < d[i + 1].t
         /\ Gap(d, i) = d[i + 1].t - d[i].t /\ Gap(d, i) \in Nat
<1>1. i \in 1 .. Len(d) - 1 /\ Gap(d, i) > 0 /\ Len(d) \in Nat
  BY DEF HeatIntervals
<1>2. i \in 1 .. Len(d) /\ i + 1 \in 1 .. Len(d) /\ i \in Int
  BY <1>1
<1>3. d[i] \in Row /\ d[i + 1] \in Row
  BY <1>2
<1>4. d[i].t \in Int /\ d[i + 1].t \in Int
  BY <1>3 DEF Row
<1> QED BY <1>1, <1>2, <1>3, <1>4 DEF Gap

\* Tick u is in hour h and in interval i.
InPart(d, i, h, u) ==
  u \in h * HourLen .. (h + 1) * HourLen - 1 /\ d[i].t <= u /\ u < d[i + 1].t

\* How an hour cuts an interval.
LEMMA SegmentIs ==
  ASSUME NEW d \in Seq(Row), NEW i \in HeatIntervals(d), NEW h \in Int
  PROVE  /\ Segment(d, i, h) \in Nat
         /\ \A a, b \in Int :
              (\A u \in Int : u \in a .. b <=> InPart(d, i, h, u))
              => Cardinality(a .. b) = Segment(d, i, h)
         /\ \E a, b \in Int :
              \A u \in Int : u \in a .. b <=> InPart(d, i, h, u)
<1>1. PICK L \in Nat : L = HourLen /\ L > 0
  BY HourLenIs
<1>2. PICK s \in Int, t \in Int : s = d[i].t /\ t = d[i + 1].t /\ s < t
  BY IntervalIs
<1>3. PICK l \in Int, m \in Int : l = h * L /\ m = (h + 1) * L /\ m = l + L
  BY <1>1
<1> DEFINE lo == Larger(s, l)  hi == Smaller(t, m)
<1>4. lo \in Int /\ hi \in Int /\ Segment(d, i, h) = Larger(0, hi - lo)
  BY <1>1, <1>2, <1>3 DEF Segment, Larger, Smaller
<1>5. Larger(0, hi - lo) \in Nat
  <2> HIDE DEF lo, hi
  <2> QED BY <1>4 DEF Larger
<1>6. \A u \in Int : u \in lo .. hi - 1 <=> u \in l .. m - 1 /\ s <= u /\ u < t
  BY DEF Larger, Smaller
<1>7. ASSUME NEW a \in Int, NEW b \in Int,
             \A u \in Int : u \in a .. b <=> u \in l .. m - 1 /\ s <= u /\ u < t
      PROVE  Cardinality(a .. b) = Larger(0, hi - lo)
  <2> HIDE DEF lo, hi
  <2>1. \A u \in Int : u \in a .. b <=> u \in lo .. hi - 1
    BY <1>6, <1>7
  <2>2. a .. b = lo .. hi - 1
    <3>1. PICK c \in Int : c = hi - 1
      BY <1>4
    <3>2. \A u \in Int : u \in a .. b <=> u \in lo .. c
      BY <2>1, <3>1
    <3>3. a .. b \subseteq Int /\ lo .. c \subseteq Int
      BY <1>4
    <3> QED BY <3>1, <3>2, <3>3
  <2>3. Cardinality(lo .. hi - 1) = IF lo > hi - 1 THEN 0 ELSE (hi - 1) - lo + 1
    BY <1>4, FS_Interval
  <2> QED BY <2>2, <2>3, <1>4 DEF Larger
<1>8. \E a, b \in Int : \A u \in Int : u \in a .. b <=> u \in l .. m - 1 /\ s <= u /\ u < t
  <2>1. hi - 1 \in Int
    BY <1>4
  <2> HIDE DEF lo, hi
  <2> QED BY <2>1, <1>4, <1>6
<1> HIDE DEF lo, hi
<1>9. \A u : InPart(d, i, h, u) <=> u \in l .. m - 1 /\ s <= u /\ u < t
  BY <1>1, <1>2, <1>3 DEF InPart
<1> QED BY <1>4, <1>5, <1>7, <1>8, <1>9

\* The ticks of one interval in an hour.
LEMMA Column ==
  ASSUME NEW d \in Seq(Row), NEW i \in HeatIntervals(d), NEW h \in Int
  PROVE  /\ IsFiniteSet({x \in TicksIn(d, h) : x[1] = i})
         /\ Cardinality({x \in TicksIn(d, h) : x[1] = i}) = Segment(d, i, h)
<1> DEFINE C == {x \in TicksIn(d, h) : x[1] = i}
<1>1. PICK a \in Int, b \in Int : \A u \in Int : u \in a .. b <=> InPart(d, i, h, u)
  BY SegmentIs
<1>2. Cardinality(a .. b) = Segment(d, i, h) /\ IsFiniteSet(a .. b)
  <2>1. \A l, m \in Int : (\A u \in Int : u \in l .. m <=> InPart(d, i, h, u)) => Cardinality(l .. m) = Segment(d, i, h)
    BY SegmentIs
  <2>2. IsFiniteSet(a .. b)
    BY FS_Interval
  <2> QED BY <1>1, <2>1, <2>2
<1> DEFINE f == [u \in a .. b |-> <<i, u>>]
<1>3. h * HourLen \in Int /\ (h + 1) * HourLen - 1 \in Int
  <2>1. PICK L \in Nat : L = HourLen
    BY HourLenIs
  <2>2. h * L \in Int /\ (h + 1) * L - 1 \in Int
    OBVIOUS
  <2> QED BY <2>1, <2>2
<1>4. \A u \in a .. b : <<i, u>> \in C
  <2> SUFFICES ASSUME NEW u \in a .. b PROVE <<i, u>> \in C
    OBVIOUS
  <2>1. InPart(d, i, h, u)
    BY <1>1
  <2> QED BY <2>1 DEF TicksIn, InPart
<1>5. \A x \in C : x[2] \in a .. b /\ x = <<i, x[2]>>
  <2> SUFFICES ASSUME NEW x \in C PROVE x[2] \in a .. b /\ x = <<i, x[2]>>
    OBVIOUS
  <2>1. x[1] = i /\ x[2] \in h * HourLen .. (h + 1) * HourLen - 1 /\ x = <<x[1], x[2]>>
        /\ d[x[1]].t <= x[2] /\ x[2] < d[x[1] + 1].t
    BY DEF TicksIn
  <2>2. InPart(d, i, h, x[2]) /\ x[2] \in Int
    BY <2>1, <1>3 DEF InPart
  <2> QED BY <2>1, <2>2, <1>1
<1> HIDE DEF C
<1>6. f \in [a .. b -> C] /\ \A u, v \in a .. b : f[u] = f[v] => u = v
  BY <1>4
<1>7. \A x \in C : \E u \in a .. b : f[u] = x
  BY <1>5
<1> HIDE DEF f
<1>8. IsFiniteSet(C) /\ Cardinality(C) = Cardinality(a .. b)
  BY <1>2, <1>6, <1>7, SameSize
<1> QED BY <1>2, <1>8 DEF C

\* There are finitely many intervals and ticks.
LEMMA TicksFinite ==
  ASSUME NEW d \in Seq(Row), NEW h \in Int
  PROVE  /\ IsFiniteSet(HeatIntervals(d)) /\ IsFiniteSet(TicksIn(d, h))
         /\ IsFiniteSet(Filling(d, h)) /\ Filling(d, h) \subseteq HeatIntervals(d)
<1>1. IsFiniteSet(HeatIntervals(d))
  <2>1. IsFiniteSet(1 .. Len(d) - 1) /\ HeatIntervals(d) \subseteq 1 .. Len(d) - 1
    BY FS_Interval DEF HeatIntervals
  <2> QED BY <2>1, FS_Subset
<1>2. IsFiniteSet(h * HourLen .. (h + 1) * HourLen - 1)
  <2>1. PICK L \in Nat : L = HourLen
    BY HourLenIs
  <2>2. h * L \in Int /\ (h + 1) * L - 1 \in Int
    OBVIOUS
  <2> QED BY <2>1, <2>2, FS_Interval
<1>3. IsFiniteSet(HeatIntervals(d) \X (h * HourLen .. (h + 1) * HourLen - 1))
  BY <1>1, <1>2, FS_Product
<1>4. TicksIn(d, h) \subseteq HeatIntervals(d) \X (h * HourLen .. (h + 1) * HourLen - 1)
  BY DEF TicksIn
<1>5. Filling(d, h) \subseteq HeatIntervals(d)
  BY DEF Filling
<1> QED BY <1>1, <1>3, <1>4, <1>5, FS_Subset

\* A sum over the ticks of an hour is a sum over the parts of its intervals.
LEMMA TickSum ==
  ASSUME NEW d \in Seq(Row), NEW h \in Int, NEW F, \A i \in HeatIntervals(d) : F[i] \in Int,
         NEW G, \A x \in TicksIn(d, h) : G[x] = F[x[1]],
         NEW K, \A i \in Filling(d, h) : K[i] = F[i] * Segment(d, i, h)
  PROVE  SumFunctionOnSet(G, TicksIn(d, h)) = SumFunctionOnSet(K, Filling(d, h))
<1> DEFINE T == TicksIn(d, h)
           p == [x \in T |-> x[1]]
<1>1. \A x \in T : x[1] \in HeatIntervals(d)
  BY DEF TicksIn
<1>2. \A x \in T : G[x] \in Int
  BY <1>1
<1>3. ASSUME NEW i \in HeatIntervals(d)
      PROVE  SumFunctionOnSet(G, {x \in T : p[x] = i}) = F[i] * Segment(d, i, h)
  <2> DEFINE C == {x \in T : x[1] = i}
  <2>1. {x \in T : p[x] = i} = C
    OBVIOUS
  <2>2. IsFiniteSet(C) /\ Cardinality(C) = Segment(d, i, h)
    BY Column
  <2>3. \A x \in C : G[x] = F[i]
    OBVIOUS
  <2>4. SumFunctionOnSet(G, C) = F[i] * Cardinality(C)
    <3> HIDE DEF C
    <3> QED BY <2>2, <2>3, SumCounts
  <2> QED BY <2>1, <2>2, <2>4
<1>4. ASSUME NEW x \in T PROVE p[x] \in Filling(d, h)
  <2>1. PICK i \in HeatIntervals(d) : i = x[1]
    BY <1>1
  <2>2. /\ IsFiniteSet({y \in TicksIn(d, h) : y[1] = i})
        /\ Cardinality({y \in TicksIn(d, h) : y[1] = i}) = Segment(d, i, h)
    BY Column
  <2>3. x \in {y \in TicksIn(d, h) : y[1] = i}
    BY <2>1
  <2>4. Cardinality({y \in TicksIn(d, h) : y[1] = i}) # 0
    BY <2>2, <2>3, FS_EmptySet
  <2>5. Segment(d, i, h) \in Nat /\ Segment(d, i, h) > 0
    BY <2>2, <2>4, SegmentIs
  <2> QED BY <2>1, <2>5 DEF Filling
<1>5. \A i \in Filling(d, h) : K[i] = SumFunctionOnSet(G, {x \in T : p[x] = i})
  BY <1>3 DEF Filling
<1>6. GroupsIn(G, T, p, K, Filling(d, h))
  <2> HIDE DEF p, T
  <2> QED BY <1>4, <1>5 DEF GroupsIn
<1> HIDE DEF p
<1> QED BY <1>2, <1>6, SumGroupedIn, TicksFinite

\* What a row is to a bucket.
LEMMA RowValues ==
  ASSUME NEW r \in Row
  PROVE  Use(r) \in Int /\ signed_grid_w(r) \in Int /\ r.amps \in [Conductor -> Int]
<1>1. r.import \in Int /\ r.export \in Int /\ r.amps \in [Conductor -> Int]
  BY ViewsAssumption DEF Row
<1> QED BY <1>1 DEF Use, signed_grid_w, Larger

\* The sums of a bucket.
LEMMA BucketIs ==
  ASSUME NEW d, NEW h, NEW net
  PROVE  LET B == Bucket(d, h, Threshold, net) IN
         /\ B.duration = SumFunctionOnSet([i \in Filling(d, h) |-> Segment(d, i, h)], Filling(d, h))
         /\ B.use = SumFunctionOnSet([i \in Filling(d, h) |-> Use(d[i]) * Segment(d, i, h)], Filling(d, h))
         /\ B.signed = SumFunctionOnSet([i \in Filling(d, h) |-> signed_grid_w(d[i]) * Segment(d, i, h)], Filling(d, h))
         /\ B.switches = [k \in 1 .. 4 |->
              Cardinality({i \in {j \in HeatIntervals(d) : StepHour(d, j) = h} :
                             Step(d, i) >= Threshold /\ StepLabel(d, i, net) = Slot(k, net)})]
  BY DEF Bucket, Filling, Sum

\* A bucket counts its ticks, and adds up their power.
LEMMA BucketTicks ==
  ASSUME NEW d \in Seq(Row), NEW h \in Int, NEW net
  PROVE  LET B == Bucket(d, h, Threshold, net) IN
         /\ B.duration = Cardinality(TicksIn(d, h))
         /\ B.use = SumFunctionOnSet([x \in TicksIn(d, h) |-> Use(d[x[1]])], TicksIn(d, h))
         /\ B.signed = SumFunctionOnSet([x \in TicksIn(d, h) |-> signed_grid_w(d[x[1]])], TicksIn(d, h))
<1> DEFINE B == Bucket(d, h, Threshold, net)
           I == HeatIntervals(d)
           S == Filling(d, h)
           T == TicksIn(d, h)
           Ones == [i \in I |-> 1]
           Ticks == [x \in T |-> 1]
           Parts == [i \in S |-> Segment(d, i, h)]
           Uses == [i \in I |-> Use(d[i])]
           TickUses == [x \in T |-> Use(d[x[1]])]
           PartUses == [i \in S |-> Use(d[i]) * Segment(d, i, h)]
           Nets == [i \in I |-> signed_grid_w(d[i])]
           TickNets == [x \in T |-> signed_grid_w(d[x[1]])]
           PartNets == [i \in S |-> signed_grid_w(d[i]) * Segment(d, i, h)]
<1>1. S \subseteq I /\ \A x \in T : x[1] \in I
  BY DEF Filling, TicksIn
<1>2. \A i \in I : Use(d[i]) \in Int /\ signed_grid_w(d[i]) \in Int /\ Segment(d, i, h) \in Int
  <2> SUFFICES ASSUME NEW i \in I PROVE Use(d[i]) \in Int /\ signed_grid_w(d[i]) \in Int /\ Segment(d, i, h) \in Int
    OBVIOUS
  <2>1. d[i] \in Row
    BY IntervalIs
  <2>2. Segment(d, i, h) \in Nat
    BY SegmentIs
  <2> QED BY <2>1, <2>2, RowValues
<1> HIDE DEF I, S, T
<1>3. SumFunctionOnSet(Ticks, T) = SumFunctionOnSet(Parts, S)
  <2>1. /\ \A i \in I : Ones[i] \in Int
        /\ \A x \in T : Ticks[x] = Ones[x[1]]
        /\ \A i \in S : Parts[i] = Ones[i] * Segment(d, i, h)
    BY <1>1, <1>2
  <2> HIDE DEF Ones, Ticks, Parts
  <2> QED BY <2>1, TickSum DEF I, S, T
<1>4. SumFunctionOnSet(TickUses, T) = SumFunctionOnSet(PartUses, S)
  <2>1. /\ \A i \in I : Uses[i] \in Int
        /\ \A x \in T : TickUses[x] = Uses[x[1]]
        /\ \A i \in S : PartUses[i] = Uses[i] * Segment(d, i, h)
    BY <1>1, <1>2
  <2> HIDE DEF Uses, TickUses, PartUses
  <2> QED BY <2>1, TickSum DEF I, S, T
<1>5. SumFunctionOnSet(TickNets, T) = SumFunctionOnSet(PartNets, S)
  <2>1. /\ \A i \in I : Nets[i] \in Int
        /\ \A x \in T : TickNets[x] = Nets[x[1]]
        /\ \A i \in S : PartNets[i] = Nets[i] * Segment(d, i, h)
    BY <1>1, <1>2
  <2> HIDE DEF Nets, TickNets, PartNets
  <2> QED BY <2>1, TickSum DEF I, S, T
<1>6. SumFunctionOnSet(Ticks, T) = Cardinality(T)
  <2>1. \A x \in T : Ticks[x] = 1
    OBVIOUS
  <2>2. IsFiniteSet(T)
    BY TicksFinite DEF T
  <2> HIDE DEF Ticks
  <2>3. SumFunctionOnSet(Ticks, T) = 1 * Cardinality(T)
    BY <2>1, <2>2, SumCounts
  <2> QED BY <2>2, <2>3, FS_CardinalityType
<1>7. /\ B.duration = SumFunctionOnSet(Parts, S) /\ B.use = SumFunctionOnSet(PartUses, S)
      /\ B.signed = SumFunctionOnSet(PartNets, S)
  BY BucketIs DEF S
<1> HIDE DEF B, Parts, PartUses, PartNets, Ticks
<1> QED BY <1>3, <1>4, <1>5, <1>6, <1>7 DEF T, B

\* Where the clock only goes forward no tick lies in two intervals.
LEMMA NoTickTwice ==
  ASSUME NEW d \in Seq(Row), NEW h \in Int, \A a, b \in 1 .. Len(d) : a < b => d[a].t < d[b].t
  PROVE  Cardinality(TicksIn(d, h)) <= HourLen
<1> DEFINE T == TicksIn(d, h)
           U == h * HourLen .. (h + 1) * HourLen - 1
           f == [x \in T |-> x[2]]
<1>1. IsFiniteSet(U) /\ Cardinality(U) = HourLen /\ U \subseteq Int
  <2>1. PICK L \in Nat : L = HourLen /\ L > 0
    BY HourLenIs
  <2>2. PICK l \in Int, m \in Int : l = h * L /\ m = (h + 1) * L - 1 /\ m = l + L - 1
    OBVIOUS
  <2>3. IsFiniteSet(l .. m) /\ Cardinality(l .. m) = IF l > m THEN 0 ELSE m - l + 1
    BY FS_Interval
  <2>4. Cardinality(l .. m) = L
    BY <2>1, <2>2, <2>3
  <2> QED BY <2>1, <2>2, <2>3, <2>4
<1>2. \A x \in T : /\ x[1] \in HeatIntervals(d) /\ x[2] \in U /\ x = <<x[1], x[2]>>
                   /\ d[x[1]].t <= x[2] /\ x[2] < d[x[1] + 1].t
  BY DEF TicksIn
<1> HIDE DEF U
<1>3. ASSUME NEW x \in T, NEW y \in T, x[2] = y[2] PROVE x = y
  <2>1. PICK i \in HeatIntervals(d), j \in HeatIntervals(d), u \in Int :
          i = x[1] /\ j = y[1] /\ u = x[2]
    BY <1>1, <1>2
  <2>2. d[i].t <= u /\ u < d[i + 1].t /\ d[j].t <= u /\ u < d[j + 1].t
    BY <1>2, <1>3, <2>1
  <2>3. /\ i \in Int /\ j \in Int /\ i \in 1 .. Len(d) - 1 /\ j \in 1 .. Len(d) - 1
        /\ d[i].t \in Int /\ d[i + 1].t \in Int /\ d[j].t \in Int /\ d[j + 1].t \in Int
    BY IntervalIs
  <2>4. /\ i + 1 \in 1 .. Len(d) /\ j + 1 \in 1 .. Len(d) /\ i \in 1 .. Len(d) /\ j \in 1 .. Len(d)
    BY <2>3
  <2>5. ~ (i < j)
    <3> SUFFICES ASSUME i < j PROVE FALSE
      OBVIOUS
    <3>1. i + 1 = j \/ i + 1 < j
      BY <2>3
    <3>2. d[i + 1].t <= d[j].t
      BY <3>1, <2>3, <2>4
    <3> QED BY <3>2, <2>2, <2>3
  <2>6. ~ (j < i)
    <3> SUFFICES ASSUME j < i PROVE FALSE
      OBVIOUS
    <3>1. j + 1 = i \/ j + 1 < i
      BY <2>3
    <3>2. d[j + 1].t <= d[i].t
      BY <3>1, <2>3, <2>4
    <3> QED BY <3>2, <2>2, <2>3
  <2>7. i = j
    BY <2>3, <2>5, <2>6
  <2> QED BY <1>2, <1>3, <2>1, <2>7
<1>4. f \in Injection(T, U)
  <2> HIDE DEF T
  <2>1. f \in [T -> U]
    BY <1>2
  <2>2. \A x, y \in T : f[x] = f[y] => x = y
    BY <1>3
  <2> HIDE DEF f
  <2> QED BY <2>1, <2>2 DEF Injection, IsInjective
<1> HIDE DEF f
<1> QED BY <1>1, <1>4, FS_Injection

\* A finite union of finite sets is finite.
LEMMA UnionFinite ==
  ASSUME NEW D, IsFiniteSet(D), NEW g, \A h \in D : IsFiniteSet(g[h])
  PROVE  IsFiniteSet(UNION {g[h] : h \in D})
<1> DEFINE R == {g[h] : h \in D}
           f == [h \in D |-> g[h]]
<1>1. f \in Surjection(D, R)
  BY DEF Surjection
<1>2. \A T \in R : IsFiniteSet(T)
  OBVIOUS
<1> HIDE DEF f, R
<1>3. IsFiniteSet(R)
  BY <1>1, FS_Surjection
<1>4. IsFiniteSet(UNION R)
  BY <1>2, <1>3, FS_UNION
<1> QED BY <1>4 DEF R

\* There are finitely many hours with a bucket.
LEMMA HeatHoursIs ==
  ASSUME NEW d \in Seq(Row)
  PROVE  /\ IsFiniteSet(HeatHours(d)) /\ HeatHours(d) \subseteq Int
         /\ \A i \in HeatIntervals(d) : /\ StepHour(d, i) \in HeatHours(d)
                                        /\ \A u \in Int : d[i].t <= u /\ u < d[i + 1].t => HourOf(u) \in HeatHours(d)
<1> DEFINE I == HeatIntervals(d)
           g == [i \in I |-> HourOf(d[i].t) .. HourOf(d[i + 1].t - 1) \cup {StepHour(d, i)}]
<1>1. HeatHours(d) = UNION {g[i] : i \in I}
  BY DEF HeatHours
<1>2. ASSUME NEW i \in I
      PROVE  /\ IsFiniteSet(g[i]) /\ g[i] \subseteq Int /\ StepHour(d, i) \in g[i]
             /\ \A u \in Int : d[i].t <= u /\ u < d[i + 1].t => HourOf(u) \in g[i]
  <2>1. PICK s \in Int, t \in Int : s = d[i].t /\ t = d[i + 1].t
    BY IntervalIs
  <2>2. PICK a \in Int, b \in Int, c \in Int : a = HourOf(s) /\ b = HourOf(t - 1) /\ c = HourOf(t)
    <3>1. t - 1 \in Int
      OBVIOUS
    <3> QED BY <3>1, TicksOfHour
  <2>3. g[i] = (a .. b) \cup {c} /\ StepHour(d, i) = c
    BY <2>1, <2>2 DEF StepHour
  <2>4. IsFiniteSet(a .. b) /\ IsFiniteSet({c})
    BY FS_Interval, FS_Singleton
  <2>5. IsFiniteSet((a .. b) \cup {c})
    BY <2>4, FS_Union
  <2>6. ASSUME NEW u \in Int, s <= u, u < t PROVE HourOf(u) \in a .. b
    <3>1. u <= t - 1 /\ t - 1 \in Int
      BY <2>6
    <3>2. a <= HourOf(u) /\ HourOf(u) <= b /\ HourOf(u) \in Int
      BY <2>2, <2>6, <3>1, HoursRise, TicksOfHour
    <3> QED BY <3>2
  <2> HIDE DEF g
  <2> QED BY <2>1, <2>3, <2>5, <2>6
<1>3. IsFiniteSet(I)
  BY TicksFinite, 0 \in Int
<1> HIDE DEF g
<1>4. IsFiniteSet(UNION {g[i] : i \in I})
  <2> HIDE DEF I
  <2> QED BY <1>2, <1>3, UnionFinite
<1> QED BY <1>1, <1>2, <1>4

\* Every tick of every interval.
AllTicks(d) == UNION {TicksIn(d, h) : h \in HeatHours(d)}

\* The ticks of all hours are the ticks of all intervals, each in its hour.
LEMMA AllTicksIs ==
  ASSUME NEW d \in Seq(Row)
  PROVE  /\ IsFiniteSet(AllTicks(d))
         /\ \A x \in AllTicks(d) : /\ x[1] \in HeatIntervals(d) /\ x[2] \in Int
                                   /\ HourOf(x[2]) \in HeatHours(d) /\ x \in TicksIn(d, HourOf(x[2]))
         /\ \A h \in HeatHours(d) : {x \in AllTicks(d) : HourOf(x[2]) = h} = TicksIn(d, h)
         /\ \A i \in HeatIntervals(d), u \in Int :
              d[i].t <= u /\ u < d[i + 1].t <=> <<i, u>> \in AllTicks(d)
<1> DEFINE D == HeatHours(d)
           g == [h \in D |-> TicksIn(d, h)]
<1>1. IsFiniteSet(D) /\ D \subseteq Int
  BY HeatHoursIs
<1>2. IsFiniteSet(AllTicks(d))
  <2>1. \A h \in D : IsFiniteSet(g[h])
    BY <1>1, TicksFinite
  <2>2. AllTicks(d) = UNION {g[h] : h \in D}
    BY DEF AllTicks
  <2> HIDE DEF g, D
  <2>3. IsFiniteSet(UNION {g[h] : h \in D})
    BY <1>1, <2>1, UnionFinite
  <2> QED BY <2>2, <2>3
<1>3. ASSUME NEW h \in D, NEW x \in TicksIn(d, h)
      PROVE  /\ x[1] \in HeatIntervals(d) /\ x[2] \in Int /\ HourOf(x[2]) = h
             /\ d[x[1]].t <= x[2] /\ x[2] < d[x[1] + 1].t
  <2>1. /\ x[1] \in HeatIntervals(d) /\ x[2] \in h * HourLen .. (h + 1) * HourLen - 1
        /\ d[x[1]].t <= x[2] /\ x[2] < d[x[1] + 1].t
    BY DEF TicksIn
  <2>2. x[2] \in Int
    <3>1. PICK L \in Nat : L = HourLen
      BY HourLenIs
    <3>2. h \in Int
      BY <1>1
    <3>3. h * L \in Int /\ (h + 1) * L - 1 \in Int
      BY <3>2
    <3> QED BY <2>1, <3>1, <3>3
  <2>3. h \in Int
    BY <1>1
  <2> QED BY <2>1, <2>2, <2>3, TicksOfHour
<1>4. \A x \in AllTicks(d) : \E h \in D : x \in TicksIn(d, h)
  BY DEF AllTicks
<1>5. \A h \in D : TicksIn(d, h) \subseteq AllTicks(d)
  BY DEF AllTicks
<1>6. ASSUME NEW i \in HeatIntervals(d), NEW u \in Int, d[i].t <= u, u < d[i + 1].t
      PROVE  <<i, u>> \in AllTicks(d)
  <2>1. PICK h \in D : h = HourOf(u)
    BY <1>6, HeatHoursIs
  <2>2. u \in h * HourLen .. (h + 1) * HourLen - 1
    <3>1. h \in Int
      BY <1>1
    <3> QED BY <2>1, <3>1, TicksOfHour
  <2>3. <<i, u>> \in TicksIn(d, h)
    BY <1>6, <2>2 DEF TicksIn
  <2> QED BY <1>5, <2>3
<1>7. ASSUME NEW i \in HeatIntervals(d), NEW u \in Int, <<i, u>> \in AllTicks(d)
      PROVE  d[i].t <= u /\ u < d[i + 1].t
  <2>1. PICK h \in D : <<i, u>> \in TicksIn(d, h)
    BY <1>4, <1>7
  <2> QED BY <2>1 DEF TicksIn
<1>8. ASSUME NEW h \in D PROVE {x \in AllTicks(d) : HourOf(x[2]) = h} = TicksIn(d, h)
  <2> HIDE DEF D
  <2>1. \A x \in TicksIn(d, h) : x \in AllTicks(d) /\ HourOf(x[2]) = h
    BY <1>3, <1>5
  <2>2. \A x \in AllTicks(d) : HourOf(x[2]) = h => x \in TicksIn(d, h)
    BY <1>3, <1>4
  <2> QED BY <2>1, <2>2
<1> QED BY <1>2, <1>3, <1>4, <1>6, <1>7, <1>8

\* The buckets hold what the intervals hold.
LEMMA SignedIsKept ==
  ASSUME NEW d \in Seq(Row), NEW net
  PROVE  SumFunctionOnSet([h \in HeatHours(d) |-> Bucket(d, h, Threshold, net).signed], HeatHours(d))
           = SumFunctionOnSet([i \in HeatIntervals(d) |-> signed_grid_w(d[i]) * Gap(d, i)], HeatIntervals(d))
<1> DEFINE A == AllTicks(d)
           I == HeatIntervals(d)
           D == HeatHours(d)
           G == [x \in A |-> signed_grid_w(d[x[1]])]
           p == [x \in A |-> x[1]]
           q == [x \in A |-> HourOf(x[2])]
           K == [i \in I |-> signed_grid_w(d[i]) * Gap(d, i)]
           M == [h \in D |-> Bucket(d, h, Threshold, net).signed]
<1>1. IsFiniteSet(A) /\ IsFiniteSet(I) /\ IsFiniteSet(D) /\ D \subseteq Int
  BY AllTicksIs, HeatHoursIs, TicksFinite, 0 \in Int
<1>2. \A i \in I : signed_grid_w(d[i]) \in Int
  BY IntervalIs, RowValues
<1>3. \A x \in A : x[1] \in I /\ HourOf(x[2]) \in D /\ G[x] \in Int
  <2>1. \A x \in A : x[1] \in I /\ HourOf(x[2]) \in D
    BY AllTicksIs
  <2> HIDE DEF I, A
  <2> QED BY <1>2, <2>1
<1>4. ASSUME NEW i \in I PROVE K[i] = SumFunctionOnSet(G, {x \in A : p[x] = i})
  <2> DEFINE C == {x \in A : x[1] = i}
  <2>1. {x \in A : p[x] = i} = C
    OBVIOUS
  <2>2. PICK s \in Int, t \in Int : s = d[i].t /\ t = d[i + 1].t /\ s < t /\ Gap(d, i) = t - s
    BY IntervalIs
  <2> DEFINE U == s .. t - 1
             f == [u \in U |-> <<i, u>>]
  <2>3. IsFiniteSet(U) /\ Cardinality(U) = t - s
    <3>1. PICK v \in Int : v = t - 1
      OBVIOUS
    <3>2. IsFiniteSet(s .. v) /\ Cardinality(s .. v) = IF s > v THEN 0 ELSE v - s + 1
      BY FS_Interval
    <3> QED BY <2>2, <3>1, <3>2
  <2>4. \A u \in Int : u \in U <=> <<i, u>> \in A
    <3>1. \A u \in Int : u \in U <=> s <= u /\ u < t
      OBVIOUS
    <3> QED BY <2>2, <3>1, AllTicksIs
  <2>5. \A x \in C : x = <<i, x[2]>> /\ x[2] \in Int
    <3>1. \A x \in A : x \in TicksIn(d, HourOf(x[2])) /\ x[2] \in Int
      BY AllTicksIs
    <3> QED BY <3>1 DEF TicksIn
  <2>6. /\ f \in [U -> C] /\ \A u, v \in U : f[u] = f[v] => u = v
        /\ \A x \in C : \E u \in U : f[u] = x
    <3>1. \A u \in U : u \in Int
      OBVIOUS
    <3> HIDE DEF A, U
    <3>2. \A x \in C : x[2] \in U
      BY <2>4, <2>5
    <3> QED BY <2>4, <2>5, <3>1, <3>2
  <2>7. IsFiniteSet(C) /\ Cardinality(C) = t - s
    <3> HIDE DEF f, C, U
    <3> QED BY <2>3, <2>6, SameSize
  <2>8. \A x \in C : G[x] = signed_grid_w(d[i])
    OBVIOUS
  <2>9. SumFunctionOnSet(G, C) = signed_grid_w(d[i]) * Cardinality(C)
    <3> HIDE DEF C, G
    <3> QED BY <1>2, <2>7, <2>8, SumCounts
  <2> HIDE DEF C, G, p, A
  <2>10. K[i] = signed_grid_w(d[i]) * (t - s)
    BY <2>2
  <2> HIDE DEF K
  <2> QED BY <2>1, <2>7, <2>9, <2>10
<1>5. ASSUME NEW h \in D PROVE M[h] = SumFunctionOnSet(G, {x \in A : q[x] = h})
  <2> DEFINE T == TicksIn(d, h)
             TG == [x \in T |-> signed_grid_w(d[x[1]])]
  <2>1. {x \in A : q[x] = h} = T
    <3>1. {x \in A : HourOf(x[2]) = h} = T
      BY AllTicksIs
    <3>2. {x \in A : q[x] = h} = {x \in A : HourOf(x[2]) = h}
      <4> HIDE DEF A
      <4> QED OBVIOUS
    <3> QED BY <3>1, <3>2
  <2>2. h \in Int
    BY <1>1
  <2>3. Bucket(d, h, Threshold, net).signed = SumFunctionOnSet(TG, T)
    BY <2>2, BucketTicks
  <2>4. T \subseteq A
    BY <2>1
  <2>5. \A x \in T : TG[x] = G[x]
    <3> HIDE DEF A, T
    <3> QED BY <2>4
  <2>6. IsFiniteSet(T)
    BY <2>2, TicksFinite
  <2>7. M[h] = SumFunctionOnSet(TG, T)
    BY <2>3
  <2> HIDE DEF T, TG, G, A, q, M
  <2>8. SumFunctionOnSet(TG, T) = SumFunctionOnSet(G, T)
    BY <2>5, <2>6, SumSame
  <2> QED BY <2>1, <2>7, <2>8
<1>6. GroupsIn(G, A, p, K, I)
  <2> HIDE DEF A, G, K, I
  <2> QED BY <1>3, <1>4 DEF GroupsIn
<1>7. GroupsIn(G, A, q, M, D)
  <2> HIDE DEF A, G, M, D
  <2> QED BY <1>3, <1>5 DEF GroupsIn
<1> HIDE DEF A, G, p, q, K, M, I, D
<1>8. SumFunctionOnSet(G, A) = SumFunctionOnSet(K, I) /\ SumFunctionOnSet(G, A) = SumFunctionOnSet(M, D)
  BY <1>1, <1>3, <1>6, <1>7, SumGroupedIn
<1> QED BY <1>8 DEF K, M, I, D

\* The merging of buckets, unfolded.
Gathered(b, S, f) ==
  f = [s \in SUBSET S |-> IF s = {} THEN _empty_heat_bucket ELSE Merged(f[s \ {Pick(s)}], b[Pick(s)])]

\* There is a function that merges every part of a finite set.
LEMMA GatheredExists ==
  ASSUME NEW S, IsFiniteSet(S), NEW b
  PROVE  \E f : Gathered(b, S, f)
<1> DEFINE Part(n) == {T \in SUBSET S : Cardinality(T) <= n}
           Unfold(f) == [s \in SUBSET S |->
             IF s = {} THEN _empty_heat_bucket ELSE Merged(f[s \ {Pick(s)}], b[Pick(s)])]
           Good(f, n) == \A s \in Part(n) : f[s] = Unfold(f)[s]
           N == {n \in Nat : \E f : f = [s \in SUBSET S |-> f[s]] /\ Good(f, n)}
<1>1. 0 \in N
  <2> DEFINE f == [s \in SUBSET S |-> _empty_heat_bucket]
  <2>1. \A s \in Part(0) : s = {}
    BY FS_EmptySet, PartFinite
  <2>2. Good(f, 0)
    BY <2>1
  <2>3. f = [s \in SUBSET S |-> f[s]]
    OBVIOUS
  <2> HIDE DEF f
  <2> QED BY <2>2, <2>3
<1>2. ASSUME NEW n \in N PROVE n + 1 \in N
  <2>1. PICK f : Good(f, n)
    OBVIOUS
  <2> DEFINE k == Unfold(f)
  <2>2. ASSUME NEW s \in Part(n + 1), s # {} PROVE k[s \ {Pick(s)}] = f[s \ {Pick(s)}]
    <3>1. s \ {Pick(s)} \in Part(n)
      BY <2>2, PickIn, PartFinite
    <3> QED BY <3>1, <2>1
  <2>3. ASSUME NEW s \in Part(n + 1) PROVE k[s] = Unfold(k)[s]
    BY <2>2
  <2>4. Good(k, n + 1)
    BY <2>3
  <2>5. k = [s \in SUBSET S |-> k[s]]
    OBVIOUS
  <2> HIDE DEF k, Good
  <2>6. n + 1 \in Nat
    OBVIOUS
  <2> QED BY <2>4, <2>5, <2>6
<1>3. N = Nat
  <2>1. N \subseteq Nat
    OBVIOUS
  <2> HIDE DEF N
  <2> QED BY <2>1, <1>1, <1>2, CountUp
<1>4. PICK f : f = [s \in SUBSET S |-> f[s]] /\ Good(f, Cardinality(S))
  <2>1. Cardinality(S) \in N
    <3> HIDE DEF N
    <3> QED BY <1>3, FS_CardinalityType
  <2> HIDE DEF Good
  <2> QED BY <2>1
<1>5. \A s \in SUBSET S : s \in Part(Cardinality(S))
  BY FS_Subset, PartFinite
<1>6. f = Unfold(f)
  BY <1>4, <1>5
<1> QED BY <1>6 DEF Gathered

\* Merged buckets have the switches of both.
LEMMA SwitchesAdd ==
  ASSUME NEW S, IsFiniteSet(S), NEW b, NEW k \in 1 .. 4,
         \A h \in S : b[h].switches[k] \in Int
  PROVE  MergedAll(b, S).switches[k]
           = SumFunctionOnSet([h \in S |-> b[h].switches[k]], S)
<1> DEFINE F == [h \in S |-> b[h].switches[k]]
           total == CHOOSE f : Gathered(b, S, f)
<1>1. MergedAll(b, S) = total[S]
  BY DEF MergedAll, FoldSet, MapThenFoldSet, Gathered, Pick
<1>2. Gathered(b, S, total)
  BY GatheredExists
<1> HIDE DEF total
<1>3. \A h \in S : F[h] = b[h].switches[k] /\ F[h] \in Int
  OBVIOUS
<1> HIDE DEF F
<1> DEFINE Q == {T \in SUBSET S : total[T].switches[k] = SumFunctionOnSet(F, T)}
<1>4. ASSUME NEW T \in SUBSET S, \A x \in T : T \ {x} \in Q
      PROVE  total[T].switches[k] = SumFunctionOnSet(F, T)
  <2>1. CASE T = {}
    <3>1. total[T] = _empty_heat_bucket
      BY <1>2, <2>1 DEF Gathered
    <3>2. _empty_heat_bucket.switches[k] = 0
      BY DEF _empty_heat_bucket
    <3> QED BY <2>1, <3>1, <3>2, SumEmpty
  <2>2. CASE T # {}
    <3>1. PICK x \in T : x = Pick(T)
      BY <2>2, PickIn
    <3>2. total[T] = Merged(total[T \ {x}], b[x])
      BY <1>2, <2>2, <3>1 DEF Gathered
    <3>3. total[T].switches[k] = total[T \ {x}].switches[k] + b[x].switches[k]
      BY <3>2 DEF Merged
    <3>4. total[T \ {x}].switches[k] = SumFunctionOnSet(F, T \ {x})
      BY <1>4, <3>1
    <3>5. PICK a \in Int : a = SumFunctionOnSet(F, T \ {x}) /\ SumFunctionOnSet(F, T) = F[x] + a
      <4>1. SumFunctionOnSet(F, T) = F[x] + SumFunctionOnSet(F, T \ {x})
        BY <1>3, <3>1, SumFacts
      <4>2. T \ {x} \in SUBSET S
        OBVIOUS
      <4>3. SumFunctionOnSet(F, T \ {x}) \in Int
        BY <1>3, <4>2, SumFacts
      <4> QED BY <4>1, <4>3
    <3> QED BY <1>3, <3>3, <3>4, <3>5
  <2> QED BY <2>1, <2>2
<1>5. S \in Q
  <2>1. \A T \in SUBSET S : (\A x \in T : T \ {x} \in Q) => T \in Q
    BY <1>4
  <2> HIDE DEF Q
  <2>2. \A T \in SUBSET S : T \in Q
    BY <2>1, FiniteInduction
  <2> QED BY <2>2
<1> QED BY <1>1, <1>5 DEF F

\* What a map of the week holds: in every cell the hours of D that fall into it, joined.
WeekMap(map, b, D) ==
  \A w \in 0 .. DaysPerWeek - 1, x \in 0 .. HoursPerDay - 1 :
    map[w][x] = MergedAll(b,
                  {h \in D : (h \div HoursPerDay) % DaysPerWeek = w /\ h % HoursPerDay = x})

\* Every hour has a weekday and an hour of the day.
LEMMA CellOf ==
  /\ IsFiniteSet(0 .. DaysPerWeek - 1) /\ IsFiniteSet(0 .. HoursPerDay - 1)
  /\ \A h \in Int : /\ ((h \div HoursPerDay) % DaysPerWeek) \in 0 .. DaysPerWeek - 1
                    /\ (h % HoursPerDay) \in 0 .. HoursPerDay - 1
<1>1. PICK n \in Nat \ {0}, m \in Nat \ {0} : n = DaysPerWeek /\ m = HoursPerDay
  BY CalendarAssumption
<1>2. 0 \in Int /\ n - 1 \in Int /\ m - 1 \in Int
  OBVIOUS
<1>3. IsFiniteSet(0 .. n - 1) /\ IsFiniteSet(0 .. m - 1)
  BY <1>2, FS_Interval
<1>4. ASSUME NEW h \in Int, NEW r \in Nat \ {0} PROVE (h % r) \in 0 .. r - 1 /\ (h \div r) \in Int
  OBVIOUS
<1> QED BY <1>1, <1>3, <1>4

\* The switches of one cell, read from the hours.
SwitchesOfCell(D, b, k, w, x) ==
  SumFunctionOnSet([h \in D |-> b[h].switches[k]],
    {h \in D : (h \div HoursPerDay) % DaysPerWeek = w /\ h % HoursPerDay = x})

LEMMA CellSwitches ==
  ASSUME NEW D, IsFiniteSet(D), NEW b, NEW k \in 1 .. 4, \A h \in D : b[h].switches[k] \in Int,
         NEW map, WeekMap(map, b, D), NEW w \in 0 .. DaysPerWeek - 1, NEW x \in 0 .. HoursPerDay - 1
  PROVE  map[w][x].switches[k] = SwitchesOfCell(D, b, k, w, x)
<1> DEFINE C == {h \in D : (h \div HoursPerDay) % DaysPerWeek = w /\ h % HoursPerDay = x}
           E == [h \in C |-> b[h].switches[k]]
           F == [h \in D |-> b[h].switches[k]]
<1>1. map[w][x] = MergedAll(b, C)
  BY DEF WeekMap
<1>2. IsFiniteSet(C) /\ C \subseteq D
  BY FS_Subset
<1>3. \A h \in C : E[h] = F[h]
  BY <1>2
<1> HIDE DEF C
<1>4. map[w][x].switches[k] = SumFunctionOnSet(E, C)
  <2>1. \A h \in C : b[h].switches[k] \in Int
    BY <1>2
  <2>2. MergedAll(b, C).switches[k]
          = SumFunctionOnSet([h \in C |-> b[h].switches[k]], C)
    BY <1>2, <2>1, SwitchesAdd
  <2> QED BY <1>1, <2>2
<1> HIDE DEF E, F
<1>5. SumFunctionOnSet(E, C) = SumFunctionOnSet(F, C)
  BY <1>2, <1>3, SumSame
<1> QED BY <1>4, <1>5 DEF C, F, SwitchesOfCell

\* The switches of a week's map, and those of the hours.
SwitchesOfWeek(map, k) ==
  SumFunctionOnSet([w \in 0 .. DaysPerWeek - 1 |->
    SumFunctionOnSet([x \in 0 .. HoursPerDay - 1 |-> map[w][x].switches[k]], 0 .. HoursPerDay - 1)],
    0 .. DaysPerWeek - 1)
SwitchesOfHours(D, b, k) == SumFunctionOnSet([h \in D |-> b[h].switches[k]], D)

\* A step is counted once, in the hour and the weekday of the reading that shows it.
LEMMA WeekdaysKeep ==
  ASSUME NEW D, IsFiniteSet(D), D \subseteq Int, NEW b, NEW k \in 1 .. 4,
         \A h \in D : b[h].switches[k] \in Int, NEW map, WeekMap(map, b, D)
  PROVE  SwitchesOfWeek(map, k) = SwitchesOfHours(D, b, k)
<1> DEFINE W == 0 .. DaysPerWeek - 1
           X == 0 .. HoursPerDay - 1
           F == [h \in D |-> b[h].switches[k]]
           p == [h \in D |-> (h \div HoursPerDay) % DaysPerWeek]
           q == [h \in D |-> h % HoursPerDay]
           G(w) == {h \in D : p[h] = w}
           Row1(w) == [x \in X |-> map[w][x].switches[k]]
           K == [w \in W |-> SumFunctionOnSet(Row1(w), X)]
<1>1. IsFiniteSet(W) /\ IsFiniteSet(X) /\ \A h \in D : p[h] \in W /\ q[h] \in X
  BY CellOf
<1>2. \A h \in D : F[h] \in Int
  OBVIOUS
<1>3. \A w : IsFiniteSet(G(w)) /\ G(w) \subseteq D
  BY FS_Subset
<1>4. ASSUME NEW w \in W, NEW x \in X
      PROVE  map[w][x].switches[k] = SumFunctionOnSet(F, {h \in G(w) : q[h] = x})
  <2> DEFINE C == {h \in D : (h \div HoursPerDay) % DaysPerWeek = w /\ h % HoursPerDay = x}
  <2>1. {h \in G(w) : q[h] = x} = C
    OBVIOUS
  <2>2. map[w][x].switches[k] = SumFunctionOnSet(F, C)
    <3>1. w \in 0 .. DaysPerWeek - 1 /\ x \in 0 .. HoursPerDay - 1
      OBVIOUS
    <3> HIDE DEF W, X, q, G, Row1, K
    <3>2. map[w][x].switches[k] = SwitchesOfCell(D, b, k, w, x)
      BY <3>1, CellSwitches
    <3> QED BY <3>2 DEF SwitchesOfCell
  <2> HIDE DEF C, F, G, q
  <2> QED BY <2>1, <2>2
<1>5. ASSUME NEW w \in W PROVE SumFunctionOnSet(F, G(w)) = SumFunctionOnSet(Row1(w), X)
  <2>1. \A x \in X : Row1(w)[x] = SumFunctionOnSet(F, {h \in G(w) : q[h] = x})
    BY <1>4
  <2>2. PICK S : S = G(w)
    OBVIOUS
  <2>3. PICK R : R = Row1(w)
    OBVIOUS
  <2>4. IsFiniteSet(S) /\ \A h \in S : q[h] \in X /\ F[h] \in Int
    BY <1>1, <1>2, <1>3, <2>2
  <2>5. \A x \in X : R[x] = SumFunctionOnSet(F, {h \in S : q[h] = x})
    BY <2>1, <2>2, <2>3
  <2> HIDE DEF F, q, X
  <2>6. GroupsIn(F, S, q, R, X)
    BY <2>4, <2>5 DEF GroupsIn
  <2>7. IsFiniteSet(X)
    BY <1>1
  <2>8. \A h \in S : F[h] \in Int
    BY <2>4
  <2>9. SumFunctionOnSet(F, S) = SumFunctionOnSet(R, X)
    BY <2>4, <2>6, <2>7, <2>8, SumGroupedIn
  <2> QED BY <2>2, <2>3, <2>9
<1>6. GroupsIn(F, D, p, K, W)
  <2>1. \A w \in W : K[w] = SumFunctionOnSet(F, G(w))
    BY <1>5
  <2>2. \A h \in D : p[h] \in W
    BY <1>1
  <2> HIDE DEF F, p, K, W
  <2> QED BY <2>1, <2>2 DEF GroupsIn
<1>7. SumFunctionOnSet(F, D) = SumFunctionOnSet(K, W)
  <2> HIDE DEF F, p, K, W
  <2> QED BY <1>1, <1>2, <1>6, SumGroupedIn
<1> QED BY <1>7 DEF SwitchesOfWeek, SwitchesOfHours

\* What the sort of the three conductors gives: all of them, the largest step first.
LEMMA OrderedIs ==
  ASSUME NEW delta \in [Conductor -> Int]
  PROVE  /\ Ordered(delta) \in [Conductor -> Conductor]
         /\ \A p \in Conductor : Mag(delta, p) <= Mag(delta, Ordered(delta)[1])
<1>1. \A p \in Conductor : Mag(delta, p) \in Int
  BY DEF Mag
<1> DEFINE A(p, q) == \/ Mag(delta, p) > Mag(delta, q)
                      \/ Mag(delta, p) = Mag(delta, q) /\ p < q
           Good(s) == \A i, j \in Conductor : i < j => A(s[i], s[j])
<1>2. \E x, y, z \in Conductor : A(x, y) /\ A(y, z) /\ A(x, z)
  <2>1. 1 \in Conductor /\ 2 \in Conductor /\ 3 \in Conductor
    BY DEF Conductor
  <2>2. PICK a \in Int, b \in Int, c \in Int : a = Mag(delta, 1) /\ b = Mag(delta, 2) /\ c = Mag(delta, 3)
    BY <1>1, <2>1
  <2>3. \/ A(1, 2) /\ A(2, 3) /\ A(1, 3)
        \/ A(1, 3) /\ A(3, 2) /\ A(1, 2)
        \/ A(2, 1) /\ A(1, 3) /\ A(2, 3)
        \/ A(2, 3) /\ A(3, 1) /\ A(2, 1)
        \/ A(3, 1) /\ A(1, 2) /\ A(3, 2)
        \/ A(3, 2) /\ A(2, 1) /\ A(3, 1)
    BY <2>2
  <2> HIDE DEF A
  <2> QED BY <2>1, <2>3
<1>3. PICK x \in Conductor, y \in Conductor, z \in Conductor : A(x, y) /\ A(y, z) /\ A(x, z)
  BY <1>2
<1> DEFINE w == [i \in Conductor |-> IF i = 1 THEN x ELSE IF i = 2 THEN y ELSE z]
<1>4. w \in [Conductor -> Conductor] /\ Good(w)
  <2> HIDE DEF A
  <2>1. w \in [Conductor -> Conductor]
    OBVIOUS
  <2>2. \A i, j \in Conductor : i < j => (i = 1 /\ j = 2) \/ (i = 1 /\ j = 3) \/ (i = 2 /\ j = 3)
    BY DEF Conductor
  <2>3. w[1] = x /\ w[2] = y /\ w[3] = z
    BY DEF Conductor
  <2> HIDE DEF w
  <2> QED BY <1>3, <2>1, <2>2, <2>3
<1> DEFINE s == Ordered(delta)
<1>5. s \in [Conductor -> Conductor] /\ Good(s)
  <2>1. s = CHOOSE v \in [Conductor -> Conductor] : Good(v)
    BY DEF Ordered
  <2> HIDE DEF Good, s, w
  <2> QED BY <1>4, <2>1
<1>6. s[1] \in Conductor /\ s[2] \in Conductor /\ s[3] \in Conductor /\ A(s[1], s[2]) /\ A(s[2], s[3]) /\ A(s[1], s[3])
  <2>1. 1 \in Conductor /\ 2 \in Conductor /\ 3 \in Conductor
    BY DEF Conductor
  <2> HIDE DEF A, s
  <2> QED BY <1>5, <2>1
<1>7. \A p \in Conductor : p \in {s[1], s[2], s[3]}
  <2>1. PICK i \in Conductor, j \in Conductor, k \in Conductor : i = s[1] /\ j = s[2] /\ k = s[3]
    BY <1>6
  <2>2. i # j /\ j # k /\ i # k
    <3>1. \A p \in Conductor : ~A(p, p)
      BY <1>1 DEF Conductor
    <3>2. A(i, j) /\ A(j, k) /\ A(i, k)
      BY <1>6, <2>1
    <3> HIDE DEF A
    <3> QED BY <3>1, <3>2
  <2>3. \A p \in Conductor : p \in {i, j, k}
    BY <2>2 DEF Conductor
  <2> QED BY <2>1, <2>3
<1>8. \A p \in Conductor : Mag(delta, p) <= Mag(delta, s[1])
  <2>1. \A p, q \in Conductor : A(p, q) => Mag(delta, q) <= Mag(delta, p)
    BY <1>1
  <2>2. \A p \in Conductor : Mag(delta, p) <= Mag(delta, p)
    <3>1. \A m \in Int : m <= m
      OBVIOUS
    <3> HIDE DEF A, s, Good, w
    <3> QED BY <1>1, <3>1
  <2> HIDE DEF A, s
  <2> QED BY <1>6, <1>7, <2>1, <2>2
<1> HIDE DEF A, Good, w
<1> QED BY <1>5, <1>8, Zenon

\* The conductors that changed most.
Most(delta) == {p \in Conductor : \A q \in Conductor : Mag(delta, q) <= Mag(delta, p)}

\* The step is above the noise of the currents.
Visible(delta) == \E p \in Conductor : Mag(delta, p) >= 20

\* The label of a step in a TN network.
LEMMA TNLabel ==
  ASSUME NEW delta \in [Conductor -> Int]
  PROVE  /\ ~Visible(delta) => classify_phase_delta(delta, "TN") = {}
         /\ Visible(delta) => /\ \/ classify_phase_delta(delta, "TN") = ThreePhase
                               \/ \E p \in Conductor : classify_phase_delta(delta, "TN") = {p}
                            /\ Most(delta) \cap classify_phase_delta(delta, "TN") # {}
<1>1. PICK s \in [Conductor -> Conductor] :
        s = Ordered(delta) /\ \A p \in Conductor : Mag(delta, p) <= Mag(delta, s[1])
  BY OrderedIs
<1>2. s[1] \in Conductor /\ \A p \in Conductor : Mag(delta, p) \in Int
  BY DEF Conductor, Mag
<1> DEFINE top == Mag(delta, s[1])
           third == Mag(delta, s[3])
           Noise == top < 20
           All == third > 40 /\ 100 * third > 55 * top
           label == classify_phase_delta(delta, "TN")
<1>3. Noise <=> ~Visible(delta)
  BY <1>1, <1>2 DEF Visible
<1>4. label = IF Noise THEN {} ELSE IF All THEN ThreePhase ELSE {s[1]}
  BY <1>1 DEF classify_phase_delta, NetworkType
<1>5. s[1] \in Most(delta)
  BY <1>1, <1>2 DEF Most
<1>6. s[1] \in ThreePhase
  BY <1>2 DEF Conductor, ThreePhase
<1> HIDE DEF Noise, All, label
<1>7. ~Visible(delta) => label = {}
  BY <1>3, <1>4
<1>8. ASSUME Visible(delta)
      PROVE  (label = ThreePhase \/ \E p \in Conductor : label = {p}) /\ Most(delta) \cap label # {}
  BY <1>2, <1>3, <1>4, <1>5, <1>6, <1>8
<1> QED BY <1>7, <1>8 DEF label

\* Four sets that do not overlap.
LEMMA FourParts ==
  ASSUME NEW U, IsFiniteSet(U), NEW A, A \subseteq U, NEW B, B \subseteq U, NEW C, C \subseteq U,
         NEW D, D \subseteq U, U = A \cup B \cup C \cup D,
         A \cap B = {}, (A \cup B) \cap C = {}, (A \cup B \cup C) \cap D = {}
  PROVE  Cardinality(U) = Cardinality(A) + Cardinality(B) + Cardinality(C) + Cardinality(D)
<1>1. IsFiniteSet(A) /\ IsFiniteSet(B) /\ IsFiniteSet(C) /\ IsFiniteSet(D)
  BY FS_Subset
<1>2. Cardinality({}) = 0
  BY FS_EmptySet
<1>3. PICK V : V = A \cup B
  OBVIOUS
<1>4. IsFiniteSet(V) /\ Cardinality(V) = Cardinality(A) + Cardinality(B) - Cardinality(A \cap B)
  BY <1>1, <1>3, FS_Union
<1>5. PICK W : W = V \cup C
  OBVIOUS
<1>6. IsFiniteSet(W) /\ Cardinality(W) = Cardinality(V) + Cardinality(C) - Cardinality(V \cap C)
  BY <1>1, <1>4, <1>5, FS_Union
<1>7. Cardinality(W \cup D) = Cardinality(W) + Cardinality(D) - Cardinality(W \cap D)
  BY <1>1, <1>6, FS_Union
<1>8. W \cup D = U /\ W \cap D = {} /\ V \cap C = {} /\ A \cap B = {}
  BY <1>3, <1>5
<1>9. /\ Cardinality(A) \in Nat /\ Cardinality(B) \in Nat /\ Cardinality(C) \in Nat /\ Cardinality(D) \in Nat
      /\ Cardinality(V) \in Nat /\ Cardinality(W) \in Nat
  BY <1>1, <1>4, <1>6, FS_CardinalityType
<1>10. /\ Cardinality(U) = Cardinality(W) + Cardinality(D) - Cardinality({})
       /\ Cardinality(W) = Cardinality(V) + Cardinality(C) - Cardinality({})
       /\ Cardinality(V) = Cardinality(A) + Cardinality(B) - Cardinality({})
  BY <1>4, <1>6, <1>7, <1>8
<1> QED BY <1>2, <1>9, <1>10

\* How the currents change over an interval.
CurrentStep(d, i) == [p \in Conductor |-> d[i + 1].amps[p] - d[i].amps[p]]

\* The steps that are large enough and that the currents show.
SeenIn(d) == {i \in HeatIntervals(d) : Step(d, i) >= Threshold /\ Visible(CurrentStep(d, i))}

\* It is a change of currents.
LEMMA CurrentStepIs ==
  ASSUME NEW d \in Seq(Row), NEW i \in HeatIntervals(d)
  PROVE  CurrentStep(d, i) \in [Conductor -> Int]
<1>1. d[i] \in Row /\ d[i + 1] \in Row
  BY IntervalIs
<1>2. d[i].amps \in [Conductor -> Int] /\ d[i + 1].amps \in [Conductor -> Int]
  BY <1>1, RowValues
<1>3. \A p \in Conductor : d[i + 1].amps[p] - d[i].amps[p] \in Int
  <2>1. PICK a \in [Conductor -> Int], b \in [Conductor -> Int] : a = d[i].amps /\ b = d[i + 1].amps
    BY <1>2
  <2>2. \A m, n \in Int : m - n \in Int
    OBVIOUS
  <2>3. \A p \in Conductor : a[p] \in Int /\ b[p] \in Int
    OBVIOUS
  <2>4. \A p \in Conductor : b[p] - a[p] \in Int
    BY <2>2, <2>3
  <2> QED BY <2>1, <2>4
<1> QED BY <1>3 DEF CurrentStep

\* The slots of a TN network are four different labels, one of which a step has if it shows.
LEMMA SlotOf ==
  ASSUME NEW d \in Seq(Row), NEW i \in HeatIntervals(d)
  PROVE  /\ Visible(CurrentStep(d, i)) <=> \E k \in 1 .. 4 : StepLabel(d, i, "TN") = Slot(k, "TN")
         /\ \A k, l \in 1 .. 4 : Slot(k, "TN") = Slot(l, "TN") => k = l
<1>1. Slot(1, "TN") = {1} /\ Slot(2, "TN") = {2} /\ Slot(3, "TN") = {3} /\ Slot(4, "TN") = {1, 2, 3}
  BY DEF Slot, SwitchSlots, NetworkType, ThreePhase
<1>2. \A k, l \in 1 .. 4 : Slot(k, "TN") = Slot(l, "TN") => k = l
  <2>1. {1} # {2} /\ {1} # {3} /\ {2} # {3} /\ {1} # {1, 2, 3} /\ {2} # {1, 2, 3} /\ {3} # {1, 2, 3}
    <3>1. 1 # 2 /\ 1 # 3 /\ 2 # 3
      OBVIOUS
    <3>2. 2 \notin {1} /\ 3 \notin {1} /\ 3 \notin {2} /\ 1 \notin {2} /\ 1 \notin {3} /\ 2 \notin {3}
      BY <3>1
    <3>3. /\ 1 \in {1} /\ 2 \in {2} /\ 3 \in {3}
          /\ 1 \in {1, 2, 3} /\ 2 \in {1, 2, 3} /\ 3 \in {1, 2, 3}
      OBVIOUS
    <3> QED BY <3>2, <3>3, Zenon
  <2>2. \A k \in 1 .. 4 : k = 1 \/ k = 2 \/ k = 3 \/ k = 4
    OBVIOUS
  <2> QED BY <1>1, <2>1, <2>2
<1>3. PICK delta \in [Conductor -> Int] : delta = CurrentStep(d, i)
  BY CurrentStepIs
<1>4. StepLabel(d, i, "TN") = classify_phase_delta(delta, "TN")
  BY <1>3 DEF StepLabel, CurrentStep
<1>5. ~Visible(delta) => StepLabel(d, i, "TN") = {}
  BY <1>4, TNLabel
<1>6. Visible(delta) => \/ StepLabel(d, i, "TN") = ThreePhase
                        \/ \E p \in Conductor : StepLabel(d, i, "TN") = {p}
  BY <1>4, TNLabel
<1>7. ASSUME Visible(delta) PROVE \E k \in 1 .. 4 : StepLabel(d, i, "TN") = Slot(k, "TN")
  <2> 1 \in 1 .. 4 /\ 2 \in 1 .. 4 /\ 3 \in 1 .. 4 /\ 4 \in 1 .. 4
    OBVIOUS
  <2>1. CASE StepLabel(d, i, "TN") = ThreePhase
    <3>1. StepLabel(d, i, "TN") = Slot(4, "TN")
      BY <1>1, <2>1 DEF ThreePhase
    <3> QED BY <3>1
  <2>2. ASSUME NEW p \in Conductor, StepLabel(d, i, "TN") = {p}
        PROVE  \E k \in 1 .. 4 : StepLabel(d, i, "TN") = Slot(k, "TN")
    <3>1. p = 1 \/ p = 2 \/ p = 3
      BY DEF Conductor
    <3>2. \E k \in {1, 2, 3} : StepLabel(d, i, "TN") = Slot(k, "TN")
      BY <1>1, <2>2, <3>1, Zenon
    <3> QED BY <3>2
  <2> QED BY <1>6, <1>7, <2>1, <2>2
<1>8. ASSUME NEW k \in 1 .. 4, StepLabel(d, i, "TN") = Slot(k, "TN") PROVE Visible(delta)
  <2>1. Slot(k, "TN") # {}
    <3>1. k = 1 \/ k = 2 \/ k = 3 \/ k = 4
      OBVIOUS
    <3> QED BY <1>1, <3>1
  <2> QED BY <1>5, <1>8, <2>1
<1> QED BY <1>2, <1>3, <1>7, <1>8

\* The switches of an hour are the steps it shows.
LEMMA SwitchesOfHour ==
  ASSUME NEW d \in Seq(Row), NEW h \in Int
  PROVE  LET sw == Bucket(d, h, Threshold, "TN").switches IN
         /\ \A k \in 1 .. 4 : sw[k] \in Int
         /\ sw[1] + sw[2] + sw[3] + sw[4] = Cardinality({i \in SeenIn(d) : StepHour(d, i) = h})
<1> DEFINE I == HeatIntervals(d)
           E == {j \in I : StepHour(d, j) = h}
           P(k) == {i \in E : Step(d, i) >= Threshold /\ StepLabel(d, i, "TN") = Slot(k, "TN")}
           U == {i \in SeenIn(d) : StepHour(d, i) = h}
           sw == Bucket(d, h, Threshold, "TN").switches
<1>1. sw = [k \in 1 .. 4 |-> Cardinality(P(k))]
  BY DEF Bucket
<1>2. IsFiniteSet(I)
  BY TicksFinite
<1>3. \A k \in 1 .. 4 : P(k) \subseteq I
  OBVIOUS
<1>4. \A k \in 1 .. 4 : IsFiniteSet(P(k)) /\ Cardinality(P(k)) \in Nat
  <2> HIDE DEF P, I
  <2> QED BY <1>2, <1>3, FS_Subset, FS_CardinalityType
<1>5. IsFiniteSet(U)
  <2>1. U \subseteq I
    BY DEF SeenIn
  <2> HIDE DEF U, I
  <2> QED BY <1>2, <2>1, FS_Subset
<1>6. \A i \in U : \E k \in 1 .. 4 : i \in P(k)
  BY SlotOf DEF SeenIn
<1>7. \A k \in 1 .. 4 : P(k) \subseteq U
  BY SlotOf DEF SeenIn
<1>8. \A k, l \in 1 .. 4 : k # l => P(k) \cap P(l) = {}
  BY SlotOf
<1> HIDE DEF P, U, I, sw
<1>9. PICK A, B, C, D : A = P(1) /\ B = P(2) /\ C = P(3) /\ D = P(4)
  OBVIOUS
<1>10. U = A \cup B \cup C \cup D
  <2>1. \A k \in 1 .. 4 : k = 1 \/ k = 2 \/ k = 3 \/ k = 4
    OBVIOUS
  <2> QED BY <1>6, <1>7, <1>9, <2>1
<1>11. A \cap B = {} /\ A \cap C = {} /\ B \cap C = {} /\ A \cap D = {} /\ B \cap D = {} /\ C \cap D = {}
  BY <1>8, <1>9
<1>12. A \cap B = {} /\ (A \cup B) \cap C = {} /\ (A \cup B \cup C) \cap D = {}
  BY <1>11
<1>13. A \subseteq U /\ B \subseteq U /\ C \subseteq U /\ D \subseteq U
  BY <1>10
<1>14. Cardinality(U) = Cardinality(A) + Cardinality(B) + Cardinality(C) + Cardinality(D)
  BY <1>5, <1>10, <1>12, <1>13, FourParts
<1>15. sw[1] + sw[2] + sw[3] + sw[4] = Cardinality(U) /\ \A k \in 1 .. 4 : sw[k] \in Int
  BY <1>1, <1>4, <1>9, <1>14
<1> QED BY <1>15 DEF sw, U

\* Every step that shows is counted once.
LEMMA SeenIsCounted ==
  ASSUME NEW d \in Seq(Row)
  PROVE  /\ IsFiniteSet(SeenIn(d))
         /\ Cardinality(SeenIn(d))
              = SumFunctionOnSet([h \in HeatHours(d) |->
                  Bucket(d, h, Threshold, "TN").switches[1] + Bucket(d, h, Threshold, "TN").switches[2]
                  + Bucket(d, h, Threshold, "TN").switches[3] + Bucket(d, h, Threshold, "TN").switches[4]],
                  HeatHours(d))
<1> DEFINE S == SeenIn(d)
           D == HeatHours(d)
           G == [i \in S |-> 1]
           p == [i \in S |-> StepHour(d, i)]
           K == [h \in D |->
                  Bucket(d, h, Threshold, "TN").switches[1] + Bucket(d, h, Threshold, "TN").switches[2]
                  + Bucket(d, h, Threshold, "TN").switches[3] + Bucket(d, h, Threshold, "TN").switches[4]]
<1>1. IsFiniteSet(S)
  <2>1. IsFiniteSet(HeatIntervals(d)) /\ S \subseteq HeatIntervals(d)
    <3>1. 0 \in Int
      OBVIOUS
    <3> QED BY <3>1, TicksFinite DEF SeenIn
  <2> QED BY <2>1, FS_Subset
<1>2. IsFiniteSet(D) /\ D \subseteq Int
  BY HeatHoursIs
<1>3. \A i \in S : p[i] \in D /\ G[i] \in Int /\ G[i] = 1
  BY HeatHoursIs DEF SeenIn
<1>4. ASSUME NEW h \in D PROVE K[h] = SumFunctionOnSet(G, {i \in S : p[i] = h})
  <2> DEFINE T == {i \in S : StepHour(d, i) = h}
  <2>1. {i \in S : p[i] = h} = T
    OBVIOUS
  <2>2. h \in Int
    BY <1>2
  <2>3. K[h] = Cardinality(T)
    BY <2>2, SwitchesOfHour
  <2>4. IsFiniteSet(T) /\ \A i \in T : G[i] = 1
    BY <1>1, FS_Subset
  <2> HIDE DEF T, G, K
  <2>5. 1 \in Int /\ Cardinality(T) \in Nat
    BY <2>4, FS_CardinalityType
  <2>6. SumFunctionOnSet(G, T) = 1 * Cardinality(T)
    BY <2>4, <2>5, SumCounts
  <2>7. \A n \in Nat : 1 * n = n
    OBVIOUS
  <2> QED BY <2>1, <2>3, <2>5, <2>6, <2>7
<1> HIDE DEF S, D, G, p, K
<1>5. GroupsIn(G, S, p, K, D)
  BY <1>3, <1>4 DEF GroupsIn
<1>6. SumFunctionOnSet(G, S) = SumFunctionOnSet(K, D)
  BY <1>1, <1>2, <1>3, <1>5, SumGroupedIn
<1>7. Cardinality(S) \in Nat /\ 1 \in Int
  BY <1>1, FS_CardinalityType
<1>8. SumFunctionOnSet(G, S) = 1 * Cardinality(S)
  BY <1>1, <1>3, <1>7, SumCounts
<1>9. \A n \in Nat : 1 * n = n
  OBVIOUS
<1>10. Cardinality(S) = SumFunctionOnSet(K, D)
  BY <1>6, <1>7, <1>8, <1>9
<1> QED BY <1>1, <1>10 DEF S, D, K

\* The parts of a heatmap.
LEMMA MapIs ==
  ASSUME NEW r, NEW net, NEW d, d = Dated(r), NEW map, map = build_load_heatmaps(r, 7, Threshold, net)
  PROVE  /\ map.bucket = [h \in HeatHours(d) |-> Bucket(d, h, Threshold, net)]
         /\ DOMAIN map.weekday = 0 .. DaysPerWeek - 1
         /\ \A w \in 0 .. DaysPerWeek - 1 : DOMAIN map.weekday[w] = 0 .. HoursPerDay - 1
         /\ WeekMap(map.weekday, map.bucket, HeatHours(d))
<1>1. map.bucket = [h \in HeatHours(d) |-> Bucket(d, h, Threshold, net)]
  BY DEF build_load_heatmaps
<1>2. map.weekday = [w \in 0 .. DaysPerWeek - 1 |-> [k \in 0 .. HoursPerDay - 1 |->
        MergedAll([x \in HeatHours(d) |-> Bucket(d, x, Threshold, net)],
          {h \in HeatHours(d) : (h \div HoursPerDay) % DaysPerWeek = w /\ h % HoursPerDay = k})]]
  BY DEF build_load_heatmaps
<1>3. PICK b : b = [x \in HeatHours(d) |-> Bucket(d, x, Threshold, net)]
  OBVIOUS
<1>4. map.weekday = [w \in 0 .. DaysPerWeek - 1 |-> [k \in 0 .. HoursPerDay - 1 |->
        MergedAll(b, {h \in HeatHours(d) : (h \div HoursPerDay) % DaysPerWeek = w /\ h % HoursPerDay = k})]]
  BY <1>2, <1>3
<1>5. WeekMap(map.weekday, b, HeatHours(d))
  <2> SUFFICES ASSUME NEW w \in 0 .. DaysPerWeek - 1, NEW x \in 0 .. HoursPerDay - 1
               PROVE  map.weekday[w][x] = MergedAll(b,
                        {h \in HeatHours(d) : (h \div HoursPerDay) % DaysPerWeek = w /\ h % HoursPerDay = x})
    BY DEF WeekMap
  <2> DEFINE Cell(u, v) == {h \in HeatHours(d) : (h \div HoursPerDay) % DaysPerWeek = u /\ h % HoursPerDay = v}
             f == map.weekday
  <2>1. f = [u \in 0 .. DaysPerWeek - 1 |-> [v \in 0 .. HoursPerDay - 1 |-> MergedAll(b, Cell(u, v))]]
    BY <1>4
  <2> HIDE DEF Cell, f
  <2>2. f[w][x] = MergedAll(b, Cell(w, x))
    BY <2>1
  <2> QED BY <2>2 DEF Cell, f
<1> QED BY <1>1, <1>3, <1>4, <1>5

\* What the heatmap promises for the hours ...
HoursExact(d, bucket) ==
  \A h \in DOMAIN bucket :
    /\ bucket[h].duration = Cardinality(TicksIn(d, h))
    /\ bucket[h].use = SumFunctionOnSet([x \in TicksIn(d, h) |-> Use(d[x[1]])], TicksIn(d, h))
    /\ (\A i \in 1 .. Len(d) - 1 : Gap(d, i) > 0) => bucket[h].duration <= HourLen

\* ... for the energy ...
EnergyKept(d, bucket) ==
  SumFunctionOnSet([h \in DOMAIN bucket |-> bucket[h].signed], DOMAIN bucket)
    = SumFunctionOnSet([i \in HeatIntervals(d) |-> signed_grid_w(d[i]) * Gap(d, i)], HeatIntervals(d))

\* ... for the weekdays ...
WeekKept(weekday, bucket) ==
  \A k \in 1 .. 4 :
    SumFunctionOnSet([w \in DOMAIN weekday |->
        SumFunctionOnSet([x \in DOMAIN weekday[w] |-> weekday[w][x].switches[k]], DOMAIN weekday[w])], DOMAIN weekday)
      = SumFunctionOnSet([h \in DOMAIN bucket |-> bucket[h].switches[k]], DOMAIN bucket)

\* ... and for the steps of a TN network.
StepsNamed(d, bucket) ==
  /\ Cardinality(SeenIn(d))
       = SumFunctionOnSet([h \in DOMAIN bucket |-> bucket[h].switches[1] + bucket[h].switches[2]
                             + bucket[h].switches[3] + bucket[h].switches[4]], DOMAIN bucket)
  /\ \A i \in SeenIn(d) : Most(CurrentStep(d, i)) \cap StepLabel(d, i, "TN") # {}

\* The four together, for readings that were dated.
LEMMA HeatmapOf ==
  ASSUME NEW q \in Seq(Row), NEW net, NEW d \in Seq(Row), d = Dated(Reverse(q)),
         NEW map, map = build_load_heatmaps(Reverse(q), 7, Threshold, net)
  PROVE  /\ HoursExact(d, map.bucket) /\ EnergyKept(d, map.bucket) /\ WeekKept(map.weekday, map.bucket)
         /\ net = "TN" => StepsNamed(d, map.bucket)
<1> DEFINE D == HeatHours(d)
<1>1. PICK b : b = map.bucket
  OBVIOUS
<1>2. PICK m : m = map.weekday
  OBVIOUS
<1>3. /\ b = [h \in D |-> Bucket(d, h, Threshold, net)]
      /\ DOMAIN m = 0 .. DaysPerWeek - 1
      /\ \A w \in 0 .. DaysPerWeek - 1 : DOMAIN m[w] = 0 .. HoursPerDay - 1
      /\ WeekMap(m, b, D)
  BY <1>1, <1>2, MapIs
<1>4. DOMAIN b = D /\ IsFiniteSet(D) /\ D \subseteq Int /\ \A h \in D : b[h] = Bucket(d, h, Threshold, net)
  BY <1>3, HeatHoursIs
<1>5. HoursExact(d, b)
  <2> SUFFICES ASSUME NEW h \in D
               PROVE  /\ b[h].duration = Cardinality(TicksIn(d, h))
                      /\ b[h].use = SumFunctionOnSet([x \in TicksIn(d, h) |-> Use(d[x[1]])], TicksIn(d, h))
                      /\ (\A i \in 1 .. Len(d) - 1 : Gap(d, i) > 0) => b[h].duration <= HourLen
    BY <1>4 DEF HoursExact
  <2>1. h \in Int /\ b[h] = Bucket(d, h, Threshold, net)
    BY <1>4
  <2>2. /\ Bucket(d, h, Threshold, net).duration = Cardinality(TicksIn(d, h))
        /\ Bucket(d, h, Threshold, net).use = SumFunctionOnSet([x \in TicksIn(d, h) |-> Use(d[x[1]])], TicksIn(d, h))
    BY <2>1, BucketTicks
  <2>3. ASSUME \A i \in 1 .. Len(d) - 1 : Gap(d, i) > 0 PROVE Cardinality(TicksIn(d, h)) <= HourLen
    <3>1. \A a, c \in 1 .. Len(d) : a < c => d[a].t < d[c].t
      BY <2>3, ForwardRises
    <3> QED BY <2>1, <3>1, NoTickTwice
  <2> HIDE DEF D
  <2> QED BY <2>1, <2>2, <2>3
<1>6. EnergyKept(d, b)
  <2>1. SumFunctionOnSet([h \in D |-> Bucket(d, h, Threshold, net).signed], D)
          = SumFunctionOnSet([i \in HeatIntervals(d) |-> signed_grid_w(d[i]) * Gap(d, i)], HeatIntervals(d))
    BY SignedIsKept
  <2>2. [h \in D |-> Bucket(d, h, Threshold, net).signed] = [h \in D |-> b[h].signed]
    BY <1>4
  <2> HIDE DEF D
  <2> QED BY <1>4, <2>1, <2>2 DEF EnergyKept
<1>7. WeekKept(m, b)
  <2> SUFFICES ASSUME NEW k \in 1 .. 4
               PROVE  SumFunctionOnSet([w \in DOMAIN m |->
                        SumFunctionOnSet([x \in DOMAIN m[w] |-> m[w][x].switches[k]], DOMAIN m[w])], DOMAIN m)
                        = SumFunctionOnSet([h \in DOMAIN b |-> b[h].switches[k]], DOMAIN b)
    BY DEF WeekKept
  <2>1. \A h \in D : b[h].switches[k] \in Int
    <3> SUFFICES ASSUME NEW h \in D PROVE b[h].switches[k] \in Int
      OBVIOUS
    <3>1. b[h].switches = [l \in 1 .. 4 |->
            Cardinality({i \in {j \in HeatIntervals(d) : StepHour(d, j) = h} :
                           Step(d, i) >= Threshold /\ StepLabel(d, i, net) = Slot(l, net)})]
      <4>1. Bucket(d, h, Threshold, net).switches = [l \in 1 .. 4 |->
              Cardinality({i \in {j \in HeatIntervals(d) : StepHour(d, j) = h} :
                             Step(d, i) >= Threshold /\ StepLabel(d, i, net) = Slot(l, net)})]
        BY DEF Bucket
      <4>2. b[h] = Bucket(d, h, Threshold, net)
        BY <1>4
      <4> QED BY <4>1, <4>2
    <3> DEFINE C == {i \in {j \in HeatIntervals(d) : StepHour(d, j) = h} :
                           Step(d, i) >= Threshold /\ StepLabel(d, i, net) = Slot(k, net)}
    <3>2. b[h].switches[k] = Cardinality(C)
      BY <3>1
    <3>3. IsFiniteSet(C)
      <4>1. IsFiniteSet(HeatIntervals(d)) /\ C \subseteq HeatIntervals(d)
        BY <1>4, TicksFinite
      <4> QED BY <4>1, FS_Subset
    <3> HIDE DEF C
    <3>4. Cardinality(C) \in Nat
      BY <3>3, FS_CardinalityType
    <3> QED BY <3>2, <3>4
  <2> HIDE DEF D
  <2>2. SumFunctionOnSet([w \in 0 .. DaysPerWeek - 1 |->
           SumFunctionOnSet([x \in 0 .. HoursPerDay - 1 |-> m[w][x].switches[k]], 0 .. HoursPerDay - 1)],
           0 .. DaysPerWeek - 1)
           = SumFunctionOnSet([h \in D |-> b[h].switches[k]], D)
    <3>1. SwitchesOfWeek(m, k) = SwitchesOfHours(D, b, k)
      BY <1>3, <1>4, <2>1, WeekdaysKeep
    <3> QED BY <3>1 DEF SwitchesOfWeek, SwitchesOfHours
  <2>3. [w \in DOMAIN m |-> SumFunctionOnSet([x \in DOMAIN m[w] |-> m[w][x].switches[k]], DOMAIN m[w])]
          = [w \in 0 .. DaysPerWeek - 1 |->
              SumFunctionOnSet([x \in 0 .. HoursPerDay - 1 |-> m[w][x].switches[k]], 0 .. HoursPerDay - 1)]
    BY <1>3
  <2> QED BY <1>3, <1>4, <2>2, <2>3
<1>8. ASSUME net = "TN" PROVE StepsNamed(d, b)
  <2>1. Cardinality(SeenIn(d))
              = SumFunctionOnSet([h \in HeatHours(d) |->
                  Bucket(d, h, Threshold, "TN").switches[1] + Bucket(d, h, Threshold, "TN").switches[2]
                  + Bucket(d, h, Threshold, "TN").switches[3] + Bucket(d, h, Threshold, "TN").switches[4]],
                  HeatHours(d))
    BY SeenIsCounted
  <2>2. [h \in D |->
                  Bucket(d, h, Threshold, "TN").switches[1] + Bucket(d, h, Threshold, "TN").switches[2]
                  + Bucket(d, h, Threshold, "TN").switches[3] + Bucket(d, h, Threshold, "TN").switches[4]]
          = [h \in D |-> b[h].switches[1] + b[h].switches[2] + b[h].switches[3] + b[h].switches[4]]
    BY <1>4, <1>8
  <2>3. ASSUME NEW i \in SeenIn(d) PROVE Most(CurrentStep(d, i)) \cap StepLabel(d, i, "TN") # {}
    <3>1. i \in HeatIntervals(d) /\ Visible(CurrentStep(d, i))
      BY DEF SeenIn
    <3>2. PICK delta \in [Conductor -> Int] : delta = CurrentStep(d, i)
      BY <3>1, CurrentStepIs
    <3>3. StepLabel(d, i, "TN") = classify_phase_delta(delta, "TN")
      BY <3>2 DEF StepLabel, CurrentStep
    <3>4. Visible(delta) => Most(delta) \cap classify_phase_delta(delta, "TN") # {}
      BY TNLabel
    <3> QED BY <3>1, <3>2, <3>3, <3>4
  <2>4. Cardinality(SeenIn(d)) = SumFunctionOnSet([h \in D |->
                  Bucket(d, h, Threshold, "TN").switches[1] + Bucket(d, h, Threshold, "TN").switches[2]
                  + Bucket(d, h, Threshold, "TN").switches[3] + Bucket(d, h, Threshold, "TN").switches[4]], D)
    BY <2>1
  <2> HIDE DEF D
  <2>5. Cardinality(SeenIn(d)) = SumFunctionOnSet([h \in D |->
          b[h].switches[1] + b[h].switches[2] + b[h].switches[3] + b[h].switches[4]], D)
    BY <2>2, <2>4, Zenon
  <2> QED BY <1>4, <2>3, <2>5 DEF StepsNamed
<1> QED BY <1>1, <1>2, <1>5, <1>6, <1>7, <1>8

\* The change of one conductor, measured in the two ways the code measures it.
LEMMA ChangeIs ==
  ASSUME NEW d \in Seq(Row), NEW i \in HeatIntervals(d)
  PROVE  \A p \in Conductor : Abs(d[i + 1].amps[p] - d[i].amps[p]) = Mag(CurrentStep(d, i), p)
<1> SUFFICES ASSUME NEW p \in Conductor
             PROVE  Abs(d[i + 1].amps[p] - d[i].amps[p]) = Mag(CurrentStep(d, i), p)
  OBVIOUS
<1>1. PICK x : x = d[i + 1].amps[p] - d[i].amps[p]
  OBVIOUS
<1>2. CurrentStep(d, i)[p] = x
  BY <1>1 DEF CurrentStep
<1>3. x \in Int
  BY <1>2, CurrentStepIs
<1>4. \A n \in Int : (IF n > -n THEN n ELSE -n) = (IF n < 0 THEN -n ELSE n)
  OBVIOUS
<1>5. Abs(x) = IF x < 0 THEN -x ELSE x
  BY <1>3, <1>4 DEF Abs, Larger
<1> QED BY <1>1, <1>2, <1>5 DEF Mag

\* What the property says of one map.
MapExact(d, bucket, weekday, net) ==
  LET I == HeatIntervals(d)
      Ticks(h) == {x \in I \X (h * HourLen .. (h + 1) * HourLen - 1) :
                     d[x[1]].t <= x[2] /\ x[2] < d[x[1] + 1].t}
      Big == {i \in I : Step(d, i) >= Threshold}
      Largest(i) == {p \in Conductor : \A q \in Conductor :
        Abs(d[i + 1].amps[q] - d[i].amps[q]) <= Abs(d[i + 1].amps[p] - d[i].amps[p])}
      Seen == {i \in Big : \E p \in Conductor : Abs(d[i + 1].amps[p] - d[i].amps[p]) >= 20}
  IN /\ \A h \in DOMAIN bucket :
          /\ bucket[h].duration = Cardinality(Ticks(h))
          /\ bucket[h].use = Sum(LAMBDA x : Use(d[x[1]]), Ticks(h))
          /\ (\A i \in 1 .. Len(d) - 1 : Gap(d, i) > 0) => bucket[h].duration <= HourLen
     /\ Sum(LAMBDA h : bucket[h].signed, DOMAIN bucket) = Sum(LAMBDA i : signed_grid_w(d[i]) * Gap(d, i), I)
     /\ \A k \in 1 .. 4 :
          Sum(LAMBDA w : Sum(LAMBDA x : weekday[w][x].switches[k], DOMAIN weekday[w]), DOMAIN weekday)
            = Sum(LAMBDA h : bucket[h].switches[k], DOMAIN bucket)
     /\ net = "TN" =>
          /\ Cardinality(Seen)
               = Sum(LAMBDA h : bucket[h].switches[1] + bucket[h].switches[2]
                                + bucket[h].switches[3] + bucket[h].switches[4], DOMAIN bucket)
          /\ \A i \in Seen : Largest(i) \cap StepLabel(d, i, net) # {}

\* It is the four promises together.
LEMMA HeatmapRead ==
  ASSUME NEW d \in Seq(Row), NEW bucket, NEW weekday, NEW net,
         HoursExact(d, bucket), EnergyKept(d, bucket), WeekKept(weekday, bucket),
         net = "TN" => StepsNamed(d, bucket)
  PROVE  MapExact(d, bucket, weekday, net)
<1> DEFINE I == HeatIntervals(d)
           Ticks(h) == {x \in I \X (h * HourLen .. (h + 1) * HourLen - 1) :
                          d[x[1]].t <= x[2] /\ x[2] < d[x[1] + 1].t}
           Big == {i \in I : Step(d, i) >= Threshold}
           Largest(i) == {p \in Conductor : \A q \in Conductor :
             Abs(d[i + 1].amps[q] - d[i].amps[q]) <= Abs(d[i + 1].amps[p] - d[i].amps[p])}
           Seen == {i \in Big : \E p \in Conductor : Abs(d[i + 1].amps[p] - d[i].amps[p]) >= 20}
<1>1. \A h : Ticks(h) = TicksIn(d, h)
  BY DEF TicksIn
<1>2. \A i \in I : Largest(i) = Most(CurrentStep(d, i))
  <2> SUFFICES ASSUME NEW i \in I PROVE Largest(i) = Most(CurrentStep(d, i))
    OBVIOUS
  <2>1. \A p \in Conductor : Abs(d[i + 1].amps[p] - d[i].amps[p]) = Mag(CurrentStep(d, i), p)
    BY ChangeIs
  <2> QED BY <2>1 DEF Most
<1>3. Seen = SeenIn(d)
  <2>1. \A i \in I : (\E p \in Conductor : Abs(d[i + 1].amps[p] - d[i].amps[p]) >= 20) <=> Visible(CurrentStep(d, i))
    <3> SUFFICES ASSUME NEW i \in I
                 PROVE (\E p \in Conductor : Abs(d[i + 1].amps[p] - d[i].amps[p]) >= 20) <=> Visible(CurrentStep(d, i))
      OBVIOUS
    <3>1. \A p \in Conductor : Abs(d[i + 1].amps[p] - d[i].amps[p]) = Mag(CurrentStep(d, i), p)
      BY ChangeIs
    <3> QED BY <3>1 DEF Visible
  <2> QED BY <2>1 DEF SeenIn
<1> HIDE DEF Ticks, Largest, Seen, I
<1>4. \A h \in DOMAIN bucket :
            /\ bucket[h].duration = Cardinality(Ticks(h))
            /\ bucket[h].use = Sum(LAMBDA x : Use(d[x[1]]), Ticks(h))
            /\ (\A i \in 1 .. Len(d) - 1 : Gap(d, i) > 0) => bucket[h].duration <= HourLen
  BY <1>1 DEF HoursExact, Sum
<1>5. Sum(LAMBDA h : bucket[h].signed, DOMAIN bucket) = Sum(LAMBDA i : signed_grid_w(d[i]) * Gap(d, i), I)
  BY DEF EnergyKept, Sum, I
<1>6. \A k \in 1 .. 4 :
            Sum(LAMBDA w : Sum(LAMBDA x : weekday[w][x].switches[k], DOMAIN weekday[w]), DOMAIN weekday)
              = Sum(LAMBDA h : bucket[h].switches[k], DOMAIN bucket)
  BY DEF WeekKept, Sum
<1>7. ASSUME net = "TN"
      PROVE  /\ Cardinality(Seen)
                 = Sum(LAMBDA h : bucket[h].switches[1] + bucket[h].switches[2]
                                  + bucket[h].switches[3] + bucket[h].switches[4], DOMAIN bucket)
             /\ \A i \in Seen : Largest(i) \cap StepLabel(d, i, net) # {}
  <2>1. StepsNamed(d, bucket)
    BY <1>7
  <2>2. Cardinality(Seen)
                 = Sum(LAMBDA h : bucket[h].switches[1] + bucket[h].switches[2]
                                  + bucket[h].switches[3] + bucket[h].switches[4], DOMAIN bucket)
    BY <1>3, <2>1 DEF StepsNamed, Sum
  <2>3. \A i \in Seen : i \in I
    BY <1>3 DEF SeenIn, I
  <2>4. \A i \in Seen : Most(CurrentStep(d, i)) \cap StepLabel(d, i, net) # {}
    BY <1>3, <1>7, <2>1 DEF StepsNamed
  <2> QED BY <1>2, <2>2, <2>3, <2>4
<1> QED BY <1>4, <1>5, <1>6, <1>7 DEF MapExact, Ticks, Largest, Seen, I

\* The readings of a table satisfy the property.
LEMMA HeatmapHolds == TableInv => HeatmapIsExact
<1> SUFFICES ASSUME TableInv PROVE HeatmapIsExact
  OBVIOUS
<1>1. PICK q \in Seq(Row) : q = table
  BY DEF TableInv
<1>2. PICK d \in Seq(Row) : d = Dated(Reverse(q))
  BY DatedFacts
<1>3. dated = d /\ desc = Reverse(q)
  BY <1>1, <1>2 DEF dated, desc, get_all
<1>4. ASSUME NEW net \in Networks, NEW map, map = build_load_heatmaps(Reverse(q), 7, Threshold, net)
      PROVE  /\ HoursExact(d, map.bucket) /\ EnergyKept(d, map.bucket) /\ WeekKept(map.weekday, map.bucket)
             /\ net = "TN" => StepsNamed(d, map.bucket)
  BY <1>2, <1>4, HeatmapOf
<1>5. \A net \in Networks :
        LET map == build_load_heatmaps(Reverse(q), 7, Threshold, net) IN MapExact(d, map.bucket, map.weekday, net)
  BY <1>4, HeatmapRead
<1>6. \A net \in Networks :
        LET map == build_load_heatmaps(desc, 7, Threshold, net) IN MapExact(dated, map.bucket, map.weekday, net)
  BY <1>3, <1>5
<1> QED BY <1>6 DEF HeatmapIsExact, Forward, MapExact, Sum

\* For any readings and any calendar: the hours hold the ticks of their intervals and no more
\* than an hour when the clock goes forward, all the energy is there once, weekdays keep the
\* switches of the days, and in a TN network every step that the currents show is counted
\* and names a conductor that changed most (analysis.py:709-822, mains.py:43).
THEOREM HeatmapExact == Spec => []HeatmapIsExact
<1>1. Spec => []TableInv
  BY InitTable, TableStep, PTL DEF Spec
<1> QED BY <1>1, HeatmapHolds, PTL

-----------------------------------------------------------------------------
(* Whole hours, days and weeks.                                              *)

\* The numbers of S, under other names.
Renames(F, S, f, G, T) ==
  /\ \A x \in S : F[x] \in Int /\ F[x] = G[f[x]]
  /\ \A x, y \in S : f[x] = f[y] => x = y
  /\ T = {f[x] : x \in S}

\* They have the same sum.
LEMMA SumMoved ==
  ASSUME NEW S, IsFiniteSet(S), NEW F, NEW f, NEW G, NEW T, Renames(F, S, f, G, T)
  PROVE  SumFunctionOnSet(F, S) = SumFunctionOnSet(G, T)
<1> USE DEF Renames
<1>1. ASSUME NEW t \in T PROVE G[t] = SumFunctionOnSet(F, {x \in S : f[x] = t})
  <2>1. PICK x \in S : f[x] = t
    OBVIOUS
  <2>2. {y \in S : f[y] = t} = {x}
    BY <2>1
  <2>3. IsFiniteSet({x}) /\ Cardinality({x}) = 1
    BY FS_Singleton
  <2>4. PICK c \in Int : c = F[x]
    BY <2>1
  <2>5. \A y \in {x} : F[y] = c
    BY <2>4
  <2>6. SumFunctionOnSet(F, {x}) = c * Cardinality({x})
    BY <2>3, <2>5, SumCounts
  <2>7. c * 1 = c
    OBVIOUS
  <2> QED BY <2>1, <2>2, <2>3, <2>4, <2>6, <2>7
<1>2. GroupSums(F, S, f, G, T)
  BY <1>1 DEF GroupSums
<1> QED BY <1>2, SumGrouped

\* Whole parts of a number.
LEMMA FloorIs ==
  ASSUME NEW b \in Nat \ {0}, NEW x \in Int
  PROVE  (x \div b) \in Int /\ b * (x \div b) <= x /\ x < b * (x \div b) + b
OBVIOUS

\* Of a larger number, a multiple is larger.
LEMMA MultipleRises ==
  ASSUME NEW b \in Nat \ {0}, NEW x \in Int, NEW y \in Int, x <= y
  PROVE  b * x \in Int /\ b * y \in Int /\ b * x <= b * y /\ b * (y + 1) = b * y + b /\ b * y = y * b
OBVIOUS

\* What fits into a number fits into its whole parts.
LEMMA FloorFits ==
  ASSUME NEW b \in Nat \ {0}, NEW x \in Int, NEW a \in Int, b * a <= x
  PROVE  a <= x \div b
<1>1. PICK y \in Int : y = x \div b /\ b * y <= x /\ x < b * y + b
  BY FloorIs
<1>2. CASE y + 1 <= a
  <2>1. b * (y + 1) <= b * a /\ b * (y + 1) = b * y + b
    BY <1>2, MultipleRises
  <2>2. PICK u \in Int, v \in Int, w \in Int : u = b * a /\ v = b * y /\ w = b * (y + 1)
    OBVIOUS
  <2>3. w <= u /\ w = v + b /\ u <= x /\ x < v + b
    BY <1>1, <2>1, <2>2
  <2> QED BY ONLY <2>3, u \in Int, v \in Int, w \in Int, b \in Int, x \in Int
<1> QED BY <1>1, <1>2

\* Since the start of the unit that y is in: in the same unit.
LEMMA SinceStart ==
  ASSUME NEW b \in Nat \ {0}, NEW x \in Int, NEW y \in Int, x <= y
  PROVE  /\ x >= (y \div b) * b <=> x \div b = y \div b
         /\ (y \div b) * b \in Int /\ (y \div b) * b <= y
         /\ x \div b <= y \div b
<1>1. PICK u \in Int : u = x \div b /\ b * u <= x /\ x < b * u + b
  BY FloorIs
<1>2. PICK v \in Int : v = y \div b /\ b * v <= y /\ y < b * v + b
  BY FloorIs
<1>3. v * b = b * v /\ b * v \in Int /\ b * u \in Int
  OBVIOUS
<1>4. u <= v
  <2>1. b * u <= y
    BY ONLY <1>1, <1>3, x <= y, x \in Int, y \in Int
  <2> QED BY <1>2, <2>1, FloorFits
<1>5. ASSUME x >= v * b PROVE u = v
  <2>1. b * v <= x
    BY ONLY <1>3, <1>5, x \in Int
  <2>2. v <= u
    BY <1>1, <2>1, FloorFits
  <2> QED BY <1>4, <2>2
<1>6. ASSUME u = v PROVE x >= v * b
  BY ONLY <1>1, <1>3, <1>6, x \in Int
<1>7. v * b <= y
  BY ONLY <1>2, <1>3, y \in Int
<1> QED BY <1>1, <1>2, <1>3, <1>4, <1>5, <1>6, <1>7

\* A larger unit starts no later.
LEMMA StartsNest ==
  ASSUME NEW b \in Nat \ {0}, NEW c \in Nat \ {0}, NEW y \in Int
  PROVE  /\ b * c \in Nat \ {0}
         /\ (y \div (b * c)) * (b * c) <= (y \div b) * b
<1>1. PICK m \in Nat \ {0} : m = b * c
  <2>1. \A i, j \in Nat \ {0} : i * j \in Nat \ {0}
    OBVIOUS
  <2> QED BY <2>1
<1>2. PICK w \in Int : w = y \div m /\ m * w <= y
  BY FloorIs
<1>3. PICK v \in Int : v = y \div b
  BY FloorIs
<1>4. m * w = b * (c * w) /\ c * w \in Int
  BY <1>1
<1>5. c * w <= v
  <2>1. PICK a \in Int : a = c * w
    BY <1>4
  <2>2. b * a <= y
    BY <1>2, <1>4, <2>1
  <2>3. a <= y \div b
    BY <2>2, FloorFits
  <2> QED BY <1>3, <2>1, <2>3
<1>6. b * (c * w) <= b * v
  BY <1>4, <1>5, MultipleRises
<1>7. b * v = v * b /\ m * w = w * m
  OBVIOUS
<1> QED BY <1>1, <1>2, <1>3, <1>4, <1>6, <1>7

\* The numbers up to n are in order.
LEMMA FirstInOrder ==
  ASSUME NEW n \in Nat, NEW k \in 1 .. n
  PROVE  IsFiniteSet(1 .. n) /\ Cardinality(1 .. n) = n /\ Nth(1 .. n, k) = k
<1>1. IsFiniteSet(1 .. n) /\ Cardinality(1 .. n) = n
  BY FS_Interval
<1>2. PICK j \in 1 .. n : j = Nth(1 .. n, k) /\ Cardinality({m \in 1 .. n : m < j}) = k - 1
  <2>1. 1 .. n \subseteq Int
    OBVIOUS
  <2> QED BY <1>1, <2>1, NthIn
<1>3. PICK l \in Int : l = j - 1
  OBVIOUS
<1>4. {m \in 1 .. n : m < j} = 1 .. l
  BY <1>3
<1>5. Cardinality(1 .. l) = l
  <2>1. Cardinality(1 .. l) = IF 1 > l THEN 0 ELSE l - 1 + 1
    BY FS_Interval
  <2> QED BY <1>3, <2>1
<1>6. l = k - 1
  BY <1>2, <1>4, <1>5
<1>7. j = k
  BY <1>3, <1>6
<1> QED BY <1>1, <1>2, <1>7

\* What is at the first places is the beginning.
LEMMA AtFirst ==
  ASSUME NEW q, NEW n \in Nat
  PROVE  At(q, 1 .. n) = [k \in 1 .. n |-> q[k]]
<1>1. IsFiniteSet(1 .. n) /\ 1 .. n \subseteq Int
  BY FS_Interval
<1>2. At(q, 1 .. n) = [k \in 1 .. Cardinality(1 .. n) |-> q[Nth(1 .. n, k)]]
  BY <1>1, AtIs
<1>3. CASE n = 0
  <2>1. Cardinality(1 .. n) = 0
    <3>1. 1 .. n = {}
      BY <1>3
    <3> QED BY <3>1, FS_EmptySet
  <2> QED BY <1>2, <1>3, <2>1
<1>4. CASE n > 0
  <2>1. Cardinality(1 .. n) = n
    <3>1. 1 \in 1 .. n
      BY <1>4
    <3> QED BY <3>1, FirstInOrder
  <2>2. \A k \in 1 .. n : Nth(1 .. n, k) = k
    BY FirstInOrder
  <2>3. [k \in 1 .. n |-> q[Nth(1 .. n, k)]] = [k \in 1 .. n |-> q[k]]
    BY <2>2
  <2> QED BY <1>2, <2>1, <2>3
<1> QED BY <1>3, <1>4

\* Readings that all have a time are all dated.
LEMMA AllDated ==
  ASSUME NEW q \in Seq(Row), \A i \in 1 .. Len(q) : q[i].t # NoTime
  PROVE  Dated(Reverse(q)) = q
<1>1. Dated(Reverse(q)) = At(q, {i \in 1 .. Len(q) : q[i].t # NoTime})
  BY ReverseTwice DEF Dated
<1>2. {i \in 1 .. Len(q) : q[i].t # NoTime} = 1 .. Len(q)
  OBVIOUS
<1>3. At(q, 1 .. Len(q)) = [k \in 1 .. Len(q) |-> q[k]]
  BY AtFirst
<1>4. q = [k \in 1 .. Len(q) |-> q[k]]
  OBVIOUS
<1>5. Len(q) \in Nat
  OBVIOUS
<1> QED BY <1>1, <1>2, <1>3, <1>4, <1>5, Zenon

\* A reading with a time, and times that rise.
Timely(q) == /\ q # <<>> /\ \A i \in 1 .. Len(q) : q[i].t # NoTime
             /\ \A i, j \in 1 .. Len(q) : i < j => q[i].t < q[j].t

\* The end of the table from place p + 1 on.
From(q, p) == [k \in 1 .. Len(q) - p |-> q[p + k]]

\* The readings since a time are the end of the table, and so are the readings dated from them.
LEMMA SinceIsEnd ==
  ASSUME NEW q \in Seq(Row), Timely(q), NEW since \in Int, since <= q[Len(q)].t
  PROVE  \E p \in 0 .. Len(q) - 1 :
           /\ \A i \in 1 .. Len(q) : q[i].t >= since <=> i > p
           /\ Dated(records_since_meter_time(q, <<>>, since, 0)) = From(q, p)
           /\ records_since_meter_time(q, <<>>, since, 0) # <<>>
<1> DEFINE L == Len(q)
           r == Reverse(q)
           B == {k \in 1 .. Len(r) : r[k].t # NoTime /\ r[k].t >= since}
<1>1. L \in Nat /\ L > 0 /\ \A i \in 1 .. L : q[i] \in Row /\ q[i].t \in Int /\ q[i].t # NoTime
  <2>1. q # <<>> /\ \A i \in 1 .. L : q[i].t # NoTime
    BY DEF Timely
  <2>2. L \in Nat /\ L > 0
    BY <2>1, EmptySeq
  <2>3. \A i \in 1 .. L : q[i] \in Row
    OBVIOUS
  <2> HIDE DEF L
  <2> QED BY <2>1, <2>2, <2>3 DEF Row
<1>2. r \in Seq(Row) /\ Len(r) = L /\ \A i \in 1 .. L : r[i] = q[L - i + 1]
  BY ReverseFacts
<1>3. records_since_meter_time(q, <<>>, since, 0) = At(r, B)
  <2>1. records_since_meter_time(q, <<>>, since, 0) = records_since_meter_time(q, r, since, 0)
    <3>1. q # <<>> /\ Rising(q)
      BY DEF Timely, Rising, Timed
    <3> QED BY <3>1, SinceAgree
  <2>2. r # <<>>
    BY <1>1, <1>2
  <2>3. records_since_meter_time(q, r, since, 0) = At(r, B)
    BY <2>2 DEF records_since_meter_time
  <2> HIDE DEF r, B
  <2> QED BY <2>1, <2>3
<1>4. \A k \in 1 .. L : k \in B <=> q[L - k + 1].t >= since
  <2>1. \A k \in 1 .. L : L - k + 1 \in 1 .. L
    BY <1>1
  <2> HIDE DEF L, r
  <2> QED BY <1>1, <1>2, <2>1
<1>5. B \subseteq 1 .. L /\ IsFiniteSet(B) /\ 1 \in B
  <2>1. B \subseteq 1 .. L
    BY <1>2
  <2>2. IsFiniteSet(1 .. L)
    BY FS_Interval
  <2>3. 1 \in B
    <3>1. L - 1 + 1 = L /\ 1 \in 1 .. L
      BY <1>1
    <3> HIDE DEF B, L
    <3> QED BY <1>4, <3>1 DEF L
  <2> HIDE DEF B, L
  <2> QED BY <2>1, <2>2, <2>3, FS_Subset
<1>6. PICK m \in B : \A k \in B : k <= m
  <2>1. B \subseteq Int /\ B # {}
    BY <1>5
  <2> HIDE DEF B
  <2> QED BY <1>5, <2>1, HasMax
<1>7. PICK p \in 0 .. L - 1 : p = L - m /\ m = L - p /\ m \in 1 .. L /\ m \in Nat
  <2>1. m \in 1 .. L /\ L \in Nat
    BY <1>1, <1>5
  <2> HIDE DEF L
  <2>2. L - m \in 0 .. L - 1 /\ m = L - (L - m)
    BY <2>1
  <2> QED BY <2>1, <2>2
<1>8. \A i, j \in 1 .. L : i < j => q[i].t < q[j].t
  BY DEF Timely
<1> HIDE DEF L, r, B
<1>9. B = 1 .. m
  <2>1. \A k \in B : k \in 1 .. m
    BY <1>5, <1>6, <1>7
  <2>2. ASSUME NEW k \in 1 .. m PROVE k \in B
    <3>1. k \in 1 .. L /\ L - k + 1 \in 1 .. L /\ L - m + 1 \in 1 .. L /\ (L - m + 1 < L - k + 1 \/ m = k)
      BY <1>1, <1>7
    <3>2. q[L - m + 1].t >= since
      BY <1>4, <1>6, <1>7
    <3>3. q[L - m + 1].t < q[L - k + 1].t \/ m = k
      BY <1>8, <3>1
    <3>4. PICK u \in Int, v \in Int : u = q[L - m + 1].t /\ v = q[L - k + 1].t
      BY <1>1, <3>1
    <3>5. v >= since
      <4>1. u >= since /\ (u < v \/ m = k)
        BY <3>2, <3>3, <3>4
      <4> QED BY <4>1, <3>4
    <3> QED BY <1>4, <3>1, <3>4, <3>5
  <2> QED BY <2>1, <2>2
<1>10. ASSUME NEW i \in 1 .. L PROVE q[i].t >= since <=> i > p
  <2>1. PICK k \in 1 .. L : k = L + 1 - i /\ i = L - k + 1
    BY <1>1
  <2>2. k \in B <=> q[i].t >= since
    BY <1>4, <2>1
  <2>3. k \in B <=> k <= m
    BY <1>9, <2>1, <1>7
  <2>4. k <= m <=> i > p
    BY <1>1, <1>7, <2>1
  <2> QED BY <2>2, <2>3, <2>4
<1> DEFINE e == From(q, p)
<1>11. e \in Seq(Row) /\ Len(e) = m /\ \A k \in 1 .. m : e[k] = q[p + k] /\ e[k].t # NoTime
  <2>1. e = [k \in 1 .. m |-> q[p + k]]
    BY <1>7 DEF From, L
  <2>2. \A k \in 1 .. m : p + k \in 1 .. L
    BY <1>1, <1>7
  <2> HIDE DEF e
  <2> QED BY <1>1, <1>7, <2>1, <2>2
<1> HIDE DEF e
<1>12. At(r, B) = Reverse(e)
  <2>1. At(r, B) = [k \in 1 .. m |-> r[k]]
    BY <1>7, <1>9, AtFirst
  <2>2. Reverse(e) = [k \in 1 .. m |-> e[m - k + 1]]
    BY <1>11 DEF Reverse
  <2>3. ASSUME NEW k \in 1 .. m PROVE r[k] = e[m - k + 1]
    <3>1. k \in 1 .. L /\ m - k + 1 \in 1 .. m /\ p + (m - k + 1) = L - k + 1
      BY <1>1, <1>7
    <3> QED BY <1>2, <1>11, <3>1
  <2> QED BY <2>1, <2>2, <2>3
<1>13. Dated(At(r, B)) = e
  BY <1>11, <1>12, AllDated
<1>14. At(r, B) # <<>>
  <2>1. At(r, B) = [k \in 1 .. m |-> r[k]]
    BY <1>7, <1>9, AtFirst
  <2>2. Len(At(r, B)) = m
    BY <1>7, <2>1
  <2> QED BY <1>7, <2>2
<1> QED BY <1>3, <1>10, <1>13, <1>14 DEF L, e

-----------------------------------------------------------------------------
(* The energy of the windows.                                                *)

\* The energy of the intervals.
ImportIn(q) == [i \in EnergyIntervals(q) |-> q[i].import * Gap(q, i)]
ExportIn(q) == [i \in EnergyIntervals(q) |-> q[i].export * Gap(q, i)]

\* What an interval with an energy is.
LEMMA EnergyIs ==
  ASSUME NEW q \in Seq(Row)
  PROVE  /\ IsFiniteSet(EnergyIntervals(q)) /\ EnergyIntervals(q) \subseteq Int
         /\ \A i \in EnergyIntervals(q) :
              /\ i \in 1 .. Len(q) /\ i + 1 \in 1 .. Len(q) /\ q[i] \in Row /\ q[i].t \in Int
              /\ Gap(q, i) \in Int /\ i \in HeatIntervals(q)
              /\ q[i].import * Gap(q, i) \in Int /\ q[i].export * Gap(q, i) \in Int
<1>1. EnergyIntervals(q) \subseteq 1 .. Len(q) - 1 /\ IsFiniteSet(1 .. Len(q) - 1) /\ Len(q) \in Nat
  BY FS_Interval DEF EnergyIntervals
<1>2. IsFiniteSet(EnergyIntervals(q)) /\ EnergyIntervals(q) \subseteq Int
  BY <1>1, FS_Subset
<1>3. ASSUME NEW i \in EnergyIntervals(q)
      PROVE  /\ i \in 1 .. Len(q) /\ i + 1 \in 1 .. Len(q) /\ q[i] \in Row /\ q[i].t \in Int
             /\ Gap(q, i) \in Int /\ i \in HeatIntervals(q)
             /\ q[i].import * Gap(q, i) \in Int /\ q[i].export * Gap(q, i) \in Int
  <2>1. i \in 1 .. Len(q) /\ i + 1 \in 1 .. Len(q)
    BY <1>1
  <2>2. q[i] \in Row /\ q[i + 1] \in Row
    BY <2>1
  <2>3. q[i].t \in Int /\ q[i].import \in Int /\ q[i].export \in Int /\ q[i + 1].t \in Int
    BY <2>2, ViewsAssumption DEF Row
  <2>4. Gap(q, i) \in Int
    BY <2>3 DEF Gap
  <2>5. i \in HeatIntervals(q)
    <3>1. HalfHour \in Int
      BY HourLenIs
    <3> QED BY <2>4, <3>1 DEF EnergyIntervals, HeatIntervals
  <2>6. \A x, y \in Int : x * y \in Int
    OBVIOUS
  <2> QED BY <2>1, <2>2, <2>3, <2>4, <2>5, <2>6
<1> QED BY <1>2, <1>3

\* The energy of a window, from the readings of the week as from all of them.
LEMMA WindowIs ==
  ASSUME NEW q \in Seq(Row), Timely(q), NEW since \in Int, since <= q[Len(q)].t,
         NEW d, d = Dated(records_since_meter_time(q, <<>>, since, 0)),
         NEW start \in Int, since <= start
  PROVE  LET E == {i \in EnergyIntervals(q) : q[i].t >= start}
             W == {i \in EnergyIntervals(d) : d[i].t >= start}
         IN Kwh(d, W) = [import |-> SumFunctionOnSet(ImportIn(q), E), export |-> SumFunctionOnSet(ExportIn(q), E)]
<1> DEFINE L == Len(q)
           E == {i \in EnergyIntervals(q) : q[i].t >= start}
           W == {i \in EnergyIntervals(d) : d[i].t >= start}
<1>1. PICK p \in 0 .. L - 1 : (\A i \in 1 .. L : q[i].t >= since <=> i > p) /\ d = From(q, p)
  BY SinceIsEnd
<1>2. L \in Nat /\ p \in Nat /\ p < L
  BY <1>1
<1>3. PICK m \in Nat : m = L - p /\ m > 0
  BY <1>2
<1>4. d \in Seq(Row) /\ Len(d) = m /\ \A k \in 1 .. m : d[k] = q[p + k] /\ p + k \in 1 .. L
  <2>1. d = [k \in 1 .. m |-> q[p + k]]
    BY <1>1, <1>3 DEF From
  <2>2. \A k \in 1 .. m : p + k \in 1 .. L /\ q[p + k] \in Row
    BY <1>2, <1>3
  <2> HIDE DEF L
  <2>3. \A k \in 1 .. m : d[k] = q[p + k] /\ d[k] \in Row
    BY <2>1, <2>2
  <2>4. d \in Seq(Row) /\ Len(d) = m
    BY <1>3, <2>1, <2>2
  <2> QED BY <2>2, <2>3, <2>4
<1>5. ASSUME NEW k \in 1 .. m - 1 PROVE Gap(d, k) = Gap(q, p + k) /\ p + k \in 1 .. L - 1
  <2>1. k \in 1 .. m /\ k + 1 \in 1 .. m /\ p + (k + 1) = (p + k) + 1 /\ p + k \in 1 .. L - 1
    BY <1>2, <1>3
  <2>2. d[k] = q[p + k] /\ d[k + 1] = q[(p + k) + 1]
    BY <1>4, <2>1
  <2> QED BY <2>1, <2>2 DEF Gap
<1> DEFINE f == [k \in W |-> p + k]
<1>6. \A k \in W : k \in 1 .. m - 1 /\ k \in Int
  BY <1>3, <1>4 DEF EnergyIntervals
<1>7. \A k \in W : f[k] \in E
  <2> SUFFICES ASSUME NEW k \in W PROVE p + k \in E
    OBVIOUS
  <2>1. k \in 1 .. m - 1 /\ k \in 1 .. m
    BY <1>3, <1>6
  <2>2. 0 < Gap(d, k) /\ Gap(d, k) < HalfHour /\ d[k].t >= start
    BY DEF EnergyIntervals
  <2> HIDE DEF W
  <2> QED BY <1>4, <1>5, <2>1, <2>2 DEF EnergyIntervals
<1>8. \A i \in E : \E k \in W : f[k] = i
  <2> SUFFICES ASSUME NEW i \in E PROVE \E k \in W : p + k = i
    OBVIOUS
  <2>1. i \in 1 .. L - 1 /\ 0 < Gap(q, i) /\ Gap(q, i) < HalfHour /\ q[i].t >= start
    BY DEF EnergyIntervals
  <2>2. q[i].t >= since
    <3>1. q[i].t \in Int
      BY EnergyIs
    <3> QED BY <2>1, <3>1
  <2>3. i \in 1 .. L /\ i > p
    BY <1>1, <1>2, <2>1, <2>2
  <2>4. PICK k \in 1 .. m - 1 : p + k = i /\ k \in 1 .. m
    <3>1. i - p \in 1 .. m - 1 /\ p + (i - p) = i /\ i - p \in 1 .. m
      BY <1>2, <1>3, <2>1, <2>3
    <3> QED BY <3>1
  <2>5. Gap(d, k) = Gap(q, i) /\ d[k].t = q[i].t
    BY <1>4, <1>5, <2>4
  <2>6. k \in W
    BY <1>4, <2>1, <2>4, <2>5 DEF EnergyIntervals
  <2> QED BY <2>4, <2>6
<1>9. \A x, y \in W : f[x] = f[y] => x = y
  <2> SUFFICES ASSUME NEW x \in W, NEW y \in W, p + x = p + y PROVE x = y
    OBVIOUS
  <2>1. x \in Int /\ y \in Int
    BY <1>6
  <2> HIDE DEF W
  <2> QED BY <1>2, <2>1
<1>10. E = {f[k] : k \in W}
  <2> HIDE DEF E, W, f
  <2> QED BY <1>7, <1>8
<1>11. IsFiniteSet(W)
  <2>1. IsFiniteSet(EnergyIntervals(d)) /\ W \subseteq EnergyIntervals(d)
    BY <1>4, EnergyIs
  <2> HIDE DEF W
  <2> QED BY <2>1, FS_Subset
<1> DEFINE I == [k \in W |-> d[k].import * Gap(d, k)]
           X == [k \in W |-> d[k].export * Gap(d, k)]
<1>12. ASSUME NEW k \in W
       PROVE  I[k] \in Int /\ X[k] \in Int /\ I[k] = ImportIn(q)[f[k]] /\ X[k] = ExportIn(q)[f[k]]
  <2>1. k \in 1 .. m - 1 /\ k \in 1 .. m
    BY <1>3, <1>6
  <2>2. d[k] = q[p + k] /\ Gap(d, k) = Gap(q, p + k)
    BY <1>4, <1>5, <2>1
  <2>3. PICK i : i = p + k /\ i \in EnergyIntervals(q) /\ f[k] = i
    BY <1>7
  <2>4. I[k] = q[i].import * Gap(q, i) /\ X[k] = q[i].export * Gap(q, i)
    BY <2>2, <2>3
  <2>5. q[i].import * Gap(q, i) \in Int /\ q[i].export * Gap(q, i) \in Int
    BY <2>3, EnergyIs
  <2>6. ImportIn(q)[i] = q[i].import * Gap(q, i) /\ ExportIn(q)[i] = q[i].export * Gap(q, i)
    BY <2>3 DEF ImportIn, ExportIn
  <2> HIDE DEF I, X, f, W
  <2> QED BY <2>3, <2>4, <2>5, <2>6
<1>13. Kwh(d, W) = [import |-> SumFunctionOnSet(I, W), export |-> SumFunctionOnSet(X, W)]
  BY DEF Kwh, Sum
<1> HIDE DEF I, X, f, W, E
<1> DEFINE M == ImportIn(q)
           Y == ExportIn(q)
<1>14. Renames(I, W, f, M, E) /\ Renames(X, W, f, Y, E)
  BY <1>9, <1>10, <1>12 DEF Renames
<1> HIDE DEF M, Y
<1>15. SumFunctionOnSet(I, W) = SumFunctionOnSet(M, E) /\ SumFunctionOnSet(X, W) = SumFunctionOnSet(Y, E)
  BY <1>11, <1>14, SumMoved
<1> QED BY <1>13, <1>15 DEF E, W, M, Y

\* The units of the calendar.
LEMMA UnitsAre ==
  /\ HourLen \in Nat \ {0} /\ DayLen \in Nat \ {0} /\ WeekLen \in Nat \ {0}
  /\ DayLen = HourLen * HoursPerDay /\ WeekLen = DayLen * DaysPerWeek
<1>1. \A a, b \in Nat \ {0} : a * b \in Nat \ {0}
  OBVIOUS
<1>2. HourLen \in Nat \ {0} /\ HoursPerDay \in Nat \ {0} /\ DaysPerWeek \in Nat \ {0}
  BY CalendarAssumption
<1>3. DayLen = HourLen * HoursPerDay /\ WeekLen = DayLen * DaysPerWeek
  BY DEF DayLen, WeekLen
<1>4. DayLen \in Nat \ {0}
  BY <1>1, <1>2, <1>3
<1> QED BY <1>1, <1>2, <1>3, <1>4

\* The intervals since the start of the hour, the day and the week are those of that hour, day
\* and week.
LEMMA SameUnit ==
  ASSUME NEW q \in Seq(Row), Timely(q), NEW b \in Nat \ {0}
  PROVE  LET latest == q[Len(q)].t IN
         /\ latest \in Int /\ latest # NoTime /\ (latest \div b) * b \in Int /\ (latest \div b) * b <= latest
         /\ {i \in EnergyIntervals(q) : q[i].t >= (latest \div b) * b}
              = {i \in EnergyIntervals(q) : q[i].t \div b = latest \div b}
<1>1. Len(q) \in Nat /\ Len(q) > 0 /\ Len(q) \in 1 .. Len(q)
  <2>1. q # <<>>
    BY DEF Timely
  <2>2. Len(q) \in Nat /\ Len(q) > 0
    BY <2>1, EmptySeq
  <2> QED BY <2>2
<1>2. q[Len(q)] \in Row /\ q[Len(q)].t # NoTime
  BY <1>1 DEF Timely
<1>3. PICK y \in Int : y = q[Len(q)].t
  BY <1>2 DEF Row
<1>4. (y \div b) * b \in Int /\ (y \div b) * b <= y
  <2>1. y <= y
    OBVIOUS
  <2> QED BY <2>1, SinceStart
<1>5. ASSUME NEW i \in EnergyIntervals(q)
      PROVE  q[i].t >= (y \div b) * b <=> q[i].t \div b = y \div b
  <2>1. i \in 1 .. Len(q) /\ i + 1 \in 1 .. Len(q) /\ i \in Int /\ q[i].t \in Int
    BY EnergyIs
  <2>2. i < Len(q)
    BY <1>1, <2>1
  <2>3. q[i].t < y
    BY <1>1, <1>3, <2>1, <2>2 DEF Timely
  <2>4. PICK x \in Int : x = q[i].t /\ x <= y
    BY <2>1, <2>3
  <2>5. x >= (y \div b) * b <=> x \div b = y \div b
    BY <2>4, SinceStart
  <2> QED BY <2>4, <2>5
<1>6. {i \in EnergyIntervals(q) : q[i].t >= (y \div b) * b} = {i \in EnergyIntervals(q) : q[i].t \div b = y \div b}
  BY <1>5
<1> QED BY <1>2, <1>3, <1>4, <1>6

\* The energy since a time.
WindowOf(d, start) == Kwh(d, {i \in EnergyIntervals(d) : d[i].t >= start})

\* The newest rows are the first ones.
LEMMA NewestIs ==
  ASSUME NEW r \in Seq(Row), NEW n \in Nat \ {0}
  PROVE  /\ Newest(n, r) \in Seq(Row) /\ Len(Newest(n, r)) = Smaller(n, Len(r))
         /\ \A i \in 1 .. Len(Newest(n, r)) : i \in 1 .. Len(r) /\ i <= n /\ Newest(n, r)[i] = r[i]
         /\ \A i \in 1 .. Len(r) : i <= n => i \in 1 .. Len(Newest(n, r))
         /\ Len(r) > 0 => Len(Newest(n, r)) > 0 /\ Newest(n, r)[1] = r[1]
<1> DEFINE k == Smaller(n, Len(r))
           s == SubSeq(r, 1, k)
<1>1. k \in Nat /\ k <= Len(r) /\ k <= n /\ Len(r) \in Nat /\ (k = n \/ k = Len(r))
  BY DEF Smaller
<1>2. s = [i \in 1 .. k |-> r[i]] /\ Len(s) = k /\ s \in Seq(Row)
  <2> HIDE DEF k
  <2> QED BY <1>1
<1>3. Newest(n, r) = s
  BY DEF Newest
<1> HIDE DEF s, k
<1> QED BY <1>1, <1>2, <1>3 DEF k

\* The parts of the summary.
LEMMA SummaryIs ==
  ASSUME NEW q \in Seq(Row), Timely(q), NEW n \in Nat \ {0},
         NEW y, y = q[Len(q)].t,
         NEW since, since = WeekOf(y) * WeekLen,
         NEW d, d = Dated(records_since_meter_time(q, <<>>, since, 0)),
         NEW view, view = WeekSummary(q, <<>>, n)
  PROVE  /\ view.currentHour = CurrentHour(Newest(n, Reverse(q)))
         /\ view.windows = [hour |-> WindowOf(d, HourOf(y) * HourLen), day |-> WindowOf(d, DayOf(y) * DayLen),
                             week |-> WindowOf(d, WeekOf(y) * WeekLen)]
<1> DEFINE R == Newest(n, Reverse(q))
           energy == records_since_meter_time(q, <<>>, since, 0)
<1>1. Reverse(q) \in Seq(Row) /\ Len(Reverse(q)) = Len(q) /\ Len(q) \in Nat /\ Len(q) > 0
  <2>1. q # <<>>
    BY DEF Timely
  <2>2. Len(q) \in Nat /\ Len(q) > 0
    BY <2>1, EmptySeq
  <2> QED BY <2>2, ReverseFacts
<1>2. R[1] = q[Len(q)]
  <2>1. 1 \in 1 .. Len(q) /\ Len(q) - 1 + 1 = Len(q)
    BY <1>1
  <2>2. \A i \in 1 .. Len(q) : Reverse(q)[i] = q[Len(q) - i + 1]
    BY ReverseFacts
  <2>3. R[1] = Reverse(q)[1]
    BY <1>1, NewestIs
  <2> HIDE DEF R
  <2> QED BY <2>1, <2>2, <2>3
<1>3. records_desc(q, <<>>, n) = R
  BY DEF records_desc, get_recent, get_all
<1>4. y \in Int /\ y # NoTime /\ since \in Int /\ since <= y
  <2>1. WeekLen \in Nat \ {0}
    BY UnitsAre
  <2> QED BY <2>1, SameUnit DEF WeekOf
<1>5. energy # <<>>
  <2>1. since <= q[Len(q)].t
    BY <1>4
  <2> QED BY <1>4, <2>1, SinceIsEnd
<1> HIDE DEF R, energy
<1>6. view = analysis_summary(R, energy)
  BY <1>2, <1>3, <1>4 DEF WeekSummary, energy
<1>7. view.windows = _integrated_energy_windows(energy, y) /\ view.currentHour = CurrentHour(R)
  BY <1>2, <1>4, <1>5, <1>6 DEF analysis_summary
<1>8. d = Dated(energy)
  BY DEF energy
<1>9. _integrated_energy_windows(energy, y)
        = [hour |-> WindowOf(d, HourOf(y) * HourLen), day |-> WindowOf(d, DayOf(y) * DayLen),
           week |-> WindowOf(d, WeekOf(y) * WeekLen)]
  BY <1>8 DEF _integrated_energy_windows, WindowOf
<1> QED BY <1>7, <1>9 DEF R

\* The intervals of an hour, a day and a week.
InHourOf(q, h) == {i \in EnergyIntervals(q) : HourOf(q[i].t) = h}
InDayOf(q, n)  == {i \in EnergyIntervals(q) : DayOf(q[i].t) = n}
InWeekOf(q, w) == {i \in EnergyIntervals(q) : WeekOf(q[i].t) = w}

\* The windows, from the intervals of all readings.
LEMMA WindowsAre ==
  ASSUME NEW q \in Seq(Row), Timely(q), NEW n \in Nat \ {0},
         NEW y, y = q[Len(q)].t, NEW view, view = WeekSummary(q, <<>>, n)
  PROVE  /\ view.windows.hour.import = SumFunctionOnSet(ImportIn(q), InHourOf(q, HourOf(y)))
         /\ view.windows.day.import = SumFunctionOnSet(ImportIn(q), InDayOf(q, DayOf(y)))
         /\ view.windows.day.export = SumFunctionOnSet(ExportIn(q), InDayOf(q, DayOf(y)))
         /\ view.windows.week.import = SumFunctionOnSet(ImportIn(q), InWeekOf(q, WeekOf(y)))
<1> DEFINE E(start) == {i \in EnergyIntervals(q) : q[i].t >= start}
           I(start) == SumFunctionOnSet(ImportIn(q), E(start))
           X(start) == SumFunctionOnSet(ExportIn(q), E(start))
<1>1. PICK since : since = WeekOf(y) * WeekLen
  OBVIOUS
<1>2. PICK d : d = Dated(records_since_meter_time(q, <<>>, since, 0))
  OBVIOUS
<1>3. /\ view.windows.hour = WindowOf(d, HourOf(y) * HourLen)
      /\ view.windows.day = WindowOf(d, DayOf(y) * DayLen)
      /\ view.windows.week = WindowOf(d, WeekOf(y) * WeekLen)
  <2>1. view.windows = [hour |-> WindowOf(d, HourOf(y) * HourLen), day |-> WindowOf(d, DayOf(y) * DayLen),
                        week |-> WindowOf(d, WeekOf(y) * WeekLen)]
    BY <1>1, <1>2, SummaryIs
  <2> QED BY <2>1
<1>4. y \in Int /\ since \in Int /\ since <= y
  <2>1. WeekLen \in Nat \ {0}
    BY UnitsAre
  <2> QED BY <1>1, <2>1, SameUnit DEF WeekOf
<1>5. ASSUME NEW start \in Int, since <= start
      PROVE  WindowOf(d, start) = [import |-> I(start), export |-> X(start)]
  <2>1. since <= q[Len(q)].t
    BY <1>4
  <2> QED BY <1>2, <1>4, <1>5, <2>1, WindowIs DEF WindowOf
<1>6. /\ WeekOf(y) * WeekLen \in Int /\ since <= WeekOf(y) * WeekLen
      /\ DayOf(y) * DayLen \in Int /\ since <= DayOf(y) * DayLen
      /\ HourOf(y) * HourLen \in Int /\ since <= HourOf(y) * HourLen
  <2>1. PICK h \in Nat \ {0}, p \in Nat \ {0}, w \in Nat \ {0} : h = HourLen /\ p = HoursPerDay /\ w = DaysPerWeek
    BY CalendarAssumption
  <2>2. DayLen = h * p /\ h * p \in Nat \ {0} /\ (y \div (h * p)) * (h * p) <= (y \div h) * h
    BY <1>4, <2>1, StartsNest DEF DayLen
  <2>3. PICK c \in Nat \ {0} : c = h * p
    BY <2>2
  <2>4. WeekLen = c * w /\ (y \div (c * w)) * (c * w) <= (y \div c) * c /\ c * w \in Nat \ {0}
    BY <1>4, <2>1, <2>2, <2>3, StartsNest DEF WeekLen
  <2>5. PICK e \in Nat \ {0} : e = c * w
    BY <2>4
  <2>6. PICK hs \in Int : hs = (y \div h) * h
    BY <1>4, FloorIs
  <2>7. PICK ds \in Int : ds = (y \div c) * c
    BY <1>4, FloorIs
  <2>8. PICK ws \in Int : ws = (y \div e) * e
    BY <1>4, FloorIs
  <2>9. ds <= hs /\ ws <= ds
    BY <2>2, <2>3, <2>4, <2>5, <2>6, <2>7, <2>8
  <2>10. ws <= ws /\ ws <= ds /\ ws <= hs
    BY ONLY <2>9, hs \in Int, ds \in Int, ws \in Int
  <2>11. HourOf(y) * HourLen = hs /\ DayOf(y) * DayLen = ds /\ WeekOf(y) * WeekLen = ws
    BY <2>1, <2>2, <2>3, <2>4, <2>5, <2>6, <2>7, <2>8 DEF HourOf, DayOf, WeekOf
  <2> QED BY <1>1, <2>10, <2>11
<1>7. /\ E(HourOf(y) * HourLen) = InHourOf(q, HourOf(y))
      /\ E(DayOf(y) * DayLen) = InDayOf(q, DayOf(y))
      /\ E(WeekOf(y) * WeekLen) = InWeekOf(q, WeekOf(y))
  <2>1. HourLen \in Nat \ {0} /\ DayLen \in Nat \ {0} /\ WeekLen \in Nat \ {0}
    BY UnitsAre
  <2>2. E(HourOf(y) * HourLen) = {i \in EnergyIntervals(q) : HourOf(q[i].t) = HourOf(y)}
    BY <2>1, SameUnit DEF HourOf
  <2>3. E(DayOf(y) * DayLen) = {i \in EnergyIntervals(q) : DayOf(q[i].t) = DayOf(y)}
    BY <2>1, SameUnit DEF DayOf
  <2>4. E(WeekOf(y) * WeekLen) = {i \in EnergyIntervals(q) : WeekOf(q[i].t) = WeekOf(y)}
    BY <2>1, SameUnit DEF WeekOf
  <2> QED BY <2>2, <2>3, <2>4 DEF InHourOf, InDayOf, InWeekOf
<1> HIDE DEF E
<1>8. /\ view.windows.hour.import = I(HourOf(y) * HourLen)
      /\ view.windows.day.import = I(DayOf(y) * DayLen)
      /\ view.windows.day.export = X(DayOf(y) * DayLen)
      /\ view.windows.week.import = I(WeekOf(y) * WeekLen)
  <2> HIDE DEF I, X
  <2> QED BY <1>3, <1>5, <1>6
<1> QED BY <1>7, <1>8

-----------------------------------------------------------------------------
(* The energy of the costs and of the heatmap.                               *)

\* The energy of the k-th interval, and its length.
ImportOf(iv) == [k \in 1 .. Len(iv) |-> iv[k].import * iv[k].ticks]
ExportOf(iv) == [k \in 1 .. Len(iv) |-> iv[k].export * iv[k].ticks]
LengthOf(iv) == [k \in 1 .. Len(iv) |-> iv[k].ticks]

\* The intervals that start in an hour.
StartIn(iv, h) == {k \in 1 .. Len(iv) : HourOf(iv[k].start) = h}

\* Those of the newest day.
Latest(iv) == {k \in 1 .. Len(iv) : \A m \in 1 .. Len(iv) : DayOf(iv[m].start) <= DayOf(iv[k].start)}

\* What an interval is.
LEMMA IntervalTypes ==
  ASSUME NEW iv \in Seq(Interval)
  PROVE  /\ Len(iv) \in Nat /\ IsFiniteSet(1 .. Len(iv)) /\ IsFiniteSet(Latest(iv)) /\ Latest(iv) \subseteq 1 .. Len(iv)
         /\ \A h : IsFiniteSet(StartIn(iv, h)) /\ StartIn(iv, h) \subseteq 1 .. Len(iv)
         /\ \A k \in 1 .. Len(iv) :
              /\ iv[k].start \in Int /\ iv[k].ticks \in Int /\ iv[k].import * iv[k].ticks \in Int
              /\ iv[k].export * iv[k].ticks \in Int
              /\ HourOf(iv[k].start) \in Int /\ DayOf(iv[k].start) \in Int
<1>1. Len(iv) \in Nat /\ IsFiniteSet(1 .. Len(iv))
  BY FS_Interval
<1>2. Latest(iv) \subseteq 1 .. Len(iv) /\ \A h : StartIn(iv, h) \subseteq 1 .. Len(iv)
  BY DEF Latest, StartIn
<1>3. ASSUME NEW k \in 1 .. Len(iv)
      PROVE  /\ iv[k].start \in Int /\ iv[k].ticks \in Int /\ iv[k].import * iv[k].ticks \in Int
             /\ iv[k].export * iv[k].ticks \in Int
             /\ HourOf(iv[k].start) \in Int /\ DayOf(iv[k].start) \in Int
  <2>1. iv[k] \in Interval
    OBVIOUS
  <2>2. iv[k].start \in Int /\ iv[k].ticks \in Int /\ iv[k].import \in Int /\ iv[k].export \in Int
    BY <2>1 DEF Interval
  <2>3. \A x, y \in Int : x * y \in Int
    OBVIOUS
  <2>4. HourOf(iv[k].start) \in Int /\ DayOf(iv[k].start) \in Int
    BY <2>2, UnitsAre, FloorIs DEF HourOf, DayOf
  <2> QED BY <2>2, <2>3, <2>4
<1> QED BY <1>1, <1>2, <1>3, FS_Subset

\* A row of the costs: all intervals that start in its hour, which is of the newest day.
LEMMA RowsAre ==
  ASSUME NEW iv \in Seq(Interval), NEW quote,
         NEW rows, rows = build_summary(iv, Genuine, quote, 2, 1).rows
  PROVE  /\ DOMAIN rows = {HourOf(iv[k].start) : k \in Latest(iv)}
         /\ \A h \in DOMAIN rows :
              /\ StartIn(iv, h) \subseteq Latest(iv) /\ StartIn(iv, h) # {}
              /\ rows[h].import = SumFunctionOnSet(ImportOf(iv), StartIn(iv, h))
              /\ rows[h].export = SumFunctionOnSet(ExportOf(iv), StartIn(iv, h))
              /\ rows[h].ticks = SumFunctionOnSet(LengthOf(iv), StartIn(iv, h))
<1> DEFINE In(h) == {k \in Latest(iv) : HourOf(iv[k].start) = h}
           H == {HourOf(iv[k].start) : k \in Latest(iv)}
           I(h) == SumFunctionOnSet([k \in In(h) |-> iv[k].import * iv[k].ticks], In(h))
           X(h) == SumFunctionOnSet([k \in In(h) |-> iv[k].export * iv[k].ticks], In(h))
           T(h) == SumFunctionOnSet([k \in In(h) |-> iv[k].ticks], In(h))
<1>1. DOMAIN rows = H /\ \A h \in H : rows[h].import = I(h) /\ rows[h].export = X(h) /\ rows[h].ticks = T(h)
  BY DEF build_summary, Sum, Latest
<1>2. ASSUME NEW h \in H
      PROVE  /\ StartIn(iv, h) \subseteq Latest(iv) /\ StartIn(iv, h) # {}
             /\ I(h) = SumFunctionOnSet(ImportOf(iv), StartIn(iv, h))
             /\ X(h) = SumFunctionOnSet(ExportOf(iv), StartIn(iv, h))
             /\ T(h) = SumFunctionOnSet(LengthOf(iv), StartIn(iv, h))
  <2>1. PICK m \in Latest(iv) : HourOf(iv[m].start) = h
    OBVIOUS
  <2>2. m \in 1 .. Len(iv) /\ m \in StartIn(iv, h)
    BY <2>1 DEF Latest, StartIn
  <2>3. ASSUME NEW k \in StartIn(iv, h) PROVE k \in Latest(iv)
    <3>1. k \in 1 .. Len(iv) /\ HourOf(iv[k].start) = HourOf(iv[m].start)
      BY <2>1 DEF StartIn
    <3>2. DayOf(iv[k].start) = DayOf(iv[m].start)
      <4>1. iv[k].start \in Int /\ iv[m].start \in Int
        BY <2>2, <3>1, IntervalTypes
      <4> QED BY <3>1, <4>1, HourInDay
    <3> QED BY <3>1, <3>2, <2>1 DEF Latest
  <2>4. In(h) = StartIn(iv, h)
    <3>1. \A k \in In(h) : k \in StartIn(iv, h)
      BY DEF Latest, StartIn
    <3>2. \A k \in StartIn(iv, h) : k \in In(h)
      BY <2>3 DEF StartIn
    <3> HIDE DEF In
    <3> QED BY <3>1, <3>2
  <2> DEFINE S == StartIn(iv, h)
             A == [k \in S |-> iv[k].import * iv[k].ticks]
             B == [k \in S |-> iv[k].export * iv[k].ticks]
             C == [k \in S |-> iv[k].ticks]
             M == ImportOf(iv)  N == ExportOf(iv)  O == LengthOf(iv)
  <2>5. I(h) = SumFunctionOnSet(A, S) /\ X(h) = SumFunctionOnSet(B, S) /\ T(h) = SumFunctionOnSet(C, S)
    BY <2>4
  <2>6. \A k \in S : A[k] = M[k] /\ B[k] = N[k] /\ C[k] = O[k]
    BY DEF ImportOf, ExportOf, LengthOf, StartIn
  <2>7. IsFiniteSet(S)
    BY IntervalTypes
  <2> HIDE DEF A, B, C, M, N, O, S, I, X, T
  <2>8. /\ SumFunctionOnSet(A, S) = SumFunctionOnSet(M, S) /\ SumFunctionOnSet(B, S) = SumFunctionOnSet(N, S)
        /\ SumFunctionOnSet(C, S) = SumFunctionOnSet(O, S)
    BY <2>6, <2>7, SumSame
  <2> QED BY <2>2, <2>3, <2>5, <2>8 DEF S, M, N, O
<1> HIDE DEF I, X, T, H
<1> QED BY <1>1, <1>2 DEF H

\* The hours of a row belong to the newest day.
LEMMA RowsOfDay ==
  ASSUME NEW iv \in Seq(Interval), NEW k \in Latest(iv), NEW m \in Latest(iv)
  PROVE  DayOf(iv[k].start) = DayOf(iv[m].start)
<1>1. k \in 1 .. Len(iv) /\ m \in 1 .. Len(iv)
  BY DEF Latest
<1>2. DayOf(iv[k].start) <= DayOf(iv[m].start) /\ DayOf(iv[m].start) <= DayOf(iv[k].start)
  BY <1>1 DEF Latest
<1>3. DayOf(iv[k].start) \in Int /\ DayOf(iv[m].start) \in Int
  BY <1>1, IntervalTypes
<1> QED BY <1>2, <1>3

\* A later day is in no earlier month.
LEMMA MonthRises ==
  ASSUME NEW x \in Int, NEW y \in Int, x <= y
  PROVE  x \div DaysPerMonth <= y \div DaysPerMonth
<1>1. PICK b \in Nat \ {0} : b = DaysPerMonth
  BY LadderAssumption
<1>2. x \div b <= y \div b
  BY ONLY b \in Nat \ {0}, x \in Int, y \in Int, x <= y, SinceStart
<1> QED BY <1>1, <1>2

\* The capacity step sees the same hours with the same energy.
LEMMA CapacityHours ==
  ASSUME NEW iv \in Seq(Interval), NEW quote,
         NEW rows, rows = build_summary(iv, Genuine, quote, 2, 1).rows, NEW h \in DOMAIN rows
  PROVE  \E r \in CapacityRows(iv) : r.hour = h /\ SameRatio(r.kw, Ratio(rows[h].import, rows[h].ticks))
<1> DEFINE Month(k) == DayOf(iv[k].start) \div DaysPerMonth
           month == {k \in 1 .. Len(iv) : \A m \in 1 .. Len(iv) : Month(m) <= Month(k)}
           In(x) == {k \in month : HourOf(iv[k].start) = x}
           A == [k \in In(h) |-> iv[k].import * iv[k].ticks]
           C == [k \in In(h) |-> iv[k].ticks]
           M == ImportOf(iv)  O == LengthOf(iv)
           S == StartIn(iv, h)
<1>1. Latest(iv) \subseteq month
  <2>1. ASSUME NEW k \in Latest(iv), NEW m \in 1 .. Len(iv) PROVE k \in 1 .. Len(iv) /\ Month(m) <= Month(k)
    <3>1. k \in 1 .. Len(iv) /\ DayOf(iv[m].start) <= DayOf(iv[k].start)
      BY DEF Latest
    <3>2. PICK x \in Int, y \in Int : x = DayOf(iv[m].start) /\ y = DayOf(iv[k].start) /\ x <= y
      BY <3>1, IntervalTypes
    <3>3. x \div DaysPerMonth <= y \div DaysPerMonth
      BY <3>2, MonthRises
    <3> QED BY <3>1, <3>2, <3>3
  <2>2. Latest(iv) \subseteq 1 .. Len(iv)
    BY DEF Latest
  <2> HIDE DEF Month
  <2> QED BY <2>1, <2>2
<1>2. S \subseteq Latest(iv) /\ S # {} /\ rows[h].import = SumFunctionOnSet(M, S) /\ rows[h].ticks = SumFunctionOnSet(O, S)
  BY ONLY h \in DOMAIN rows, iv \in Seq(Interval), rows = build_summary(iv, Genuine, quote, 2, 1).rows, RowsAre, ZenonT(30)
<1>3. In(h) = S
  <2>1. \A k \in In(h) : k \in S
    BY DEF StartIn
  <2>2. \A k \in S : HourOf(iv[k].start) = h
    BY DEF StartIn
  <2> HIDE DEF month, S
  <2>3. \A k \in S : k \in In(h)
    BY <1>1, <1>2, <2>2
  <2> HIDE DEF In
  <2> QED BY <2>1, <2>3
<1>4. PICK c \in month : HourOf(iv[c].start) = h
  <2> HIDE DEF S, month
  <2>1. PICK c \in S : c \in In(h)
    BY <1>2, <1>3
  <2> QED BY <2>1
<1> DEFINE r == [day |-> h \div HoursPerDay, hour |-> h, kw |-> Ratio(SumFunctionOnSet(A, In(h)), SumFunctionOnSet(C, In(h)))]
<1>5. r \in CapacityRows(iv)
  BY <1>4 DEF CapacityRows, Sum
<1>6. \A k \in S : A[k] = M[k] /\ C[k] = O[k]
  BY <1>3 DEF ImportOf, LengthOf, StartIn
<1>7. IsFiniteSet(S)
  BY IntervalTypes
<1> HIDE DEF A, C, M, O, S, In, month
<1>8. SumFunctionOnSet(A, S) = SumFunctionOnSet(M, S) /\ SumFunctionOnSet(C, S) = SumFunctionOnSet(O, S)
  BY <1>6, <1>7, SumSame
<1>9. r.hour = h /\ r.kw = Ratio(rows[h].import, rows[h].ticks)
  BY <1>2, <1>3, <1>8
<1> HIDE DEF r
<1>10. SameRatio(r.kw, r.kw)
  BY DEF SameRatio
<1> QED BY <1>5, <1>9, <1>10

\* Where the k-th interval starts.
Places(q) == InOrder(EnergyIntervals(q))

\* Each interval is one of two neighbouring readings.
LEMMA IntervalsOf ==
  ASSUME NEW q \in Seq(Row), Timely(q), NEW iv, iv = integrated_intervals(q, <<>>, 0)
  PROVE  /\ iv \in Seq(Interval)
         /\ \A k \in 1 .. Len(iv) :
              /\ Places(q)[k] \in EnergyIntervals(q)
              /\ iv[k] = [start |-> q[Places(q)[k]].t, ticks |-> Gap(q, Places(q)[k]),
                          import |-> q[Places(q)[k]].import, export |-> q[Places(q)[k]].export]
         /\ \A k, m \in 1 .. Len(iv) : Places(q)[k] = Places(q)[m] => k = m
         /\ \A i \in EnergyIntervals(q) : \E k \in 1 .. Len(iv) : Places(q)[k] = i
<1> DEFINE E == EnergyIntervals(q)
           f == Places(q)
<1>1. iv \in Seq(Interval)
  BY IntervalsFacts
<1>2. IsFiniteSet(E) /\ E \subseteq Int
  BY EnergyIs
<1>3. Dated(Reverse(q)) = q
  BY AllDated DEF Timely
<1>4. iv = [k \in 1 .. Len(f) |-> [start |-> q[f[k]].t, ticks |-> Gap(q, f[k]),
                                   import |-> q[f[k]].import, export |-> q[f[k]].export]]
  BY <1>3 DEF integrated_intervals, all_records_desc, get_all, Places
<1>5. /\ f = [k \in 1 .. Cardinality(E) |-> Nth(E, k)] /\ Cardinality(E) \in Nat /\ Len(f) = Cardinality(E)
      /\ \A k \in 1 .. Cardinality(E) : Nth(E, k) \in E /\ Cardinality({m \in E : m < Nth(E, k)}) = k - 1
  <2> HIDE DEF E
  <2> QED BY <1>2, NthIn DEF Places, E
<1>6. \A i \in E : \E k \in 1 .. Cardinality(E) : Nth(E, k) = i
  <2> HIDE DEF E
  <2> QED BY <1>2, NthOf
<1> HIDE DEF E, f
<1>7. Len(iv) = Cardinality(E)
  BY <1>4, <1>5
<1>8. \A k \in 1 .. Len(iv) : f[k] = Nth(E, k)
  BY <1>5, <1>7
<1>9. ASSUME NEW k \in 1 .. Len(iv), NEW m \in 1 .. Len(iv), f[k] = f[m] PROVE k = m
  <2>1. Nth(E, k) = Nth(E, m)
    BY <1>8, <1>9
  <2>2. k - 1 = m - 1
    BY <1>5, <1>7, <2>1
  <2> QED BY <2>2
<1>10. ASSUME NEW k \in 1 .. Len(iv)
       PROVE  /\ f[k] \in E
              /\ iv[k] = [start |-> q[f[k]].t, ticks |-> Gap(q, f[k]), import |-> q[f[k]].import, export |-> q[f[k]].export]
  <2>1. f[k] \in E
    BY <1>5, <1>7, <1>8
  <2>2. k \in 1 .. Len(f)
    BY <1>5, <1>7
  <2> QED BY <1>4, <2>1, <2>2
<1>11. \A i \in E : \E k \in 1 .. Len(iv) : f[k] = i
  BY <1>6, <1>7, <1>8
<1>12. \A k, m \in 1 .. Len(iv) : f[k] = f[m] => k = m
  BY <1>9
<1> QED BY <1>1, <1>10, <1>11, <1>12 DEF E, f

\* Some of the intervals, by number and by the reading they start at.
Matches(q, iv, K, T) ==
  /\ K \subseteq 1 .. Len(iv) /\ T \subseteq EnergyIntervals(q)
  /\ \A k \in 1 .. Len(iv) : k \in K <=> Places(q)[k] \in T

\* Their sums, whichever way they are named.
LEMMA SumOfIntervals ==
  ASSUME NEW q \in Seq(Row), Timely(q), NEW iv, iv = integrated_intervals(q, <<>>, 0),
         NEW K, NEW T, Matches(q, iv, K, T)
  PROVE  /\ SumFunctionOnSet(ImportOf(iv), K) = SumFunctionOnSet(ImportIn(q), T)
         /\ SumFunctionOnSet(ExportOf(iv), K) = SumFunctionOnSet(ExportIn(q), T)
<1> DEFINE f == Places(q)
           I == ImportOf(iv)  X == ExportOf(iv)  M == ImportIn(q)  Y == ExportIn(q)
<1>1. IsFiniteSet(K)
  <2>1. iv \in Seq(Interval)
    BY IntervalsOf
  <2>2. K \subseteq 1 .. Len(iv)
    BY DEF Matches
  <2> QED BY <2>1, <2>2, IntervalTypes, FS_Subset
<1>2. T = {f[k] : k \in K} /\ \A k, m \in K : f[k] = f[m] => k = m
  <2>1. /\ \A k, m \in 1 .. Len(iv) : f[k] = f[m] => k = m
        /\ \A i \in EnergyIntervals(q) : \E k \in 1 .. Len(iv) : f[k] = i
    BY IntervalsOf
  <2>0. \A k \in 1 .. Len(iv) : k \in K <=> f[k] \in T
    BY DEF Matches
  <2>6. K \subseteq 1 .. Len(iv) /\ T \subseteq EnergyIntervals(q)
    BY DEF Matches
  <2> HIDE DEF f
  <2>2. \A i \in T : \E k \in K : f[k] = i
    BY <2>0, <2>1, <2>6
  <2>3. \A k \in K : f[k] \in T
    BY <2>0, <2>6
  <2>4. T = {f[k] : k \in K}
    BY <2>2, <2>3
  <2> QED BY <2>1, <2>4, <2>6
<1>3. ASSUME NEW k \in K
      PROVE  I[k] \in Int /\ X[k] \in Int /\ I[k] = M[f[k]] /\ X[k] = Y[f[k]]
  <2>1. iv \in Seq(Interval) /\ k \in 1 .. Len(iv)
    BY IntervalsOf DEF Matches
  <2>2. PICK i : i = f[k] /\ i \in EnergyIntervals(q)
    BY <2>1, IntervalsOf
  <2>3. iv[k] = [start |-> q[i].t, ticks |-> Gap(q, i), import |-> q[i].import, export |-> q[i].export]
    BY <2>1, <2>2, IntervalsOf
  <2>4. I[k] = iv[k].import * iv[k].ticks /\ X[k] = iv[k].export * iv[k].ticks
    BY <2>1 DEF ImportOf, ExportOf
  <2>5. M[i] = q[i].import * Gap(q, i) /\ Y[i] = q[i].export * Gap(q, i)
    BY <2>2 DEF ImportIn, ExportIn
  <2>6. q[i].import * Gap(q, i) \in Int /\ q[i].export * Gap(q, i) \in Int
    BY <2>2, EnergyIs
  <2> HIDE DEF I, X, M, Y, f
  <2> QED BY <2>2, <2>3, <2>4, <2>5, <2>6
<1> HIDE DEF f, I, X, M, Y
<1>4. Renames(I, K, f, M, T) /\ Renames(X, K, f, Y, T)
  BY <1>2, <1>3 DEF Renames
<1>5. SumFunctionOnSet(I, K) = SumFunctionOnSet(M, T) /\ SumFunctionOnSet(X, K) = SumFunctionOnSet(Y, T)
  BY <1>1, <1>4, SumMoved
<1> QED BY <1>5 DEF I, X, M, Y

\* The energy of an hour.
LEMMA SumOfHour ==
  ASSUME NEW q \in Seq(Row), Timely(q), NEW iv, iv = integrated_intervals(q, <<>>, 0), NEW h
  PROVE  /\ SumFunctionOnSet(ImportOf(iv), StartIn(iv, h)) = SumFunctionOnSet(ImportIn(q), InHourOf(q, h))
         /\ SumFunctionOnSet(ExportOf(iv), StartIn(iv, h)) = SumFunctionOnSet(ExportIn(q), InHourOf(q, h))
         /\ StartIn(iv, h) # {} => InHourOf(q, h) # {}
<1> DEFINE f == Places(q)
           K == StartIn(iv, h)
           T == InHourOf(q, h)
<1>1. \A k \in 1 .. Len(iv) : k \in K <=> f[k] \in T
  <2> SUFFICES ASSUME NEW k \in 1 .. Len(iv) PROVE k \in K <=> f[k] \in T
    OBVIOUS
  <2>1. PICK i : i = f[k] /\ i \in EnergyIntervals(q)
    BY IntervalsOf
  <2>2. iv[k] = [start |-> q[i].t, ticks |-> Gap(q, i), import |-> q[i].import, export |-> q[i].export]
    BY <2>1, IntervalsOf
  <2>3. iv[k].start = q[i].t
    BY <2>2
  <2> HIDE DEF f
  <2> QED BY <2>1, <2>3 DEF StartIn, InHourOf
<1>2. K \subseteq 1 .. Len(iv) /\ T \subseteq EnergyIntervals(q)
  BY DEF StartIn, InHourOf
<1>3. K # {} => T # {}
  <2> HIDE DEF K, T, f
  <2> QED BY <1>1, <1>2
<1>4. PICK S, U : S = K /\ U = T
  OBVIOUS
<1> HIDE DEF K, T
<1>5. Matches(q, iv, S, U)
  BY <1>1, <1>2, <1>4 DEF Matches
<1>6. /\ SumFunctionOnSet(ImportOf(iv), S) = SumFunctionOnSet(ImportIn(q), U)
      /\ SumFunctionOnSet(ExportOf(iv), S) = SumFunctionOnSet(ExportIn(q), U)
  BY <1>5, SumOfIntervals
<1> QED BY <1>3, <1>4, <1>6 DEF K, T

\* The energy of a bucket.
LEMMA BucketEnergy ==
  ASSUME NEW d, NEW h, NEW net
  PROVE  LET B == Bucket(d, h, Threshold, net) IN
         /\ B.import = SumFunctionOnSet([i \in Filling(d, h) |-> d[i].import * Segment(d, i, h)], Filling(d, h))
         /\ B.export = SumFunctionOnSet([i \in Filling(d, h) |-> d[i].export * Segment(d, i, h)], Filling(d, h))
  BY DEF Bucket, Filling, Sum

\* A part that starts in the hour, and one that is whole in it.
LEMMA PartOfHour ==
  ASSUME NEW d \in Seq(Row), NEW i \in HeatIntervals(d), NEW h \in Int
  PROVE  /\ HourOf(d[i].t) = h => Segment(d, i, h) > 0
         /\ Segment(d, i, h) > 0 /\ Segment(d, i, h) = Gap(d, i) => HourOf(d[i].t) = h
<1>1. PICK L \in Nat : L = HourLen /\ L > 0
  BY HourLenIs
<1>2. PICK s \in Int, t \in Int : s = d[i].t /\ t = d[i + 1].t /\ s < t /\ Gap(d, i) = t - s
  BY IntervalIs
<1>3. PICK l \in Int, m \in Int : l = h * L /\ m = (h + 1) * L /\ m = l + L
  BY <1>1
<1>4. Segment(d, i, h) = Larger(0, Smaller(t, m) - Larger(s, l))
  BY <1>1, <1>2, <1>3 DEF Segment
<1>5. HourOf(s) = h <=> l <= s /\ s < m
  <2>1. HourOf(s) = h <=> s \in l .. m - 1
    BY <1>1, <1>3, TicksOfHour
  <2> QED BY <2>1
<1>6. l <= s /\ s < m => Larger(0, Smaller(t, m) - Larger(s, l)) > 0
  BY ONLY <1>2, <1>3, Z3T(30) DEF Larger, Smaller
<1>7. /\ Larger(0, Smaller(t, m) - Larger(s, l)) > 0
      /\ Larger(0, Smaller(t, m) - Larger(s, l)) = t - s
      => l <= s /\ s < m
  BY ONLY <1>2, <1>3, Z3T(30) DEF Larger, Smaller
<1> QED BY <1>2, <1>4, <1>5, <1>6, <1>7

\* No interval crosses the limits of the hour, and none is exactly half an hour long.
WholeHour(q, h) ==
  \A i \in HeatIntervals(q) : Segment(q, i, h) > 0 => Segment(q, i, h) = Gap(q, i) /\ Gap(q, i) # HalfHour

\* Then the heatmap has the energy of the intervals that start in it.
LEMMA HourInMap ==
  ASSUME NEW q \in Seq(Row), NEW h \in Int, WholeHour(q, h), InHourOf(q, h) # {},
         NEW bucket, bucket = [x \in HeatHours(q) |-> Bucket(q, x, Threshold, "TN")]
  PROVE  /\ bucket[h].import = SumFunctionOnSet(ImportIn(q), InHourOf(q, h))
         /\ bucket[h].export = SumFunctionOnSet(ExportIn(q), InHourOf(q, h))
<1> DEFINE T == InHourOf(q, h)
           F == Filling(q, h)
<1>1. \A i \in EnergyIntervals(q) : i \in HeatIntervals(q) /\ q[i].t \in Int
  BY EnergyIs
<1>2. ASSUME NEW i \in T PROVE i \in F
  <2>1. i \in EnergyIntervals(q) /\ HourOf(q[i].t) = h
    BY DEF InHourOf
  <2>2. i \in HeatIntervals(q)
    BY <1>1, <2>1
  <2>3. Segment(q, i, h) > 0
    BY <2>1, <2>2, PartOfHour
  <2> QED BY <2>2, <2>3 DEF Filling
<1>3. ASSUME NEW i \in F PROVE i \in T /\ Segment(q, i, h) = Gap(q, i)
  <2>1. i \in HeatIntervals(q) /\ Segment(q, i, h) > 0
    BY DEF Filling
  <2>2. Segment(q, i, h) = Gap(q, i) /\ Gap(q, i) # HalfHour
    BY <2>1 DEF WholeHour
  <2>3. HourOf(q[i].t) = h
    BY <2>1, <2>2, PartOfHour
  <2>4. i \in EnergyIntervals(q)
    <3>1. Gap(q, i) \in Nat /\ HalfHour \in Int
      BY <2>1, IntervalIs, HourLenIs
    <3>2. i \in 1 .. Len(q) - 1 /\ 0 < Gap(q, i) /\ Gap(q, i) <= HalfHour
      BY <2>1 DEF HeatIntervals
    <3> QED BY <2>2, <3>1, <3>2 DEF EnergyIntervals
  <2> QED BY <2>2, <2>3, <2>4 DEF InHourOf
<1>4. F = T
  <2> HIDE DEF F, T
  <2> QED BY <1>2, <1>3
<1>5. h \in HeatHours(q)
  <2>1. PICK i \in T : TRUE
    OBVIOUS
  <2>2. i \in EnergyIntervals(q) /\ HourOf(q[i].t) = h
    BY DEF InHourOf
  <2>3. i \in HeatIntervals(q) /\ q[i].t \in Int /\ q[i].t < q[i + 1].t
    BY <1>1, <2>2, IntervalIs
  <2>4. PICK u \in Int : u = q[i].t /\ u <= u
    BY <2>3
  <2>5. HourOf(u) \in HeatHours(q)
    BY <2>3, <2>4, HeatHoursIs
  <2> QED BY <2>2, <2>4, <2>5
<1> DEFINE A == [i \in F |-> q[i].import * Segment(q, i, h)]
           B == [i \in F |-> q[i].export * Segment(q, i, h)]
           M == ImportIn(q)  Y == ExportIn(q)
<1>6. bucket[h].import = SumFunctionOnSet(A, F) /\ bucket[h].export = SumFunctionOnSet(B, F)
  BY <1>5, BucketEnergy
<1>7. \A i \in F : A[i] = M[i] /\ B[i] = Y[i]
  <2> SUFFICES ASSUME NEW i \in F PROVE A[i] = M[i] /\ B[i] = Y[i]
    OBVIOUS
  <2>1. A[i] = q[i].import * Gap(q, i) /\ B[i] = q[i].export * Gap(q, i)
    BY <1>3
  <2>2. i \in EnergyIntervals(q)
    BY <1>3 DEF InHourOf
  <2>3. M[i] = q[i].import * Gap(q, i) /\ Y[i] = q[i].export * Gap(q, i)
    BY <2>2 DEF ImportIn, ExportIn
  <2> QED BY <2>1, <2>3
<1>8. IsFiniteSet(F)
  BY TicksFinite
<1> HIDE DEF A, B, M, Y, F, T
<1>9. SumFunctionOnSet(A, F) = SumFunctionOnSet(M, F) /\ SumFunctionOnSet(B, F) = SumFunctionOnSet(Y, F)
  BY <1>7, <1>8, SumSame
<1> QED BY <1>4, <1>6, <1>9 DEF M, Y, T

\* The day of an hour.
LEMMA DayOfHour ==
  ASSUME NEW s \in Int
  PROVE  HourOf(s) \div HoursPerDay = DayOf(s) /\ HourOf(s) \in Int /\ DayOf(s) \in Int
<1>1. PICK H \in Nat \ {0}, P \in Nat \ {0} : H = HourLen /\ P = HoursPerDay
  BY CalendarAssumption
<1>2. PICK D \in Nat \ {0} : D = H * P /\ D = DayLen
  BY <1>1, UnitsAre
<1>3. PICK u \in Int : u = s \div H /\ H * u <= s /\ s < H * u + H
  BY FloorIs
<1>4. PICK v \in Int : v = u \div P /\ P * v <= u
  BY FloorIs
<1>5. PICK w \in Int : w = s \div D /\ D * w <= s
  BY FloorIs
<1>6. D * v = H * (P * v) /\ D * w = H * (P * w)
  BY <1>2
<1>7. PICK a \in Int, b \in Int : a = P * v /\ b = P * w
  OBVIOUS
<1>8. v <= w
  <2>1. H * a <= H * u
    BY <1>4, <1>7, MultipleRises
  <2>2. PICK x \in Int, z \in Int : x = H * a /\ z = H * u
    OBVIOUS
  <2>3. x <= s
    BY ONLY <2>1, <2>2, <1>3, s \in Int, x \in Int, z \in Int
  <2>4. D * v <= s
    BY <1>6, <1>7, <2>2, <2>3
  <2>5. v <= s \div D
    BY <2>4, FloorFits
  <2> QED BY <1>5, <2>5
<1>9. w <= v
  <2>1. H * b <= s
    BY <1>5, <1>6, <1>7
  <2>2. b <= s \div H
    BY <2>1, FloorFits
  <2>3. P * w <= u
    BY <1>3, <1>7, <2>2
  <2>4. w <= u \div P
    BY <2>3, FloorFits
  <2> QED BY <1>4, <2>4
<1>10. v = w
  BY <1>8, <1>9
<1> QED BY <1>1, <1>2, <1>3, <1>4, <1>5, <1>10 DEF HourOf, DayOf

\* What the readings of a table, its intervals, the rows of the costs and the windows are.
Table(q, iv, quote, rows, view, y) ==
  /\ q \in Seq(Row) /\ Timely(q)
  /\ iv = integrated_intervals(q, <<>>, 0)
  /\ rows = build_summary(iv, Genuine, quote, 2, 1).rows
  /\ view = WeekSummary(q, <<>>, 1) /\ y = q[Len(q)].t

\* An hour of the costs has the energy of its intervals.
LEMMA HourOfCosts ==
  ASSUME NEW q, NEW iv, NEW quote, NEW rows, NEW view, NEW y, Table(q, iv, quote, rows, view, y), NEW h \in DOMAIN rows
  PROVE  /\ rows[h].import = SumFunctionOnSet(ImportIn(q), InHourOf(q, h))
         /\ rows[h].export = SumFunctionOnSet(ExportIn(q), InHourOf(q, h))
         /\ InHourOf(q, h) # {} /\ h \in Int
         /\ h = HourOf(y) => view.windows.hour.import = rows[h].import
<1>0. q \in Seq(Row) /\ Timely(q) /\ iv = integrated_intervals(q, <<>>, 0)
  BY DEF Table
<1>1. iv \in Seq(Interval)
  BY <1>0, IntervalsOf
<1>2. /\ StartIn(iv, h) # {}
      /\ rows[h].import = SumFunctionOnSet(ImportOf(iv), StartIn(iv, h))
      /\ rows[h].export = SumFunctionOnSet(ExportOf(iv), StartIn(iv, h))
  <2>1. rows = build_summary(iv, Genuine, quote, 2, 1).rows
    BY DEF Table
  <2> QED BY ONLY h \in DOMAIN rows, <1>1, <2>1, RowsAre, ZenonT(30)
<1>3. /\ rows[h].import = SumFunctionOnSet(ImportIn(q), InHourOf(q, h))
      /\ rows[h].export = SumFunctionOnSet(ExportIn(q), InHourOf(q, h))
      /\ InHourOf(q, h) # {}
  BY <1>0, <1>2, SumOfHour
<1>4. h \in Int
  <2>1. PICK k \in 1 .. Len(iv) : HourOf(iv[k].start) = h
    BY <1>2 DEF StartIn
  <2> QED BY <1>1, <2>1, IntervalTypes
<1>5. ASSUME h = HourOf(y) PROVE view.windows.hour.import = rows[h].import
  <2>1. view.windows.hour.import = SumFunctionOnSet(ImportIn(q), InHourOf(q, HourOf(y)))
    BY WindowsAre DEF Table
  <2> QED BY <1>3, <1>5, <2>1
<1> QED BY <1>3, <1>4, <1>5

\* The costs of today add up to the window of the day.
DayAgrees(rows, view) ==
  /\ view.windows.day.import = SumFunctionOnSet([h \in DOMAIN rows |-> rows[h].import], DOMAIN rows)
  /\ view.windows.day.export = SumFunctionOnSet([h \in DOMAIN rows |-> rows[h].export], DOMAIN rows)

\* The windows of today are the costs of its hours, if a row is of today.
LEMMA DayOfCosts ==
  ASSUME NEW q, NEW iv, NEW quote, NEW rows, NEW view, NEW y, Table(q, iv, quote, rows, view, y),
         NEW g \in DOMAIN rows, g \div HoursPerDay = DayOf(y)
  PROVE  DayAgrees(rows, view)
<1> DEFINE L == Latest(iv)
           T == InDayOf(q, DayOf(y))
           I == ImportOf(iv)  X == ExportOf(iv)
           p == [k \in L |-> HourOf(iv[k].start)]
           R == [h \in DOMAIN rows |-> rows[h].import]
           S == [h \in DOMAIN rows |-> rows[h].export]
<1>0. q \in Seq(Row) /\ Timely(q) /\ iv = integrated_intervals(q, <<>>, 0)
  BY DEF Table
<1>1. iv \in Seq(Interval)
  BY <1>0, IntervalsOf
<1>2. /\ IsFiniteSet(L) /\ L \subseteq 1 .. Len(iv)
      /\ \A k \in 1 .. Len(iv) : iv[k].start \in Int /\ I[k] \in Int /\ X[k] \in Int
  BY <1>1, IntervalTypes DEF ImportOf, ExportOf
<1>3. DOMAIN rows = {p[k] : k \in L}
  <2>1. DOMAIN rows = {HourOf(iv[k].start) : k \in L}
    BY <1>1, RowsAre DEF Table
  <2> HIDE DEF L
  <2> QED BY <2>1
<1>4. PICK c \in L : p[c] = g
  <2> HIDE DEF L, p
  <2> QED BY <1>3
<1>5. DayOf(iv[c].start) = DayOf(y)
  <2>1. HourOf(iv[c].start) = g
    BY <1>4
  <2> QED BY <1>2, <1>4, <2>1, DayOfHour
<1>6. ASSUME NEW k \in 1 .. Len(iv) PROVE k \in L <=> DayOf(iv[k].start) = DayOf(y)
  <2>1. ASSUME k \in L PROVE DayOf(iv[k].start) = DayOf(y)
    BY <1>1, <1>4, <1>5, <2>1, RowsOfDay
  <2>2. ASSUME DayOf(iv[k].start) = DayOf(y) PROVE k \in L
    <3>1. DayOf(iv[k].start) = DayOf(iv[c].start)
      BY <1>5, <2>2
    <3> QED BY <1>4, <3>1 DEF Latest
  <2> QED BY <2>1, <2>2
<1>7. Matches(q, iv, L, T)
  <2>1. T \subseteq EnergyIntervals(q)
    BY DEF InDayOf
  <2>2. ASSUME NEW k \in 1 .. Len(iv) PROVE k \in L <=> Places(q)[k] \in T
    <3>1. PICK i : i = Places(q)[k] /\ i \in EnergyIntervals(q)
      BY <1>0, IntervalsOf
    <3>2. iv[k] = [start |-> q[i].t, ticks |-> Gap(q, i), import |-> q[i].import, export |-> q[i].export]
      BY <1>0, <3>1, IntervalsOf
    <3>3. iv[k].start = q[i].t
      BY <3>2
    <3>4. i \in T <=> DayOf(iv[k].start) = DayOf(y)
      BY <3>1, <3>3 DEF InDayOf
    <3> HIDE DEF L, T
    <3> QED BY <1>6, <3>1, <3>4
  <2> HIDE DEF L, T
  <2> QED BY <1>2, <2>1, <2>2 DEF Matches
<1>8. ASSUME NEW h \in DOMAIN rows
      PROVE R[h] = SumFunctionOnSet(I, {k \in L : p[k] = h}) /\ S[h] = SumFunctionOnSet(X, {k \in L : p[k] = h})
  <2>1. /\ StartIn(iv, h) \subseteq L
        /\ rows[h].import = SumFunctionOnSet(I, StartIn(iv, h)) /\ rows[h].export = SumFunctionOnSet(X, StartIn(iv, h))
    <3>1. rows = build_summary(iv, Genuine, quote, 2, 1).rows
      BY DEF Table
    <3> QED BY ONLY h \in DOMAIN rows, <1>1, <3>1, RowsAre, ZenonT(30)
  <2>2. \A k \in 1 .. Len(iv) : k \in StartIn(iv, h) <=> HourOf(iv[k].start) = h
    BY DEF StartIn
  <2>3. StartIn(iv, h) \subseteq 1 .. Len(iv)
    BY DEF StartIn
  <2>4. {k \in L : p[k] = h} = StartIn(iv, h)
    <3>1. \A k \in L : p[k] = HourOf(iv[k].start)
      OBVIOUS
    <3> HIDE DEF L, p
    <3> QED BY <1>2, <2>1, <2>2, <2>3, <3>1
  <2> HIDE DEF L, p, I, X
  <2> QED BY <2>1, <2>4
<1>9. GroupSums(I, L, p, R, DOMAIN rows) /\ GroupSums(X, L, p, S, DOMAIN rows)
  <2> HIDE DEF I, X, L, p, R, S
  <2> QED BY <1>3, <1>8 DEF GroupSums
<1>10. /\ view.windows.day.import = SumFunctionOnSet(ImportIn(q), T)
       /\ view.windows.day.export = SumFunctionOnSet(ExportIn(q), T)
  BY WindowsAre DEF Table
<1>11. SumFunctionOnSet(I, L) = SumFunctionOnSet(ImportIn(q), T) /\ SumFunctionOnSet(X, L) = SumFunctionOnSet(ExportIn(q), T)
  <2> HIDE DEF L, T
  <2> QED BY <1>0, <1>7, SumOfIntervals
<1> HIDE DEF I, X, L, p, T, R, S
<1>12. PICK D : D = DOMAIN rows
  OBVIOUS
<1>13. SumFunctionOnSet(I, L) = SumFunctionOnSet(R, D) /\ SumFunctionOnSet(X, L) = SumFunctionOnSet(S, D)
  <2>1. \A k \in L : I[k] \in Int /\ X[k] \in Int
    BY <1>2
  <2>2. IsFiniteSet(L) /\ GroupSums(I, L, p, R, D) /\ GroupSums(X, L, p, S, D)
    BY <1>2, <1>9, <1>12
  <2>3. SumFunctionOnSet(I, L) = SumFunctionOnSet(R, D)
    BY <2>1, <2>2, SumGrouped
  <2>4. SumFunctionOnSet(X, L) = SumFunctionOnSet(S, D)
    BY <2>1, <2>2, SumGrouped
  <2> QED BY <2>3, <2>4
<1> QED BY <1>10, <1>11, <1>12, <1>13 DEF DayAgrees, R, S

\* The intervals of this week add up to the window of the week.
LEMMA WeekOfIntervals ==
  ASSUME NEW q, NEW iv, NEW quote, NEW rows, NEW view, NEW y, Table(q, iv, quote, rows, view, y),
         NEW F, F = [k \in 1 .. Len(iv) |-> IF WeekOf(iv[k].start) = WeekOf(y) THEN iv[k].import * iv[k].ticks ELSE 0]
  PROVE  view.windows.week.import = SumFunctionOnSet(F, 1 .. Len(iv))
<1> DEFINE K == {k \in 1 .. Len(iv) : WeekOf(iv[k].start) = WeekOf(y)}
           T == InWeekOf(q, WeekOf(y))
           I == ImportOf(iv)
<1>0. q \in Seq(Row) /\ Timely(q) /\ iv = integrated_intervals(q, <<>>, 0)
  BY DEF Table
<1>1. iv \in Seq(Interval)
  BY <1>0, IntervalsOf
<1>2. Matches(q, iv, K, T)
  <2>1. T \subseteq EnergyIntervals(q) /\ K \subseteq 1 .. Len(iv)
    BY DEF InWeekOf
  <2>2. ASSUME NEW k \in 1 .. Len(iv) PROVE k \in K <=> Places(q)[k] \in T
    <3>1. PICK i : i = Places(q)[k] /\ i \in EnergyIntervals(q)
      BY <1>0, IntervalsOf
    <3>2. iv[k] = [start |-> q[i].t, ticks |-> Gap(q, i), import |-> q[i].import, export |-> q[i].export]
      BY <1>0, <3>1, IntervalsOf
    <3>3. iv[k].start = q[i].t
      BY <3>2
    <3> QED BY <3>1, <3>3 DEF InWeekOf
  <2> HIDE DEF K, T
  <2> QED BY <2>1, <2>2 DEF Matches
<1>3. view.windows.week.import = SumFunctionOnSet(ImportIn(q), T)
  BY WindowsAre DEF Table
<1>4. /\ \A k \in 1 .. Len(iv) : F[k] \in Int /\ (k \notin K => F[k] = 0) /\ (k \in K => F[k] = I[k])
      /\ IsFiniteSet(1 .. Len(iv)) /\ K \subseteq 1 .. Len(iv)
  <2>1. \A k \in 1 .. Len(iv) : iv[k].import * iv[k].ticks \in Int
    BY <1>1, IntervalTypes
  <2>2. IsFiniteSet(1 .. Len(iv))
    BY <1>1, IntervalTypes
  <2>3. \A k \in 1 .. Len(iv) : F[k] \in Int /\ (k \notin K => F[k] = 0) /\ (k \in K => F[k] = I[k])
    BY <2>1 DEF ImportOf
  <2> QED BY <2>2, <2>3
<1> HIDE DEF K, T, I
<1>5. SumFunctionOnSet(I, K) = SumFunctionOnSet(ImportIn(q), T)
  BY <1>0, <1>2, SumOfIntervals DEF I
<1>6. SumFunctionOnSet(F, 1 .. Len(iv)) = SumFunctionOnSet(F, K)
  <2>1. \A k \in (1 .. Len(iv)) \ K : F[k] = 0
    BY <1>4
  <2> QED BY <1>4, <2>1, SumWithout
<1>7. SumFunctionOnSet(F, K) = SumFunctionOnSet(I, K)
  <2>1. IsFiniteSet(K) /\ \A k \in K : F[k] = I[k]
    BY <1>4, FS_Subset
  <2> QED BY <2>1, SumSame
<1> QED BY <1>3, <1>5, <1>6, <1>7

-----------------------------------------------------------------------------
(* The strongest hours.                                                      *)

\* In a strict total order every place is taken.
LEMMA PlaceTaken ==
  ASSUME NEW S, IsFiniteSet(S), NEW R, StrictOrder(S, R), NEW k \in 1 .. Cardinality(S)
  PROVE  \E x \in S : Cardinality(Earlier(S, R, x)) = k - 1
<1>1. Cardinality(S) \in Nat /\ k \in Nat /\ k - 1 \in Nat
  BY FS_CardinalityType
<1>2. PICK l \in Nat : l = k - 1 /\ k = l + 1
  BY <1>1
<1>3. Cardinality(FirstOf(S, R, k)) = k /\ Cardinality(FirstOf(S, R, l)) = l
  <2>1. Smaller(k, Cardinality(S)) = k /\ Smaller(l, Cardinality(S)) = l
    BY <1>1, <1>2 DEF Smaller
  <2> QED BY <1>1, <2>1, FirstCount
<1>4. PICK x \in FirstOf(S, R, k) : x \notin FirstOf(S, R, l)
  <2>1. SUFFICES ASSUME FirstOf(S, R, k) \subseteq FirstOf(S, R, l) PROVE FALSE
    OBVIOUS
  <2>2. IsFiniteSet(FirstOf(S, R, l))
    <3>1. FirstOf(S, R, l) \subseteq S
      BY DEF FirstOf
    <3> QED BY <3>1, FS_Subset
  <2>3. Cardinality(FirstOf(S, R, k)) <= Cardinality(FirstOf(S, R, l))
    BY <2>1, <2>2, FS_Subset
  <2> QED BY <1>2, <1>3, <2>3
<1>5. x \in S /\ Cardinality(Earlier(S, R, x)) < k /\ ~ (Cardinality(Earlier(S, R, x)) < l)
  BY <1>4 DEF FirstOf
<1>6. Cardinality(Earlier(S, R, x)) \in Nat
  <2>1. Earlier(S, R, x) \subseteq S
    BY DEF Earlier
  <2> QED BY <2>1, FS_Subset, FS_CardinalityType
<1> QED BY <1>2, <1>5, <1>6

\* A positive factor keeps the order.
LEMMA FactorKeeps ==
  ASSUME NEW m \in Nat \ {0}, NEW x \in Int, NEW y \in Int
  PROVE  (x <= y <=> x * m <= y * m) /\ (x < y <=> x * m < y * m)
<1>1. ASSUME NEW a \in Int, NEW b \in Int, a <= b PROVE a * m <= b * m
  BY <1>1
<1>2. ASSUME NEW a \in Int, NEW b \in Int, a < b PROVE a * m < b * m
  <2>1. a + 1 <= b /\ a + 1 \in Int
    BY <1>2
  <2>2. (a + 1) * m <= b * m
    BY <1>1, <2>1
  <2>3. (a + 1) * m = a * m + m /\ a * m \in Int /\ b * m \in Int
    OBVIOUS
  <2>4. PICK u \in Int, v \in Int : u = a * m /\ v = b * m
    BY <2>3
  <2> QED BY <2>2, <2>3, <2>4
<1>3. PICK u \in Int, v \in Int : u = x * m /\ v = y * m
  OBVIOUS
<1>4. (x <= y => u <= v) /\ (x < y => u < v) /\ (y <= x => v <= u) /\ (y < x => v < u)
  BY <1>1, <1>2, <1>3
<1> QED BY <1>3, <1>4

\* Ratios with a positive count are ordered.
Fraction == [sum : Nat, count : Nat \ {0}]
AtLeast(a, b) == a.sum * b.count >= b.sum * a.count

\* The order of ratios is transitive, and strict if one step of it is.
LEMMA AtLeastCarries ==
  ASSUME NEW a \in Fraction, NEW b \in Fraction, NEW c \in Fraction, AtLeast(a, b), AtLeast(b, c)
  PROVE  /\ AtLeast(a, c)
         /\ AboveRatio(a, b) \/ AboveRatio(b, c) => AboveRatio(a, c)
<1>1. PICK x \in Nat, y \in Nat, z \in Nat : x = a.sum /\ y = b.sum /\ z = c.sum
  BY DEF Fraction
<1>2. PICK m \in Nat \ {0}, n \in Nat \ {0}, p \in Nat \ {0} : m = a.count /\ n = b.count /\ p = c.count
  BY DEF Fraction
<1>3. PICK xn \in Int, ym \in Int, yp \in Int, zn \in Int, xp \in Int, zm \in Int :
        xn = x * n /\ ym = y * m /\ yp = y * p /\ zn = z * n /\ xp = x * p /\ zm = z * m
  OBVIOUS
<1>4. xn * p = xp * n /\ ym * p = yp * m /\ zn * m = zm * n
  BY <1>3
<1>5. ym <= xn /\ zn <= yp
  BY <1>1, <1>2, <1>3 DEF AtLeast
<1>6. PICK A \in Int, B \in Int, C \in Int : A = xp * n /\ B = ym * p /\ C = zm * n
  OBVIOUS
<1>7. B <= A /\ (ym < xn => B < A)
  <2>1. ym * p <= xn * p /\ (ym < xn => ym * p < xn * p)
    BY <1>5, FactorKeeps
  <2> QED BY <1>4, <1>6, <2>1
<1>8. C <= B /\ (zn < yp => C < B)
  <2>1. zn * m <= yp * m /\ (zn < yp => zn * m < yp * m)
    BY <1>5, FactorKeeps
  <2> QED BY <1>4, <1>6, <2>1
<1>9. C <= A /\ (ym < xn \/ zn < yp => C < A)
  BY <1>7, <1>8
<1>10. (zm <= xp <=> C <= A) /\ (zm < xp <=> C < A)
  BY <1>6, FactorKeeps
<1>11. /\ AtLeast(a, c) <=> zm <= xp
       /\ AboveRatio(a, c) <=> zm < xp
       /\ AboveRatio(a, b) <=> ym < xn
       /\ AboveRatio(b, c) <=> zn < yp
  BY <1>1, <1>2, <1>3 DEF AtLeast, AboveRatio
<1> QED BY <1>9, <1>10, <1>11

\* Which comparisons hold of two.
LEMMA Compare ==
  ASSUME NEW a \in Fraction, NEW b \in Fraction
  PROVE  /\ AtLeast(a, b) <=> AboveRatio(a, b) \/ SameRatio(a, b)
         /\ AtLeast(a, b) <=> ~ AboveRatio(b, a)
         /\ SameRatio(a, b) <=> AtLeast(a, b) /\ AtLeast(b, a)
         /\ AtLeast(a, b) \/ AtLeast(b, a)
<1>1. PICK x \in Int, y \in Int : x = a.sum * b.count /\ y = b.sum * a.count
  BY DEF Fraction
<1>2. AtLeast(a, b) <=> x >= y
  BY <1>1 DEF AtLeast
<1>3. AtLeast(b, a) <=> y >= x
  BY <1>1 DEF AtLeast
<1>4. AboveRatio(a, b) <=> x > y
  BY <1>1 DEF AboveRatio
<1>5. AboveRatio(b, a) <=> y > x
  BY <1>1 DEF AboveRatio
<1>6. SameRatio(a, b) <=> x = y
  BY <1>1 DEF SameRatio
<1> QED BY <1>2, <1>3, <1>4, <1>5, <1>6

\* The values of a function on a finite set are finite in number.
LEMMA ImageFinite ==
  ASSUME NEW S, IsFiniteSet(S), NEW f, NEW T, T = {f[x] : x \in S}
  PROVE  IsFiniteSet(T)
<1> DEFINE g == [x \in S |-> f[x]]
<1>1. g \in Surjection(S, T)
  BY DEF Surjection
<1> QED BY <1>1, FS_Surjection

\* The hours with a reading, and the flow of each.
LEMMA FlowsAre ==
  ASSUME NEW r \in Seq(Row)
  PROVE  /\ IsFiniteSet(Hours(r)) /\ Hours(r) \subseteq Int
         /\ \A h \in Hours(r) : HourRow(r, h).hour = h /\ Flow(HourRow(r, h)) \in Fraction
<1> DEFINE T == {j \in 1 .. Len(r) : r[j].t # NoTime}
<1>1. IsFiniteSet(1 .. Len(r)) /\ T \subseteq 1 .. Len(r) /\ IsFiniteSet(T)
  <2>1. IsFiniteSet(1 .. Len(r))
    BY FS_Interval
  <2> QED BY <2>1, FS_Subset
<1>2. \A i \in 1 .. Len(r) : r[i] \in Row /\ r[i].t \in Int /\ signed_grid_w(r[i]) \in Int
  <2>1. \A i \in 1 .. Len(r) : r[i] \in Row
    OBVIOUS
  <2> QED BY <2>1, RowValues DEF Row
<1>3. IsFiniteSet(Hours(r)) /\ Hours(r) \subseteq Int
  <2> DEFINE f == [i \in T |-> HourOf(r[i].t)]
  <2>1. Hours(r) = {f[i] : i \in T}
    BY DEF Hours
  <2>2. \A i \in T : f[i] \in Int
    BY <1>1, <1>2, TicksOfHour
  <2> HIDE DEF f, T
  <2>3. IsFiniteSet({f[i] : i \in T})
    BY <1>1, ImageFinite
  <2> QED BY <2>1, <2>2, <2>3
<1>4. ASSUME NEW h \in Hours(r) PROVE HourRow(r, h).hour = h /\ Flow(HourRow(r, h)) \in Fraction
  <2> DEFINE S == InHour(r, h)
             F == [i \in S |-> signed_grid_w(r[i])]
  <2>1. S \subseteq 1 .. Len(r) /\ S # {}
    BY DEF InHour, Hours
  <2>2. IsFiniteSet(S) /\ Cardinality(S) \in Nat \ {0}
    <3> HIDE DEF S
    <3>1. IsFiniteSet(S)
      BY <1>1, <2>1, FS_Subset
    <3> QED BY <2>1, <3>1, FS_EmptySet, FS_CardinalityType
  <2>3. HourRow(r, h).hour = h
    BY DEF HourRow
  <2>4. HourRow(r, h).signed = Ratio(SumFunctionOnSet(F, S), Cardinality(S))
    BY DEF HourRow, MeanOf, Sum
  <2>5. \A i \in S : F[i] \in Int
    BY <1>2, <2>1
  <2> HIDE DEF S, F
  <2>6. PICK s \in Int : s = SumFunctionOnSet(F, S)
    BY <2>2, <2>5, SumFacts
  <2>7. Abs(s) \in Nat
    BY DEF Abs, Larger
  <2>8. Flow(HourRow(r, h)) = [sum |-> Abs(s), count |-> Cardinality(S)]
    BY <2>4, <2>6 DEF Flow, Ratio
  <2> QED BY <2>2, <2>3, <2>7, <2>8 DEF Fraction
<1> QED BY <1>3, <1>4

\* The top hours are hours with a reading.
LEMMA TopAre ==
  ASSUME NEW r \in Seq(Row), NEW n \in Nat, NEW top, top = top_hour_rows(r, n), NEW k \in 1 .. Len(top)
  PROVE  \E h \in Hours(r) : top[k] = HourRow(r, h)
<1> DEFINE H == [h \in Hours(r) |-> HourRow(r, h)]
           rows == {HourRow(r, h) : h \in Hours(r)}
           R == {e \in rows \X rows : Stronger(e[1], e[2])}
<1>1. IsFiniteSet(rows)
  <2>1. rows = {H[h] : h \in Hours(r)}
    OBVIOUS
  <2>2. IsFiniteSet(Hours(r))
    BY FlowsAre
  <2> HIDE DEF H, rows
  <2> QED BY <2>1, <2>2, ImageFinite
<1>2. \A a \in rows : a.hour \in Int /\ Flow(a) \in Fraction
  BY FlowsAre
<1>3. \A a, b \in rows : a.hour = b.hour => a = b
  BY FlowsAre
<1> HIDE DEF rows
<1>4. \A a, b \in rows : <<a, b>> \in R <=> Stronger(a, b)
  OBVIOUS
<1> HIDE DEF R
<1>5. \A a \in rows : ~ Stronger(a, a)
  <2> SUFFICES ASSUME NEW a \in rows PROVE ~ Stronger(a, a)
    OBVIOUS
  <2>1. Flow(a) \in Fraction /\ a.hour \in Int
    BY <1>2
  <2>2. ~ AboveRatio(Flow(a), Flow(a))
    BY <2>1, Compare
  <2>3. ~ (a.hour > a.hour)
    BY <2>1
  <2> QED BY <2>2, <2>3 DEF Stronger
<1>6. \A a, b \in rows : a # b => Stronger(a, b) \/ Stronger(b, a)
  <2> SUFFICES ASSUME NEW a \in rows, NEW b \in rows, a # b PROVE Stronger(a, b) \/ Stronger(b, a)
    OBVIOUS
  <2>1. PICK f \in Fraction, g \in Fraction : f = Flow(a) /\ g = Flow(b)
    BY <1>2
  <2>2. a.hour > b.hour \/ b.hour > a.hour
    BY <1>2, <1>3
  <2>3. AboveRatio(f, g) \/ AboveRatio(g, f) \/ (SameRatio(f, g) /\ SameRatio(g, f))
    BY Compare
  <2> QED BY <2>1, <2>2, <2>3 DEF Stronger
<1>7. \A a, b, c \in rows : Stronger(a, b) /\ Stronger(b, c) => Stronger(a, c)
  <2> SUFFICES ASSUME NEW a \in rows, NEW b \in rows, NEW c \in rows, Stronger(a, b), Stronger(b, c)
               PROVE  Stronger(a, c)
    OBVIOUS
  <2>1. PICK f \in Fraction, g \in Fraction, e \in Fraction : f = Flow(a) /\ g = Flow(b) /\ e = Flow(c)
    BY <1>2
  <2>2. AboveRatio(f, g) \/ (SameRatio(f, g) /\ a.hour > b.hour)
    BY <2>1 DEF Stronger
  <2>3. AboveRatio(g, e) \/ (SameRatio(g, e) /\ b.hour > c.hour)
    BY <2>1 DEF Stronger
  <2>4. AtLeast(f, g) /\ AtLeast(g, e)
    BY <2>2, <2>3, Compare
  <2>5. AtLeast(f, e) /\ (AboveRatio(f, g) \/ AboveRatio(g, e) => AboveRatio(f, e))
    BY <2>4, AtLeastCarries
  <2>6. AboveRatio(f, e) \/ (SameRatio(f, e) /\ a.hour > c.hour)
    <3>1. CASE AboveRatio(f, g) \/ AboveRatio(g, e)
      BY <2>5, <3>1
    <3>2. CASE ~ (AboveRatio(f, g) \/ AboveRatio(g, e))
      <4>1. a.hour > b.hour /\ b.hour > c.hour
        BY <2>2, <2>3, <3>2
      <4>2. a.hour > c.hour
        BY <4>1, <1>2
      <4>3. AboveRatio(f, e) \/ SameRatio(f, e)
        BY <2>5, Compare
      <4> QED BY <4>2, <4>3
    <3> QED BY <3>1, <3>2
  <2> QED BY <2>1, <2>6 DEF Stronger
<1>8. StrictOrder(rows, R)
  BY <1>4, <1>5, <1>6, <1>7 DEF StrictOrder
<1> DEFINE C(x) == Cardinality({s \in rows : Stronger(s, x)})
           m == Smaller(n, Cardinality(rows))
<1>9. top = [j \in 1 .. m |-> CHOOSE x \in rows : C(x) = j - 1]
  BY DEF top_hour_rows, rows
<1>10. m \in Nat /\ m <= Cardinality(rows) /\ Cardinality(rows) \in Nat
  <2>1. Cardinality(rows) \in Nat
    BY <1>1, FS_CardinalityType
  <2> QED BY <2>1 DEF Smaller
<1>11. k \in 1 .. m /\ k \in 1 .. Cardinality(rows)
  <2> HIDE DEF m, C
  <2>1. Len(top) = m
    BY <1>9, <1>10
  <2> QED BY <1>10, <2>1
<1>12. \E x \in rows : C(x) = k - 1
  <2>1. PICK x \in rows : Cardinality(Earlier(rows, R, x)) = k - 1
    BY <1>1, <1>8, <1>11, PlaceTaken
  <2>2. Earlier(rows, R, x) = {s \in rows : Stronger(s, x)}
    BY <1>4 DEF Earlier
  <2> QED BY <2>1, <2>2
<1>13. top[k] \in rows
  <2> HIDE DEF C, m
  <2>1. top[k] = CHOOSE x \in rows : C(x) = k - 1
    BY <1>9, <1>11
  <2> QED BY <1>12, <2>1
<1> QED BY <1>13 DEF rows

\* The newest reading comes first.
LEMMA NewestFirst ==
  ASSUME NEW q \in Seq(Row), Timely(q), NEW r, r = Reverse(q), NEW y, y = q[Len(q)].t
  PROVE  /\ r \in Seq(Row) /\ Len(r) = Len(q) /\ 1 \in 1 .. Len(r) /\ r[1].t = y /\ y \in Int /\ y # NoTime
         /\ \A i \in 1 .. Len(r) : r[i].t \in Int /\ r[i].t # NoTime /\ r[i].t <= y
<1>1. Len(q) \in Nat /\ Len(q) > 0
  <2>1. q # <<>>
    BY DEF Timely
  <2> QED BY <2>1, EmptySeq
<1>2. r \in Seq(Row) /\ Len(r) = Len(q) /\ \A i \in 1 .. Len(q) : r[i] = q[Len(q) - i + 1]
  BY ReverseFacts
<1>3. \A i \in 1 .. Len(q) : q[i].t \in Int /\ q[i].t # NoTime
  <2>1. \A i \in 1 .. Len(q) : q[i] \in Row
    OBVIOUS
  <2> QED BY <2>1 DEF Row, Timely
<1>4. y \in Int /\ y # NoTime
  <2>1. Len(q) \in 1 .. Len(q)
    BY <1>1
  <2> QED BY <1>3, <2>1
<1>5. ASSUME NEW i \in 1 .. Len(r) PROVE r[i].t \in Int /\ r[i].t # NoTime /\ r[i].t <= y
  <2>1. PICK j \in 1 .. Len(q) : j = Len(q) - i + 1 /\ r[i] = q[j]
    BY <1>1, <1>2
  <2>2. CASE j = Len(q)
    BY <1>3, <1>4, <2>1, <2>2
  <2>3. CASE j # Len(q)
    <3>1. j < Len(q) /\ Len(q) \in 1 .. Len(q)
      BY <1>1, <2>1, <2>3
    <3>2. q[j].t < y
      BY <3>1 DEF Timely
    <3> QED BY <1>3, <1>4, <2>1, <3>2
  <2> QED BY <2>2, <2>3
<1>6. 1 \in 1 .. Len(q) /\ r[1].t = y
  <2>1. 1 \in 1 .. Len(q) /\ Len(q) - 1 + 1 = Len(q)
    BY <1>1
  <2> QED BY <1>2, <2>1
<1> QED BY <1>2, <1>4, <1>5, <1>6

\* The graph is of the day of the newest reading.
LEMMA GraphIsOfToday ==
  ASSUME NEW q \in Seq(Row), Timely(q), NEW r, r = Reverse(q), NEW y, y = q[Len(q)].t
  PROVE  daily_graph_data(r).day = DayOf(y)
<1> DEFINE D == {h \div HoursPerDay : h \in Hours(r)}
<1>1. /\ r \in Seq(Row) /\ 1 \in 1 .. Len(r) /\ r[1].t = y /\ y \in Int
      /\ \A i \in 1 .. Len(r) : r[i].t \in Int /\ r[i].t # NoTime /\ r[i].t <= y
  BY NewestFirst
<1>2. DayOf(y) \in D
  <2>1. HourOf(y) \in Hours(r)
    BY <1>1 DEF Hours
  <2> QED BY <1>1, <2>1, DayOfHour
<1>3. ASSUME NEW x \in D PROVE x \in Int /\ x <= DayOf(y)
  <2>1. PICK h \in Hours(r) : x = h \div HoursPerDay
    OBVIOUS
  <2>2. PICK i \in 1 .. Len(r) : h = HourOf(r[i].t)
    BY DEF Hours
  <2>3. PICK t \in Int : t = r[i].t /\ t <= y
    BY <1>1
  <2>4. x = DayOf(t) /\ DayOf(t) \in Int
    BY <2>1, <2>2, <2>3, DayOfHour
  <2>5. PICK b \in Nat \ {0} : b = DayLen
    BY UnitsAre
  <2>6. t \div b <= y \div b
    BY <1>1, <2>3, SinceStart
  <2> QED BY <2>4, <2>5, <2>6 DEF DayOf
<1>4. DayOf(y) \in Int
  BY <1>1, DayOfHour
<1> HIDE DEF D
<1>5. Max(D) = DayOf(y)
  <2>1. \A x \in D : DayOf(y) >= x
    BY <1>3, <1>4
  <2>2. \A x \in D : (\A z \in D : x >= z) => x = DayOf(y)
    BY <1>2, <1>3, <1>4
  <2>3. Max(D) \in D /\ \A z \in D : Max(D) >= z
    BY <1>2, <2>1 DEF Max
  <2> QED BY <2>2, <2>3
<1> QED BY <1>5 DEF daily_graph_data, D

\* An hour of the graph, and the running one, are the hours of the list.
LEMMA SameHours ==
  ASSUME NEW r, NEW h
  PROVE  /\ h \in DOMAIN daily_graph_data(r).rows => daily_graph_data(r).rows[h].import = HourRow(r, h).import
         /\ h = HourOf(r[1].t) => CurrentHour(r) = HourRow(r, h).signed
<1>1. ASSUME h \in DOMAIN daily_graph_data(r).rows
      PROVE  daily_graph_data(r).rows[h].import = HourRow(r, h).import
  <2> DEFINE day == daily_graph_data(r).day
             A == {k \in Hours(r) : k \div HoursPerDay = day}
             G == [x \in A |-> [import |-> MeanOf(LAMBDA i : r[i].import, InHour(r, x)),
                                export |-> MeanOf(LAMBDA i : r[i].export, InHour(r, x))]]
  <2>1. daily_graph_data(r).rows = G
    BY DEF daily_graph_data
  <2>2. h \in A
    BY <1>1, <2>1
  <2>3. G[h].import = MeanOf(LAMBDA i : r[i].import, InHour(r, h))
    BY <2>2
  <2>4. HourRow(r, h).import = MeanOf(LAMBDA i : r[i].import, InHour(r, h))
    BY DEF HourRow
  <2> QED BY <2>1, <2>3, <2>4
<1>2. ASSUME h = HourOf(r[1].t) PROVE CurrentHour(r) = HourRow(r, h).signed
  BY <1>2 DEF CurrentHour, HourRow, InHour, MeanOf, Sum
<1> QED BY <1>1, <1>2

-----------------------------------------------------------------------------
(* Shorter lists.                                                            *)

\* The end of a table is a table, with the same newest reading.
LEMMA EndIs ==
  ASSUME NEW q \in Seq(Row), Timely(q), NEW p \in 0 .. Len(q) - 1, NEW e, e = From(q, p)
  PROVE  /\ e \in Seq(Row) /\ Timely(e) /\ Len(e) = Len(q) - p /\ Len(e) \in Nat /\ Len(e) > 0
         /\ \A k \in 1 .. Len(e) : p + k \in 1 .. Len(q) /\ e[k] = q[p + k]
         /\ e[Len(e)] = q[Len(q)]
<1>1. Len(q) \in Nat /\ p \in Nat /\ p < Len(q)
  OBVIOUS
<1>2. PICK m \in Nat : m = Len(q) - p /\ m > 0
  BY <1>1
<1>3. \A k \in 1 .. m : p + k \in 1 .. Len(q) /\ q[p + k] \in Row
  BY <1>1, <1>2
<1>4. e = [k \in 1 .. m |-> q[p + k]]
  BY <1>2 DEF From
<1>5. e \in Seq(Row) /\ Len(e) = m /\ \A k \in 1 .. m : e[k] = q[p + k]
  BY <1>2, <1>3, <1>4
<1>6. Timely(e)
  <2>1. e # <<>>
    BY <1>2, <1>5
  <2>2. \A i \in 1 .. m : e[i].t # NoTime
    BY <1>3, <1>5 DEF Timely
  <2>3. ASSUME NEW i \in 1 .. m, NEW j \in 1 .. m, i < j PROVE e[i].t < e[j].t
    <3>1. p + i < p + j /\ p + i \in 1 .. Len(q) /\ p + j \in 1 .. Len(q)
      BY <1>1, <1>3, <2>3
    <3>2. q[p + i].t < q[p + j].t
      BY <3>1 DEF Timely
    <3> QED BY <1>5, <3>2
  <2> QED BY <1>5, <2>1, <2>2, <2>3 DEF Timely
<1>7. e[m] = q[Len(q)]
  <2>1. m \in 1 .. m /\ p + m = Len(q)
    BY <1>1, <1>2
  <2> QED BY <1>5, <2>1
<1> QED BY <1>2, <1>3, <1>5, <1>6, <1>7

\* The newest n readings are the end of the table.
LEMMA NewestIsEnd ==
  ASSUME NEW q \in Seq(Row), Timely(q), NEW n \in Nat \ {0}
  PROVE  \E p \in 0 .. Len(q) - 1 :
           /\ Newest(n, Reverse(q)) = Reverse(From(q, p))
           /\ \A i \in 1 .. p : i \in 1 .. Len(q) - n
<1>1. Len(q) \in Nat /\ Len(q) > 0
  <2>1. q # <<>>
    BY DEF Timely
  <2> QED BY <2>1, EmptySeq
<1>2. PICK r : r = Reverse(q) /\ r \in Seq(Row) /\ Len(r) = Len(q) /\ \A i \in 1 .. Len(q) : r[i] = q[Len(q) - i + 1]
  BY ReverseFacts
<1>3. PICK p \in 0 .. Len(q) - 1 : (p = 0 \/ p = Len(q) - n) /\ Smaller(n, Len(q)) = Len(q) - p
  <2>1. CASE n >= Len(q)
    <3>1. Smaller(n, Len(q)) = Len(q) /\ Len(q) - 0 = Len(q) /\ 0 \in 0 .. Len(q) - 1
      BY <1>1, <2>1 DEF Smaller
    <3> QED BY <3>1
  <2>2. CASE n < Len(q)
    <3>1. PICK p \in Int : p = Len(q) - n
      BY <1>1
    <3>2. Smaller(n, Len(q)) = n /\ n = Len(q) - p /\ p \in 0 .. Len(q) - 1
      BY <1>1, <2>2, <3>1 DEF Smaller
    <3> QED BY <3>1, <3>2
  <2> QED BY <1>1, <2>1, <2>2
<1>4. \A i \in 1 .. p : i \in 1 .. Len(q) - n
  BY <1>1, <1>3
<1>5. PICK e : e = From(q, p)
  OBVIOUS
<1>6. PICK m \in Nat : m = Len(q) - p
  BY <1>1, <1>3
<1>7. e \in Seq(Row) /\ Len(e) = m /\ \A k \in 1 .. m : e[k] = q[p + k]
  <2>1. e \in Seq(Row) /\ Len(e) = Len(q) - p /\ \A k \in 1 .. Len(e) : e[k] = q[p + k]
    BY <1>5, EndIs
  <2> QED BY <1>6, <2>1
<1>8. PICK s : s = Newest(n, r) /\ s \in Seq(Row) /\ Len(s) = m /\ \A i \in 1 .. m : i \in 1 .. Len(r) /\ s[i] = r[i]
  BY <1>2, <1>3, <1>6, NewestIs
<1>9. PICK u : u = Reverse(e) /\ u \in Seq(Row) /\ Len(u) = m /\ \A i \in 1 .. m : u[i] = e[m - i + 1]
  <2>1. PICK u : u = Reverse(e)
    OBVIOUS
  <2>2. u \in Seq(Row) /\ Len(u) = Len(e) /\ \A i \in 1 .. Len(e) : u[i] = e[Len(e) - i + 1]
    BY <1>7, <2>1, ReverseFacts
  <2>3. Len(u) = m /\ \A i \in 1 .. m : u[i] = e[m - i + 1]
    BY <1>7, <2>2
  <2> QED BY <2>1, <2>2, <2>3
<1>10. ASSUME NEW i \in 1 .. m PROVE s[i] = u[i]
  <2>1. s[i] = q[Len(q) - i + 1]
    BY <1>2, <1>8
  <2>2. m - i + 1 \in 1 .. m /\ p + (m - i + 1) = Len(q) - i + 1
    BY <1>1, <1>6
  <2>3. u[i] = q[p + (m - i + 1)]
    BY <1>7, <1>9, <2>2
  <2> QED BY <2>1, <2>2, <2>3
<1>11. s = u
  BY <1>8, <1>9, <1>10
<1> QED BY <1>2, <1>4, <1>5, <1>8, <1>9, <1>11

\* The intervals of the end are intervals of the table, with the same energy.
LEMMA SumInEnd ==
  ASSUME NEW q \in Seq(Row), Timely(q), NEW p \in 0 .. Len(q) - 1, NEW e, e = From(q, p),
         NEW W, W \subseteq EnergyIntervals(e), NEW E, E \subseteq EnergyIntervals(q),
         \A k \in EnergyIntervals(e) : k \in W <=> p + k \in E,
         \A i \in E : i > p
  PROVE  /\ SumFunctionOnSet(ImportIn(e), W) = SumFunctionOnSet(ImportIn(q), E)
         /\ SumFunctionOnSet(ExportIn(e), W) = SumFunctionOnSet(ExportIn(q), E)
<1> DEFINE L == Len(q)
           m == Len(e)
<1>1. /\ e \in Seq(Row) /\ m = L - p /\ m \in Nat /\ L \in Nat /\ p \in Nat
      /\ \A k \in 1 .. m : p + k \in 1 .. L /\ e[k] = q[p + k]
  BY EndIs
<1> HIDE DEF L, m
<1>2. ASSUME NEW k \in 1 .. m - 1 PROVE Gap(e, k) = Gap(q, p + k) /\ p + k \in 1 .. L - 1 /\ k \in 1 .. m
  <2>1. k \in 1 .. m /\ k + 1 \in 1 .. m /\ p + (k + 1) = (p + k) + 1 /\ p + k \in 1 .. L - 1
    BY <1>1
  <2>2. e[k] = q[p + k] /\ e[k + 1] = q[(p + k) + 1]
    BY <1>1, <2>1
  <2> QED BY <2>1, <2>2 DEF Gap
<1>3. \A k \in EnergyIntervals(e) : k \in 1 .. m - 1 /\ 0 < Gap(e, k) /\ Gap(e, k) < HalfHour
  BY DEF EnergyIntervals, m
<1>4. \A i \in EnergyIntervals(q) : i \in 1 .. L - 1 /\ 0 < Gap(q, i) /\ Gap(q, i) < HalfHour
  BY DEF EnergyIntervals, L
<1> DEFINE f == [k \in W |-> p + k]
<1>5. \A k \in W : f[k] \in E
  BY <1>3
<1>6. \A i \in E : \E k \in W : f[k] = i
  <2> SUFFICES ASSUME NEW i \in E PROVE \E k \in W : p + k = i
    OBVIOUS
  <2>1. i \in 1 .. L - 1 /\ 0 < Gap(q, i) /\ Gap(q, i) < HalfHour /\ i > p
    BY <1>4
  <2>2. PICK k \in 1 .. m - 1 : p + k = i
    <3>1. i - p \in 1 .. m - 1 /\ p + (i - p) = i
      BY <1>1, <2>1
    <3> QED BY <3>1
  <2>3. k \in EnergyIntervals(e)
    BY <1>2, <2>1, <2>2 DEF EnergyIntervals, m
  <2> QED BY <2>2, <2>3
<1>7. \A x, y \in W : f[x] = f[y] => x = y
  <2> SUFFICES ASSUME NEW x \in W, NEW y \in W, p + x = p + y PROVE x = y
    OBVIOUS
  <2>1. x \in Int /\ y \in Int
    BY <1>3
  <2> QED BY <1>1, <2>1
<1>8. E = {f[k] : k \in W}
  <2> HIDE DEF f
  <2> QED BY <1>5, <1>6
<1>9. IsFiniteSet(W)
  BY <1>1, EnergyIs, FS_Subset
<1>10. ASSUME NEW k \in W
       PROVE  /\ ImportIn(e)[k] \in Int /\ ImportIn(e)[k] = ImportIn(q)[f[k]]
              /\ ExportIn(e)[k] \in Int /\ ExportIn(e)[k] = ExportIn(q)[f[k]]
  <2>1. k \in 1 .. m - 1 /\ k \in EnergyIntervals(e)
    BY <1>3
  <2>2. PICK i : i = p + k /\ i \in EnergyIntervals(q) /\ f[k] = i
    BY <1>5
  <2>3. e[k] = q[i] /\ Gap(e, k) = Gap(q, i)
    BY <1>1, <1>2, <2>1, <2>2
  <2>4. q[i].import * Gap(q, i) \in Int /\ q[i].export * Gap(q, i) \in Int
    BY <2>2, EnergyIs
  <2>5. ImportIn(q)[i] = q[i].import * Gap(q, i) /\ ExportIn(q)[i] = q[i].export * Gap(q, i)
    BY <2>2 DEF ImportIn, ExportIn
  <2>6. ImportIn(e)[k] = e[k].import * Gap(e, k) /\ ExportIn(e)[k] = e[k].export * Gap(e, k)
    BY <2>1 DEF ImportIn, ExportIn
  <2> HIDE DEF f
  <2> QED BY <2>2, <2>3, <2>4, <2>5, <2>6
<1> HIDE DEF f
<1> DEFINE I == ImportIn(e)  X == ExportIn(e)  M == ImportIn(q)  Y == ExportIn(q)
<1> HIDE DEF I, X, M, Y
<1>11. Renames(I, W, f, M, E) /\ Renames(X, W, f, Y, E)
  BY <1>7, <1>8, <1>10 DEF Renames, I, X, M, Y
<1>12. SumFunctionOnSet(I, W) = SumFunctionOnSet(M, E) /\ SumFunctionOnSet(X, W) = SumFunctionOnSet(Y, E)
  BY <1>9, <1>11, SumMoved
<1> QED BY <1>12 DEF I, X, M, Y

\* None of the first p readings is in unit h of length b, or all of them are older than it.
Older(q, p, b, h) == \A i \in 1 .. p : q[i].t < h * b

\* Then none is in it, ...
LEMMA OlderOutside ==
  ASSUME NEW b \in Nat \ {0}, NEW h \in Int, NEW t \in Int, t < h * b
  PROVE  t \div b # h
<1>1. PICK u \in Int : u = t \div b /\ b * u <= t
  BY FloorIs
<1>2. ASSUME u = h PROVE FALSE
  <2>1. PICK z \in Int : z = b * h /\ z = h * b
    OBVIOUS
  <2>2. z <= t /\ t < z
    BY <1>1, <1>2, <2>1
  <2> QED BY ONLY <2>2, z \in Int, t \in Int
<1> QED BY <1>1, <1>2

\* ... and the hour, the day and the week have the energy they have in the table.
LEMMA EnergyInEnd ==
  ASSUME NEW q \in Seq(Row), Timely(q), NEW p \in 0 .. Len(q) - 1, NEW e, e = From(q, p), NEW h \in Int
  PROVE  /\ Older(q, p, HourLen, h) =>
              /\ SumFunctionOnSet(ImportIn(e), InHourOf(e, h)) = SumFunctionOnSet(ImportIn(q), InHourOf(q, h))
              /\ SumFunctionOnSet(ExportIn(e), InHourOf(e, h)) = SumFunctionOnSet(ExportIn(q), InHourOf(q, h))
              /\ InHourOf(e, h) = {} <=> InHourOf(q, h) = {}
         /\ Older(q, p, DayLen, h) =>
              /\ SumFunctionOnSet(ImportIn(e), InDayOf(e, h)) = SumFunctionOnSet(ImportIn(q), InDayOf(q, h))
              /\ SumFunctionOnSet(ExportIn(e), InDayOf(e, h)) = SumFunctionOnSet(ExportIn(q), InDayOf(q, h))
         /\ Older(q, p, WeekLen, h) =>
              SumFunctionOnSet(ImportIn(e), InWeekOf(e, h)) = SumFunctionOnSet(ImportIn(q), InWeekOf(q, h))
<1>1. /\ e \in Seq(Row) /\ Len(e) = Len(q) - p /\ Len(e) \in Nat /\ Len(q) \in Nat /\ p \in Nat
      /\ \A k \in 1 .. Len(e) : p + k \in 1 .. Len(q) /\ e[k] = q[p + k]
  BY EndIs
<1>2. HourLen \in Nat \ {0} /\ DayLen \in Nat \ {0} /\ WeekLen \in Nat \ {0}
  BY UnitsAre
<1>3. \A i \in EnergyIntervals(q) : i \in 1 .. Len(q) /\ q[i].t \in Int
  BY EnergyIs
<1>4. ASSUME NEW k \in EnergyIntervals(e) PROVE p + k \in EnergyIntervals(q) /\ e[k].t = q[p + k].t
  <2>1. k \in 1 .. Len(e) - 1 /\ 0 < Gap(e, k) /\ Gap(e, k) < HalfHour
    BY DEF EnergyIntervals
  <2>2. PICK m \in Nat : m = Len(e)
    BY <1>1, Zenon
  <2>3. k \in 1 .. Len(e) /\ k + 1 \in 1 .. Len(e) /\ p + (k + 1) = (p + k) + 1 /\ p + k \in 1 .. Len(q) - 1
    BY <1>1, <2>1, <2>2
  <2>4. e[k] = q[p + k] /\ e[k + 1] = q[(p + k) + 1]
    BY <1>1, <2>3
  <2>5. Gap(q, p + k) = Gap(e, k)
    BY <2>4 DEF Gap
  <2> QED BY <2>1, <2>3, <2>4, <2>5 DEF EnergyIntervals
<1>5. ASSUME NEW i \in EnergyIntervals(q), i > p PROVE \E k \in EnergyIntervals(e) : p + k = i
  <2>1. i \in 1 .. Len(q) - 1 /\ 0 < Gap(q, i) /\ Gap(q, i) < HalfHour
    BY DEF EnergyIntervals
  <2>2. PICK k \in Int : k = i - p
    BY <1>1, <2>1
  <2>3. k \in 1 .. Len(e) - 1 /\ k \in 1 .. Len(e) /\ k + 1 \in 1 .. Len(e) /\ p + (k + 1) = i + 1 /\ p + k = i
    BY <1>1, <1>5, <2>1, <2>2
  <2>4. e[k] = q[i] /\ e[k + 1] = q[i + 1]
    BY <1>1, <2>3
  <2>5. Gap(q, i) = Gap(e, k)
    BY <2>4 DEF Gap
  <2> QED BY <2>1, <2>3, <2>5 DEF EnergyIntervals
<1>6. ASSUME Older(q, p, HourLen, h)
      PROVE  /\ SumFunctionOnSet(ImportIn(e), InHourOf(e, h)) = SumFunctionOnSet(ImportIn(q), InHourOf(q, h))
             /\ SumFunctionOnSet(ExportIn(e), InHourOf(e, h)) = SumFunctionOnSet(ExportIn(q), InHourOf(q, h))
             /\ InHourOf(e, h) = {} <=> InHourOf(q, h) = {}
  <2>1. PICK W, E : W = InHourOf(e, h) /\ E = InHourOf(q, h)
    OBVIOUS
  <2>2. W \subseteq EnergyIntervals(e) /\ E \subseteq EnergyIntervals(q)
    BY <2>1 DEF InHourOf
  <2>3. \A k \in EnergyIntervals(e) : k \in W <=> p + k \in E
    BY <1>4, <2>1 DEF InHourOf
  <2>4. \A i \in E : i > p
    <3> SUFFICES ASSUME NEW i \in E, ~ (i > p) PROVE FALSE
      OBVIOUS
    <3>1. i \in 1 .. p /\ q[i].t \in Int /\ HourOf(q[i].t) = h
      BY <1>1, <1>3, <2>1 DEF InHourOf
    <3>2. q[i].t < h * HourLen
      BY <1>6, <3>1 DEF Older
    <3> QED BY <1>2, <3>1, <3>2, OlderOutside DEF HourOf
  <2>5. W = {} <=> E = {}
    BY <1>5, <2>2, <2>3, <2>4
  <2> QED BY <2>1, <2>2, <2>3, <2>4, <2>5, SumInEnd
<1>7. ASSUME Older(q, p, DayLen, h)
      PROVE  /\ SumFunctionOnSet(ImportIn(e), InDayOf(e, h)) = SumFunctionOnSet(ImportIn(q), InDayOf(q, h))
             /\ SumFunctionOnSet(ExportIn(e), InDayOf(e, h)) = SumFunctionOnSet(ExportIn(q), InDayOf(q, h))
  <2>1. PICK W, E : W = InDayOf(e, h) /\ E = InDayOf(q, h)
    OBVIOUS
  <2>2. W \subseteq EnergyIntervals(e) /\ E \subseteq EnergyIntervals(q)
    BY <2>1 DEF InDayOf
  <2>3. \A k \in EnergyIntervals(e) : k \in W <=> p + k \in E
    BY <1>4, <2>1 DEF InDayOf
  <2>4. \A i \in E : i > p
    <3> SUFFICES ASSUME NEW i \in E, ~ (i > p) PROVE FALSE
      OBVIOUS
    <3>1. i \in 1 .. p /\ q[i].t \in Int /\ DayOf(q[i].t) = h
      BY <1>1, <1>3, <2>1 DEF InDayOf
    <3>2. q[i].t < h * DayLen
      BY <1>7, <3>1 DEF Older
    <3> QED BY <1>2, <3>1, <3>2, OlderOutside DEF DayOf
  <2> QED BY <2>1, <2>2, <2>3, <2>4, SumInEnd
<1>8. ASSUME Older(q, p, WeekLen, h)
      PROVE  SumFunctionOnSet(ImportIn(e), InWeekOf(e, h)) = SumFunctionOnSet(ImportIn(q), InWeekOf(q, h))
  <2>1. PICK W, E : W = InWeekOf(e, h) /\ E = InWeekOf(q, h)
    OBVIOUS
  <2>2. W \subseteq EnergyIntervals(e) /\ E \subseteq EnergyIntervals(q)
    BY <2>1 DEF InWeekOf
  <2>3. \A k \in EnergyIntervals(e) : k \in W <=> p + k \in E
    BY <1>4, <2>1 DEF InWeekOf
  <2>4. \A i \in E : i > p
    <3> SUFFICES ASSUME NEW i \in E, ~ (i > p) PROVE FALSE
      OBVIOUS
    <3>1. i \in 1 .. p /\ q[i].t \in Int /\ WeekOf(q[i].t) = h
      BY <1>1, <1>3, <2>1 DEF InWeekOf
    <3>2. q[i].t < h * WeekLen
      BY <1>8, <3>1 DEF Older
    <3> QED BY <1>2, <3>1, <3>2, OlderOutside DEF WeekOf
  <2> QED BY <2>1, <2>2, <2>3, <2>4, SumInEnd
<1> QED BY <1>6, <1>7, <1>8

\* The readings of the hour are among the newest n.
Kept(r, n, h) == \A i \in 1 .. Len(r) : i <= n \/ r[i].t = NoTime \/ HourOf(r[i].t) # h

\* Then the hour has the averages of the whole list.
LEMMA HourInNewest ==
  ASSUME NEW r \in Seq(Row), NEW n \in Nat \ {0}, NEW h, Kept(r, n, h), NEW s, s = Newest(n, r)
  PROVE  HourRow(s, h) = HourRow(r, h)
<1>1. /\ s \in Seq(Row) /\ \A i \in 1 .. Len(s) : i \in 1 .. Len(r) /\ i <= n /\ s[i] = r[i]
      /\ \A i \in 1 .. Len(r) : i <= n => i \in 1 .. Len(s)
  BY NewestIs
<1>2. PICK S : S = InHour(s, h)
  OBVIOUS
<1>3. \A i \in S : s[i] = r[i]
  BY <1>1, <1>2 DEF InHour
<1>4. S = InHour(r, h)
  <2>1. \A i \in S : i \in InHour(r, h)
    BY <1>1, <1>2 DEF InHour
  <2>2. \A i \in InHour(r, h) : i \in S
    BY <1>1, <1>2 DEF InHour, Kept
  <2>3. S \subseteq InHour(r, h) /\ InHour(r, h) \subseteq S
    BY <2>1, <2>2
  <2> QED BY <2>3
<1>5. /\ [i \in S |-> s[i].import] = [i \in S |-> r[i].import]
      /\ [i \in S |-> s[i].export] = [i \in S |-> r[i].export]
      /\ [i \in S |-> signed_grid_w(s[i])] = [i \in S |-> signed_grid_w(r[i])]
  BY <1>3
<1> QED BY <1>2, <1>4, <1>5 DEF HourRow, MeanOf, Sum

\* The list of the strongest hours agrees with the graph and with the running hour, on an
\* hour that both lists have.
LEMMA TopAgrees ==
  ASSUME NEW q \in Seq(Row), Timely(q), NEW y, y = q[Len(q)].t, NEW r, r = Reverse(q),
         NEW a \in Nat \ {0}, NEW b \in Nat \ {0}, NEW c \in Nat \ {0},
         NEW top, top = top_hour_rows(Newest(a, r), 8), NEW graph, graph = daily_graph_data(Newest(b, r)),
         NEW view, view = WeekSummary(q, <<>>, c), NEW k \in 1 .. Len(top), Kept(r, a, top[k].hour)
  PROVE  /\ top[k].hour \in DOMAIN graph.rows /\ Kept(r, b, top[k].hour) =>
              SameRatio(graph.rows[top[k].hour].import, top[k].import)
         /\ top[k].hour = HourOf(y) /\ Kept(r, c, top[k].hour) => SameRatio(view.currentHour, top[k].signed)
<1>1. r \in Seq(Row) /\ r[1].t = y /\ Len(r) > 0
  BY NewestFirst
<1>2. PICK s, u, v : s = Newest(a, r) /\ u = Newest(b, r) /\ v = Newest(c, r)
  OBVIOUS
<1>3. s \in Seq(Row) /\ u \in Seq(Row) /\ v \in Seq(Row) /\ v[1] = r[1]
  BY <1>1, <1>2, NewestIs
<1>4. PICK h : h = top[k].hour
  OBVIOUS
<1>5. top[k] = HourRow(r, h)
  <2>1. PICK x \in Hours(s) : top[k] = HourRow(s, x)
    BY <1>2, <1>3, TopAre
  <2>2. x = h
    BY <1>3, <1>4, <2>1, FlowsAre
  <2>3. HourRow(s, h) = HourRow(r, h)
    BY <1>1, <1>2, <1>4, HourInNewest
  <2> QED BY <2>1, <2>2, <2>3
<1>6. \A x : SameRatio(x, x)
  BY DEF SameRatio
<1>7. ASSUME h \in DOMAIN graph.rows, Kept(r, b, h) PROVE SameRatio(graph.rows[h].import, top[k].import)
  <2>1. graph.rows[h].import = HourRow(u, h).import
    BY <1>2, <1>7, SameHours
  <2>2. HourRow(u, h) = HourRow(r, h)
    BY <1>1, <1>2, <1>7, HourInNewest
  <2> QED BY <1>5, <1>6, <2>1, <2>2
<1>8. ASSUME h = HourOf(y), Kept(r, c, h) PROVE SameRatio(view.currentHour, top[k].signed)
  <2>1. view.currentHour = CurrentHour(v)
    <3>1. PICK since, d : since = WeekOf(y) * WeekLen /\ d = Dated(records_since_meter_time(q, <<>>, since, 0))
      OBVIOUS
    <3> QED BY <1>2, <3>1, SummaryIs
  <2>2. CurrentHour(v) = HourRow(v, h).signed
    BY <1>1, <1>3, <1>8, SameHours
  <2>3. HourRow(v, h) = HourRow(r, h)
    BY <1>1, <1>2, <1>8, HourInNewest
  <2> QED BY <1>5, <1>6, <2>1, <2>2, <2>3
<1> QED BY <1>4, <1>7, <1>8

-----------------------------------------------------------------------------
(* The views agree.                                                          *)

\* What the property says of the costs, of all readings but the first p, and the heatmap, of
\* all but the first g.
CostsAgree(q, p, g, rows, view, d, bucket, y) ==
  /\ \A h \in DOMAIN rows : Older(q, p, HourLen, h) =>
       /\ Older(q, g, HourLen, h) /\ WholeHour(d, h) =>
            bucket[h].import = rows[h].import /\ bucket[h].export = rows[h].export
       /\ h = HourOf(y) => view.windows.hour.import = rows[h].import
  /\ Older(q, p, DayLen, DayOf(y)) =>
       (\A h \in DOMAIN rows : h \div HoursPerDay # DayOf(y)) \/ DayAgrees(rows, view)

\* The costs, of all readings but the first p, agree with the heatmap, of all but the first g,
\* and with the windows, of all.
LEMMA CostsDoAgree ==
  ASSUME NEW q \in Seq(Row), Timely(q), NEW y, y = q[Len(q)].t,
         NEW p \in 0 .. Len(q) - 1, NEW e, e = From(q, p),
         NEW g \in 0 .. Len(q) - 1, NEW d, d = From(q, g),
         NEW n \in Nat \ {0}, NEW view, view = WeekSummary(q, <<>>, n),
         NEW iv, NEW quote, NEW rows, NEW own, Table(e, iv, quote, rows, own, y),
         NEW bucket, bucket = [x \in HeatHours(d) |-> Bucket(d, x, Threshold, "TN")]
  PROVE  CostsAgree(q, p, g, rows, view, d, bucket, y)
<1>1. e \in Seq(Row) /\ d \in Seq(Row) /\ Timely(e)
  BY EndIs
<1>2. y \in Int /\ HourOf(y) \in Int /\ DayOf(y) \in Int
  <2>1. y \in Int
    <3>1. PICK r : r = Reverse(q)
      OBVIOUS
    <3> QED BY <3>1, NewestFirst
  <2> QED BY <2>1, DayOfHour
<1>3. /\ view.windows.hour.import = SumFunctionOnSet(ImportIn(q), InHourOf(q, HourOf(y)))
      /\ view.windows.day.import = SumFunctionOnSet(ImportIn(q), InDayOf(q, DayOf(y)))
      /\ view.windows.day.export = SumFunctionOnSet(ExportIn(q), InDayOf(q, DayOf(y)))
  BY WindowsAre
<1>4. ASSUME NEW h \in DOMAIN rows, Older(q, p, HourLen, h)
      PROVE  /\ Older(q, g, HourLen, h) /\ WholeHour(d, h) =>
                  bucket[h].import = rows[h].import /\ bucket[h].export = rows[h].export
             /\ h = HourOf(y) => view.windows.hour.import = rows[h].import
  <2>1. /\ rows[h].import = SumFunctionOnSet(ImportIn(e), InHourOf(e, h))
        /\ rows[h].export = SumFunctionOnSet(ExportIn(e), InHourOf(e, h))
        /\ InHourOf(e, h) # {} /\ h \in Int
    BY HourOfCosts
  <2>2. /\ rows[h].import = SumFunctionOnSet(ImportIn(q), InHourOf(q, h))
        /\ rows[h].export = SumFunctionOnSet(ExportIn(q), InHourOf(q, h))
        /\ InHourOf(q, h) # {}
    BY <1>4, <2>1, EnergyInEnd
  <2>3. ASSUME Older(q, g, HourLen, h), WholeHour(d, h)
        PROVE  bucket[h].import = rows[h].import /\ bucket[h].export = rows[h].export
    <3>1. /\ SumFunctionOnSet(ImportIn(d), InHourOf(d, h)) = SumFunctionOnSet(ImportIn(q), InHourOf(q, h))
          /\ SumFunctionOnSet(ExportIn(d), InHourOf(d, h)) = SumFunctionOnSet(ExportIn(q), InHourOf(q, h))
          /\ InHourOf(d, h) # {}
      BY <2>1, <2>2, <2>3, EnergyInEnd
    <3>2. /\ bucket[h].import = SumFunctionOnSet(ImportIn(d), InHourOf(d, h))
          /\ bucket[h].export = SumFunctionOnSet(ExportIn(d), InHourOf(d, h))
      BY <1>1, <2>1, <2>3, <3>1, HourInMap
    <3> QED BY <2>2, <3>1, <3>2
  <2> QED BY <1>3, <2>2, <2>3
<1>5. ASSUME Older(q, p, DayLen, DayOf(y)), NEW h \in DOMAIN rows, h \div HoursPerDay = DayOf(y)
      PROVE  DayAgrees(rows, view)
  <2>1. DayAgrees(rows, own)
    BY <1>5, DayOfCosts
  <2>2. own = WeekSummary(e, <<>>, 1) /\ y = e[Len(e)].t
    BY DEF Table
  <2>3. /\ own.windows.day.import = SumFunctionOnSet(ImportIn(e), InDayOf(e, DayOf(y)))
        /\ own.windows.day.export = SumFunctionOnSet(ExportIn(e), InDayOf(e, DayOf(y)))
    BY <1>1, <2>2, WindowsAre
  <2>4. /\ own.windows.day.import = view.windows.day.import
        /\ own.windows.day.export = view.windows.day.export
    BY <1>2, <1>3, <1>5, <2>3, EnergyInEnd
  <2> QED BY <2>1, <2>4 DEF DayAgrees
<1> QED BY <1>4, <1>5 DEF CostsAgree

\* The window of the week is that of the readings that the costs have.
SameWeek(own, view) == view.windows.week.import = own.windows.week.import

\* It is, if they reach back to its start.
LEMMA WeeksAgree ==
  ASSUME NEW q \in Seq(Row), Timely(q), NEW y, y = q[Len(q)].t,
         NEW p \in 0 .. Len(q) - 1, NEW e, e = From(q, p), Older(q, p, WeekLen, WeekOf(y)),
         NEW n \in Nat \ {0}, NEW view, view = WeekSummary(q, <<>>, n),
         NEW iv, NEW quote, NEW rows, NEW own, Table(e, iv, quote, rows, own, y)
  PROVE  SameWeek(own, view)
<1>1. own = WeekSummary(e, <<>>, 1) /\ y = e[Len(e)].t /\ e \in Seq(Row) /\ Timely(e)
  BY DEF Table
<1>2. own.windows.week.import = SumFunctionOnSet(ImportIn(e), InWeekOf(e, WeekOf(y)))
  BY <1>1, WindowsAre
<1>3. view.windows.week.import = SumFunctionOnSet(ImportIn(q), InWeekOf(q, WeekOf(y)))
  BY WindowsAre
<1>4. WeekOf(y) \in Int
  <2>1. PICK r : r = Reverse(q)
    OBVIOUS
  <2>2. y \in Int
    BY <2>1, NewestFirst
  <2>3. PICK b \in Nat \ {0} : b = WeekLen
    BY UnitsAre
  <2> QED BY <2>2, <2>3, FloorIs DEF WeekOf
<1> QED BY <1>1, <1>2, <1>3, <1>4, EnergyInEnd DEF SameWeek

\* The readings that a view of the newest n has lost are older than the start it reaches
\* back to.
LEMMA ReachesBack ==
  ASSUME NEW q \in Seq(Row), q = table, Timely(q), NEW n \in Nat \ {0},
         NEW r, r = Reverse(q), NEW h \in Int
  PROVE  /\ \A p \in 0 .. Len(q) - 1 : (\A i \in 1 .. p : i \in 1 .. Len(q) - n) =>
              /\ Reaches(n, h * HourLen) => Older(q, p, HourLen, h)
              /\ Reaches(n, h * DayLen) => Older(q, p, DayLen, h)
              /\ Reaches(n, h * WeekLen) => Older(q, p, WeekLen, h)
         /\ Reaches(n, h * HourLen) => Kept(r, n, h)
<1>1. ASSUME NEW p \in 0 .. Len(q) - 1, \A i \in 1 .. p : i \in 1 .. Len(q) - n
      PROVE  /\ Reaches(n, h * HourLen) => Older(q, p, HourLen, h)
             /\ Reaches(n, h * DayLen) => Older(q, p, DayLen, h)
             /\ Reaches(n, h * WeekLen) => Older(q, p, WeekLen, h)
  BY <1>1 DEF Reaches, Older
<1>2. ASSUME Reaches(n, h * HourLen), NEW i \in 1 .. Len(r), ~ (i <= n), r[i].t # NoTime
      PROVE  HourOf(r[i].t) # h
  <2>1. Len(r) = Len(q) /\ Len(q) \in Nat /\ r[i] = q[Len(q) - i + 1] /\ r[i].t \in Int
    BY NewestFirst, ReverseFacts
  <2>2. Len(q) - i + 1 \in 1 .. Len(q) - n
    BY <1>2, <2>1
  <2>3. r[i].t < h * HourLen
    BY <1>2, <2>1, <2>2 DEF Reaches
  <2> QED BY <2>1, <2>3, UnitsAre, OlderOutside DEF HourOf
<1> QED BY <1>1, <1>2 DEF Kept

\* What the property says of one set of views.
AllAgree(n, d, iv, rows, view, bucket, top, graph, latest) ==
  LET Whole(h) == \A i \in HeatIntervals(d) :
        Segment(d, i, h) > 0 => Segment(d, i, h) = Gap(d, i) /\ Gap(d, i) # HalfHour
  IN /\ \A h \in DOMAIN rows : Reaches(n.cost, h * HourLen) =>
          /\ Reaches(n.graph, h * HourLen) /\ Whole(h) =>
               bucket[h].import = rows[h].import /\ bucket[h].export = rows[h].export
          /\ h = HourOf(latest) => view.windows.hour.import = rows[h].import
     /\ Reaches(n.cost, DayOf(latest) * DayLen) =>
          \/ \A h \in DOMAIN rows : h \div HoursPerDay # DayOf(latest)
          \/ /\ view.windows.day.import = Sum(LAMBDA h : rows[h].import, DOMAIN rows)
             /\ view.windows.day.export = Sum(LAMBDA h : rows[h].export, DOMAIN rows)
     /\ Reaches(n.cost, WeekOf(latest) * WeekLen) =>
          view.windows.week.import =
            Sum(LAMBDA k : IF WeekOf(iv[k].start) = WeekOf(latest) THEN iv[k].import * iv[k].ticks ELSE 0, 1 .. Len(iv))
     /\ \A k \in 1 .. Len(top) : Reaches(n.top, top[k].hour * HourLen) =>
          /\ top[k].hour \in DOMAIN graph.rows /\ Reaches(n.graph, top[k].hour * HourLen) =>
               SameRatio(graph.rows[top[k].hour].import, top[k].import)
          /\ top[k].hour = HourOf(latest) /\ Reaches(n.summary, top[k].hour * HourLen) =>
               SameRatio(view.currentHour, top[k].signed)
     /\ graph.day = DayOf(latest)
     /\ \A h \in DOMAIN rows : \E r \in CapacityRows(iv) :
          r.hour = h /\ SameRatio(r.kw, Ratio(rows[h].import, rows[h].ticks))

\* The views of a table whose readings all have a time, with a clock that goes forward,
\* whatever numbers of rows they are given.
LEMMA ViewsDoAgree ==
  ASSUME TableInv, table # <<>>, Forward, Parses
  PROVE  ViewsAgree
<1>1. PICK q \in Seq(Row) : q = table
  BY DEF TableInv
<1>2. PICK r : r = Reverse(q) /\ r = desc
  BY <1>1 DEF desc, get_all
<1>3. \A i \in 1 .. Len(q) : q[i].t # NoTime
  BY <1>1 DEF Parses
<1>4. Timely(q)
  <2>1. dated = q
    BY <1>2, <1>3, AllDated DEF dated
  <2>2. \A i \in 1 .. Len(q) - 1 : Gap(q, i) > 0
    BY <2>1 DEF Forward
  <2>3. q = Dated(Reverse(q))
    BY <1>3, AllDated
  <2>4. \A a, b \in 1 .. Len(q) : a < b => q[a].t < q[b].t
    BY <2>2, <2>3, ForwardRises
  <2> QED BY <1>1, <1>3, <2>4 DEF Timely
<1>5. PICK y : y = q[Len(q)].t /\ y = desc[1].t /\ y \in Int /\ HourOf(y) \in Int /\ DayOf(y) \in Int /\ WeekOf(y) \in Int
  <2>1. PICK y \in Int : y = q[Len(q)].t /\ y = desc[1].t
    BY <1>2, <1>4, NewestFirst
  <2>2. WeekOf(y) \in Int
    <3>1. PICK b \in Nat \ {0} : b = WeekLen
      BY UnitsAre
    <3> QED BY <2>1, <3>1, FloorIs DEF WeekOf
  <2> QED BY <2>1, <2>2, DayOfHour
<1> SUFFICES ASSUME NEW n \in RowLimits
             PROVE  LET iv == integrated_intervals(table, <<>>, n.cost)
                        recent == all_records_desc(table, <<>>, n.graph)
                    IN AllAgree(n, Dated(recent), iv,
                         build_summary(iv, Genuine, [k \in 1 .. Len(iv) |-> Genuine], 2, 1).rows,
                         WeekSummary(table, <<>>, n.summary),
                         build_load_heatmaps(recent, 7, Threshold, "TN").bucket,
                         top_hour_rows(all_records_desc(table, <<>>, n.top), 8), daily_graph_data(recent), desc[1].t)
  BY DEF ViewsAgree, AllAgree
<1>6. n.summary \in Nat \ {0} /\ n.top \in Nat \ {0} /\ n.graph \in Nat \ {0} /\ n.cost \in Nat \ {0}
  BY ViewsAssumption
<1>7. PICK p \in 0 .. Len(q) - 1 : /\ Newest(n.cost, r) = Reverse(From(q, p))
                                   /\ \A i \in 1 .. p : i \in 1 .. Len(q) - n.cost
  BY <1>2, <1>4, <1>6, NewestIsEnd
<1>8. PICK g \in 0 .. Len(q) - 1 : /\ Newest(n.graph, r) = Reverse(From(q, g))
                                   /\ \A i \in 1 .. g : i \in 1 .. Len(q) - n.graph
  BY <1>2, <1>4, <1>6, NewestIsEnd
<1>9. PICK e, d : e = From(q, p) /\ d = From(q, g)
  OBVIOUS
<1>10. /\ e \in Seq(Row) /\ Timely(e) /\ y = e[Len(e)].t
       /\ d \in Seq(Row) /\ Timely(d) /\ y = d[Len(d)].t
  BY <1>4, <1>5, <1>9, EndIs
<1>11. PICK iv : iv = integrated_intervals(q, <<>>, n.cost)
  OBVIOUS
<1>12. iv = integrated_intervals(e, <<>>, 0)
  <2>1. all_records_desc(q, <<>>, n.cost) = all_records_desc(e, <<>>, 0)
    BY <1>2, <1>6, <1>7, <1>9 DEF all_records_desc, get_recent, get_all
  <2> QED BY <1>11, <2>1 DEF integrated_intervals
<1>13. PICK recent : recent = all_records_desc(q, <<>>, n.graph) /\ recent = Newest(n.graph, r)
                     /\ recent = Reverse(d) /\ Dated(recent) = d
  <2>1. all_records_desc(q, <<>>, n.graph) = Newest(n.graph, r)
    BY <1>2, <1>6 DEF all_records_desc, get_recent, get_all
  <2>2. \A i \in 1 .. Len(d) : d[i].t # NoTime
    BY <1>10 DEF Timely
  <2>3. Dated(Reverse(d)) = d
    BY <1>10, <2>2, AllDated
  <2> QED BY <1>8, <1>9, <2>1, <2>3
<1>14. PICK quote : quote = [k \in 1 .. Len(iv) |-> Genuine]
  OBVIOUS
<1>15. PICK rows, view, own, map : /\ rows = build_summary(iv, Genuine, quote, 2, 1).rows
                                 /\ view = WeekSummary(q, <<>>, n.summary)
                                 /\ own = WeekSummary(e, <<>>, 1)
                                 /\ map = build_load_heatmaps(recent, 7, Threshold, "TN")
  OBVIOUS
<1>16. Table(e, iv, quote, rows, own, y)
  BY <1>10, <1>12, <1>15 DEF Table
<1>17. map.bucket = [x \in HeatHours(d) |-> Bucket(d, x, Threshold, "TN")]
  BY <1>13, <1>15, MapIs
<1>18. CostsAgree(q, p, g, rows, view, d, map.bucket, y)
  <2>1. PICK bucket : bucket = map.bucket
    OBVIOUS
  <2>2. PICK m \in Nat \ {0} : m = n.summary
    BY <1>6
  <2>3. view = WeekSummary(q, <<>>, m)
    BY <1>15, <2>2
  <2>4. bucket = [x \in HeatHours(d) |-> Bucket(d, x, Threshold, "TN")]
    BY <1>17, <2>1
  <2> HIDE <1>17
  <2>5. CostsAgree(q, p, g, rows, view, d, bucket, y)
    BY <1>4, <1>5, <1>9, <1>16, <2>3, <2>4, CostsDoAgree
  <2> QED BY <2>1, <2>5
<1>19. \A h \in DOMAIN rows : h \in Int
  BY <1>16, HourOfCosts
<1>20. \A h \in Int :
         /\ Reaches(n.cost, h * HourLen) => Older(q, p, HourLen, h)
         /\ Reaches(n.cost, h * DayLen) => Older(q, p, DayLen, h)
         /\ Reaches(n.cost, h * WeekLen) => Older(q, p, WeekLen, h)
         /\ Reaches(n.graph, h * HourLen) => Older(q, g, HourLen, h)
         /\ Reaches(n.graph, h * HourLen) => Kept(r, n.graph, h)
         /\ Reaches(n.top, h * HourLen) => Kept(r, n.top, h)
         /\ Reaches(n.summary, h * HourLen) => Kept(r, n.summary, h)
  <2>1. PICK a, b, c, m : a = n.summary /\ b = n.top /\ c = n.graph /\ m = n.cost
    OBVIOUS
  <2> SUFFICES ASSUME NEW h \in Int
               PROVE  /\ Reaches(m, h * HourLen) => Older(q, p, HourLen, h)
                      /\ Reaches(m, h * DayLen) => Older(q, p, DayLen, h)
                      /\ Reaches(m, h * WeekLen) => Older(q, p, WeekLen, h)
                      /\ Reaches(c, h * HourLen) => Older(q, g, HourLen, h)
                      /\ Reaches(c, h * HourLen) => Kept(r, c, h)
                      /\ Reaches(b, h * HourLen) => Kept(r, b, h)
                      /\ Reaches(a, h * HourLen) => Kept(r, a, h)
    BY <2>1
  <2>2. a \in Nat \ {0} /\ b \in Nat \ {0} /\ c \in Nat \ {0} /\ m \in Nat \ {0}
    BY <1>6, <2>1
  <2>3. /\ Reaches(m, h * HourLen) => Older(q, p, HourLen, h)
        /\ Reaches(m, h * DayLen) => Older(q, p, DayLen, h)
        /\ Reaches(m, h * WeekLen) => Older(q, p, WeekLen, h)
    BY <1>1, <1>2, <1>4, <1>7, <2>1, <2>2, ReachesBack
  <2>4. /\ Reaches(c, h * HourLen) => Older(q, g, HourLen, h)
        /\ Reaches(c, h * HourLen) => Kept(r, c, h)
    BY <1>1, <1>2, <1>4, <1>8, <2>1, <2>2, ReachesBack
  <2>5. Reaches(b, h * HourLen) => Kept(r, b, h)
    BY <1>1, <1>2, <1>4, <2>2, ReachesBack
  <2>6. Reaches(a, h * HourLen) => Kept(r, a, h)
    BY <1>1, <1>2, <1>4, <2>2, ReachesBack
  <2> QED BY <2>3, <2>4, <2>5, <2>6
<1>21. ASSUME NEW h \in DOMAIN rows, Reaches(n.cost, h * HourLen)
       PROVE  /\ Reaches(n.graph, h * HourLen) /\ WholeHour(d, h) =>
                   map.bucket[h].import = rows[h].import /\ map.bucket[h].export = rows[h].export
              /\ h = HourOf(y) => view.windows.hour.import = rows[h].import
  BY <1>18, <1>19, <1>20, <1>21 DEF CostsAgree
<1>22. ASSUME Reaches(n.cost, DayOf(y) * DayLen)
       PROVE  (\A h \in DOMAIN rows : h \div HoursPerDay # DayOf(y)) \/ DayAgrees(rows, view)
  BY <1>5, <1>18, <1>20, <1>22 DEF CostsAgree
<1> DEFINE Weekly == [k \in 1 .. Len(iv) |-> IF WeekOf(iv[k].start) = WeekOf(y) THEN iv[k].import * iv[k].ticks ELSE 0]
<1>23. ASSUME Reaches(n.cost, WeekOf(y) * WeekLen)
       PROVE  view.windows.week.import = SumFunctionOnSet(Weekly, 1 .. Len(iv))
  <2>1. PICK F : F = Weekly
    OBVIOUS
  <2>2. PICK m \in Nat \ {0} : m = n.summary
    BY <1>6
  <2>3. Older(q, p, WeekLen, WeekOf(y)) /\ view = WeekSummary(q, <<>>, m)
    BY <1>5, <1>15, <1>20, <1>23, <2>2
  <2>4. y = q[Len(q)].t
    BY <1>5
  <2>5. e = From(q, p)
    BY <1>9
  <2>6. own.windows.week.import = SumFunctionOnSet(F, 1 .. Len(iv))
    BY <1>16, <2>1, WeekOfIntervals
  <2> HIDE DEF Weekly
  <2>7. SameWeek(own, view)
    BY <1>4, <1>16, <2>3, <2>4, <2>5, WeeksAgree
  <2> QED BY <2>1, <2>6, <2>7 DEF SameWeek
<1>24. PICK top, graph : top = top_hour_rows(Newest(n.top, r), 8) /\ graph = daily_graph_data(recent)
  OBVIOUS
<1>25. top = top_hour_rows(all_records_desc(q, <<>>, n.top), 8)
  BY <1>2, <1>6, <1>24 DEF all_records_desc, get_recent, get_all
<1>26. ASSUME NEW k \in 1 .. Len(top), Reaches(n.top, top[k].hour * HourLen)
       PROVE  /\ top[k].hour \in DOMAIN graph.rows /\ Reaches(n.graph, top[k].hour * HourLen) =>
                   SameRatio(graph.rows[top[k].hour].import, top[k].import)
              /\ top[k].hour = HourOf(y) /\ Reaches(n.summary, top[k].hour * HourLen) =>
                   SameRatio(view.currentHour, top[k].signed)
  <2>1. top[k].hour \in Int
    <3>1. PICK s : s = Newest(n.top, r) /\ s \in Seq(Row)
      <4>1. r \in Seq(Row) /\ Len(r) > 0
        <5>1. r \in Seq(Row) /\ Len(r) = Len(q)
          BY <1>2, ReverseFacts
        <5>2. q # <<>> /\ Len(q) \in Nat
          BY <1>4 DEF Timely
        <5> QED BY <5>1, <5>2, EmptySeq
      <4>2. PICK m \in Nat \ {0} : m = n.top
        BY <1>6
      <4>3. Newest(m, r) \in Seq(Row)
        BY <4>1, NewestIs
      <4> QED BY <4>2, <4>3
    <3>2. PICK x \in Hours(s) : top[k] = HourRow(s, x)
      BY <1>24, <3>1, TopAre
    <3> QED BY <3>1, <3>2, FlowsAre
  <2>2. PICK a, b, c \in Nat \ {0} : a = n.top /\ b = n.graph /\ c = n.summary
    BY <1>6
  <2>3. PICK h \in Int : h = top[k].hour
    BY <2>1
  <2>4. /\ Kept(r, a, h)
        /\ Reaches(n.graph, h * HourLen) => Kept(r, b, h)
        /\ Reaches(n.summary, h * HourLen) => Kept(r, c, h)
    BY <1>20, <1>26, <2>2, <2>3
  <2>5. top = top_hour_rows(Newest(a, r), 8) /\ graph = daily_graph_data(Newest(b, r)) /\ view = WeekSummary(q, <<>>, c)
    BY <1>13, <1>15, <1>24, <2>2
  <2>6. Kept(r, a, top[k].hour)
    BY <2>3, <2>4
  <2>7. /\ top[k].hour \in DOMAIN graph.rows /\ Kept(r, b, top[k].hour) =>
             SameRatio(graph.rows[top[k].hour].import, top[k].import)
        /\ top[k].hour = HourOf(y) /\ Kept(r, c, top[k].hour) => SameRatio(view.currentHour, top[k].signed)
    BY <1>2, <1>4, <1>5, <2>5, <2>6, TopAgrees
  <2> QED BY <2>3, <2>4, <2>7
<1>27. graph.day = DayOf(y)
  BY <1>10, <1>13, <1>24, GraphIsOfToday
<1>28. \A h \in DOMAIN rows : \E x \in CapacityRows(iv) : x.hour = h /\ SameRatio(x.kw, Ratio(rows[h].import, rows[h].ticks))
  <2>1. iv \in Seq(Interval)
    BY <1>10, <1>12, IntervalsOf
  <2> QED BY <1>15, <2>1, CapacityHours
<1>29. AllAgree(n, d, iv, rows, view, map.bucket, top, graph, y)
  <2>1. Reaches(n.cost, WeekOf(y) * WeekLen) =>
          view.windows.week.import = Sum(LAMBDA k : IF WeekOf(iv[k].start) = WeekOf(y)
                                                    THEN iv[k].import * iv[k].ticks ELSE 0, 1 .. Len(iv))
    BY <1>23 DEF Sum
  <2>2. Reaches(n.cost, DayOf(y) * DayLen) =>
          \/ \A h \in DOMAIN rows : h \div HoursPerDay # DayOf(y)
          \/ /\ view.windows.day.import = Sum(LAMBDA h : rows[h].import, DOMAIN rows)
             /\ view.windows.day.export = Sum(LAMBDA h : rows[h].export, DOMAIN rows)
    BY <1>22 DEF DayAgrees, Sum
  <2> HIDE DEF Weekly
  <2> QED BY <1>21, <2>1, <2>2, <1>26, <1>27, <1>28 DEF AllAgree, WholeHour
<1> HIDE DEF Weekly
<1> QED BY <1>1, <1>5, <1>11, <1>13, <1>14, <1>15, <1>24, <1>25, <1>29

\* For any readings, any calendar and any numbers of rows that the views are given: the energy
\* of an hour, the day and the week is the same in the windows, the costs, the intervals, the
\* capacity step and, for an hour that no interval crosses, the heatmap, wherever the rows of
\* both reach back to its start; and so are the averages of an hour in the list, the graph and
\* the summary (analysis.py:284, 349, 442, 470, 690; cost_service.py:17, 79;
\* state_parts/analysis.py:65-110, cost.py:42).
THEOREM ViewsConsistent == Spec => []ViewsAgree
<1>1. TableInv => ViewsAgree
  <2>1. ASSUME ~ (table # <<>> /\ Forward /\ Parses) PROVE ViewsAgree
    BY <2>1 DEF ViewsAgree
  <2> QED BY <2>1, ViewsDoAgree
<1>2. Spec => []TableInv
  BY InitTable, TableStep, PTL DEF Spec
<1> QED BY <1>1, <1>2, PTL

-----------------------------------------------------------------------------
(* The panels.  First, facts about remainders.                               *)

\* A multiple of m that lies above -m and up to m.
LEMMA Multiples ==
  ASSUME NEW m \in Nat \ {0}, NEW k \in Int, m * k > -m, m * k <= m
  PROVE  k \in {0, 1}
<1>1. CASE k >= 2
  <2>1. PICK j \in Nat : k = j + 2
    <3>1. k - 2 \in Nat /\ k = (k - 2) + 2
      BY <1>1
    <3> QED BY <3>1
  <2>2. m * k = m * j + 2 * m /\ m * j >= 0
    BY <2>1
  <2> QED BY <2>2
<1>2. CASE k <= -1
  <2>1. PICK j \in Nat : k = -1 - j
    <3>1. -1 - k \in Nat /\ k = -1 - (-1 - k)
      BY <1>2
    <3> QED BY <3>1
  <2>2. m * k = -m - m * j /\ m * j >= 0
    BY <2>1
  <2> QED BY <2>2
<1> QED BY <1>1, <1>2

\* The next remainder.
LEMMA ModNext ==
  ASSUME NEW m \in Nat \ {0}, NEW c \in Nat
  PROVE  /\ c % m \in 0 .. m - 1
         /\ (c + 1) % m = IF (c % m) + 1 = m THEN 0 ELSE (c % m) + 1
<1>1. PICK q \in Int, r \in 0 .. m - 1 : r = c % m /\ c = m * q + r
  OBVIOUS
<1>2. PICK p \in Int, s \in 0 .. m - 1 : s = (c + 1) % m /\ c + 1 = m * p + s
  OBVIOUS
<1>3. m * (p - q) = r + 1 - s
  <2>1. m * p - m * q = r + 1 - s
    <3>1. PICK x \in Int, y \in Int : x = m * p /\ y = m * q
      OBVIOUS
    <3>2. x - y = r + 1 - s
      BY <1>1, <1>2, <3>1
    <3> QED BY <3>1, <3>2
  <2>2. m * (p - q) = m * p - m * q
    OBVIOUS
  <2> QED BY <2>1, <2>2
<1>4. PICK k \in Int : k = p - q
  OBVIOUS
<1>5. k \in {0, 1}
  BY <1>3, <1>4, Multiples
<1>6. CASE k = 0
  BY <1>1, <1>2, <1>3, <1>4, <1>6
<1>7. CASE k = 1
  BY <1>1, <1>2, <1>3, <1>4, <1>7
<1> QED BY <1>5, <1>6, <1>7

\* A remainder is at most the number.
LEMMA ModAtMost ==
  ASSUME NEW m \in Nat \ {0}, NEW c \in Nat
  PROVE  c % m <= c
<1>1. PICK q \in Int, r \in 0 .. m - 1 : r = c % m /\ c = m * q + r
  OBVIOUS
<1>2. q >= 0
  <2> SUFFICES ASSUME q <= -1 PROVE FALSE
    BY <1>1
  <2>1. PICK j \in Nat : q = -1 - j
    <3>1. -1 - q \in Nat /\ q = -1 - (-1 - q)
      OBVIOUS
    <3> QED BY <3>1
  <2>2. m * q = -m - m * j /\ m * j >= 0
    BY <2>1
  <2> QED BY <1>1, <2>2
<1>3. m * q >= 0
  BY <1>2
<1> QED BY <1>1, <1>3

\* A number below m is its own remainder.
LEMMA SmallMod ==
  ASSUME NEW m \in Nat \ {0}, NEW c \in 0 .. m - 1
  PROVE  c % m = c
OBVIOUS

PanelTypes ==
  /\ tab \in Tabs /\ count \in 0 .. TabEvery - 1 /\ age \in [Panels -> 0 .. TabEvery]

AgeInv ==
  /\ \A x \in Always : age[x] <= count % MetricsEvery
  /\ \A x \in Shown(tab) \ (Always \cup {"logs"}) : age[x] <= count

\* A tick moves the counter on; where it does not refresh the metrics it is one further
\* from the last refresh.
LEMMA CountMoves ==
  ASSUME NEW c \in 0 .. TabEvery - 1, NEW n, n = (c + 1) % TabEvery
  PROVE  /\ n \in 0 .. TabEvery - 1
         /\ n # 0 => n = c + 1
         /\ n % MetricsEvery # 0 => n % MetricsEvery = (c % MetricsEvery) + 1
<1>1. TabEvery \in Nat \ {0} /\ MetricsEvery \in Nat \ {0} /\ c \in Nat
  BY PanelsAssumption
<1>2. c % TabEvery = c
  BY <1>1, SmallMod
<1>3. n = IF c + 1 = TabEvery THEN 0 ELSE c + 1
  BY ONLY <1>1, <1>2, ModNext, n = (c + 1) % TabEvery, ZenonT(30)
<1>4. 0 % MetricsEvery = 0
  BY <1>1, SmallMod
<1>5. (c + 1) % MetricsEvery = IF (c % MetricsEvery) + 1 = MetricsEvery THEN 0 ELSE (c % MetricsEvery) + 1
  BY <1>1, ModNext
<1> QED BY <1>1, <1>3, <1>4, <1>5

\* A refresh makes what it fills fresh and lets the rest age by one tick.
LEMMA AgesType ==
  ASSUME PanelTypes, NEW t \in Tabs, NEW passed \in 0 .. 1, NEW panels
  PROVE  /\ Ages(t, passed, panels) \in [Panels -> 0 .. TabEvery]
         /\ \A x \in Panels : /\ x \in panels => Ages(t, passed, panels)[x] = 0
                              /\ x \in Always \cup Shown(t) => Ages(t, passed, panels)[x] <= age[x] + passed
BY PanelsAssumption DEF PanelTypes, Ages

\* What a tab shows is a panel, and the tab's own refresh fills it.
LEMMA ShownPanels ==
  ASSUME NEW t \in Tabs
  PROVE  /\ Shown(t) \subseteq Panels /\ Always \subseteq Panels
         /\ Shown(t) \ (Always \cup {"logs"}) \subseteq refresh_tab_data(t)
BY DEF Tabs, Shown, Panels, Always, refresh_tab_data, refresh_history, refresh_history_summary, refresh_diagnostics,
       refresh_cost, refresh_analysis, refresh_live_metrics

\* A page just opened is fresh.
LEMMA InitAges == InitPanels => PanelTypes /\ AgeInv
<1> SUFFICES ASSUME InitPanels PROVE PanelTypes /\ AgeInv
  OBVIOUS
<1>1. TabEvery \in Nat \ {0} /\ MetricsEvery \in Nat \ {0}
  BY PanelsAssumption
<1>2. PanelTypes
  BY <1>1 DEF InitPanels, PanelTypes, Tabs, Panels, Always
<1>3. 0 % MetricsEvery = 0
  BY <1>1, SmallMod
<1>4. Always \subseteq Panels /\ Shown("live") \subseteq Always
  BY DEF Always, Panels, Shown
<1>5. \A x \in Always : age[x] = 0
  BY <1>4 DEF InitPanels
<1>6. tab = "live" /\ count = 0
  BY DEF InitPanels
<1>7. \A x \in Always : age[x] <= count % MetricsEvery
  BY <1>3, <1>5, <1>6
<1>8. Shown(tab) \ (Always \cup {"logs"}) = {}
  BY <1>4, <1>6
<1> QED BY <1>2, <1>7, <1>8 DEF AgeInv

\* A handler that moves no counter: it may bring panels up to date, and when it opens a
\* tab it refreshes what that shows.
LEMMA HandlerAges ==
  ASSUME PanelTypes, AgeInv, NEW panels, tab' \in Tabs, count' = count,
         age' = Ages(tab', 0, panels),
         tab' = tab \/ refresh_tab_data(tab') \subseteq panels
  PROVE  PanelTypes' /\ AgeInv'
<1>1. /\ Ages(tab', 0, panels) \in [Panels -> 0 .. TabEvery]
      /\ \A x \in Panels : /\ x \in panels => Ages(tab', 0, panels)[x] = 0
                           /\ x \in Always \cup Shown(tab') => Ages(tab', 0, panels)[x] <= age[x] + 0
  BY AgesType
<1>2. /\ Shown(tab') \subseteq Panels /\ Always \subseteq Panels
      /\ Shown(tab') \ (Always \cup {"logs"}) \subseteq refresh_tab_data(tab')
  BY ShownPanels
<1>3. \A x \in Panels : age[x] \in 0 .. TabEvery
  BY DEF PanelTypes
<1>4. TabEvery \in Nat /\ MetricsEvery \in Nat \ {0} /\ count \in Nat /\ count % MetricsEvery \in 0 .. MetricsEvery - 1
  BY PanelsAssumption, ModNext DEF PanelTypes
<1>5. PanelTypes'
  BY <1>1 DEF PanelTypes
<1>6. ASSUME NEW x \in Always PROVE age'[x] <= count' % MetricsEvery
  BY <1>1, <1>2, <1>3, <1>4, <1>6 DEF AgeInv
<1>7. ASSUME NEW x \in Shown(tab') \ (Always \cup {"logs"}) PROVE age'[x] <= count'
  <2>1. CASE x \in panels
    BY <1>1, <1>2, <1>4, <1>7, <2>1
  <2>2. CASE x \notin panels
    <3>1. tab' = tab /\ age[x] <= count
      BY <1>2, <1>7, <2>2 DEF AgeInv
    <3> QED BY <1>1, <1>2, <1>3, <1>4, <1>7, <3>1
  <2> QED BY <2>1, <2>2
<1> QED BY <1>5, <1>6, <1>7 DEF AgeInv

\* Every tick, click and change of tab keeps the ages in bounds.
LEMMA StepAges == PanelTypes /\ AgeInv /\ [NextPanels]_panelVars => PanelTypes' /\ AgeInv'
<1> SUFFICES ASSUME PanelTypes, AgeInv, [NextPanels]_panelVars PROVE PanelTypes' /\ AgeInv'
  OBVIOUS
<1>0. TabEvery \in Nat \ {0} /\ MetricsEvery \in Nat \ {0} /\ count \in 0 .. TabEvery - 1 /\ tab \in Tabs
  BY PanelsAssumption DEF PanelTypes
<1>1. /\ Shown(tab) \subseteq Panels /\ Always \subseteq Panels
      /\ Shown(tab) \ (Always \cup {"logs"}) \subseteq refresh_tab_data(tab)
  BY <1>0, ShownPanels
<1>2. \A x \in Panels : age[x] \in 0 .. TabEvery
  BY DEF PanelTypes
<1>3. CASE LoadPage
  <2> DEFINE panels == sync_from_service(tab, FALSE) \cup refresh_live_metrics \cup refresh_tab_data(tab)
  <2>1. tab' = tab /\ count' = 0 /\ age' = Ages(tab, 0, panels)
    BY <1>3 DEF LoadPage
  <2>2. Always \subseteq panels /\ refresh_tab_data(tab) \subseteq panels
    BY DEF Always, sync_from_service, refresh_live_metrics, refresh_history_summary
  <2> HIDE DEF panels
  <2>3. /\ age' \in [Panels -> 0 .. TabEvery]
        /\ \A x \in Panels : x \in panels => age'[x] = 0
    BY <1>0, <2>1, AgesType
  <2>4. 0 % MetricsEvery = 0
    BY <1>0, SmallMod
  <2> QED BY <1>0, <1>1, <2>1, <2>2, <2>3, <2>4 DEF PanelTypes, AgeInv
<1>4. CASE TickPage
  <2> DEFINE n == (count + 1) % TabEvery
             panels == sync_from_service(tab, FALSE)
                         \cup (IF n % MetricsEvery = 0 THEN refresh_live_metrics ELSE {})
                         \cup (IF n = 0 THEN TabTick(tab) ELSE {})
  <2>1. tab' = tab /\ count' = n /\ age' = Ages(tab, 1, panels)
    BY <1>4 DEF TickPage
  <2>2. /\ n \in 0 .. TabEvery - 1 /\ (n # 0 => n = count + 1)
        /\ n % MetricsEvery # 0 => n % MetricsEvery = (count % MetricsEvery) + 1
    BY <1>0, CountMoves
  <2>3. n % MetricsEvery \in 0 .. MetricsEvery - 1 /\ count % MetricsEvery \in 0 .. MetricsEvery - 1
    BY <1>0, <2>2, ModNext
  <2>4. n % MetricsEvery = 0 => Always \subseteq panels
    BY DEF Always, sync_from_service, refresh_live_metrics, refresh_history_summary
  <2>5. n = 0 => refresh_tab_data(tab) \subseteq panels
    BY DEF TabTick
  <2> HIDE DEF n, panels
  <2>6. /\ age' \in [Panels -> 0 .. TabEvery]
        /\ \A x \in Panels : /\ x \in panels => age'[x] = 0
                             /\ x \in Always \cup Shown(tab) => age'[x] <= age[x] + 1
    BY <1>0, <2>1, AgesType
  <2>7. PanelTypes'
    BY <1>0, <2>1, <2>2, <2>6 DEF PanelTypes
  <2>8. ASSUME NEW x \in Always PROVE age'[x] <= count' % MetricsEvery
    <3>1. x \in Panels /\ age[x] <= count % MetricsEvery
      BY <1>1, <2>8 DEF AgeInv
    <3>2. CASE n % MetricsEvery = 0
      BY <2>1, <2>4, <2>6, <2>8, <3>1, <3>2
    <3>3. CASE n % MetricsEvery # 0
      BY <1>2, <2>1, <2>2, <2>3, <2>6, <2>8, <3>1, <3>3
    <3> QED BY <3>2, <3>3
  <2>9. ASSUME NEW x \in Shown(tab) \ (Always \cup {"logs"}) PROVE age'[x] <= count'
    <3>1. x \in Panels /\ age[x] <= count /\ x \in refresh_tab_data(tab)
      BY <1>1, <2>9 DEF AgeInv
    <3>2. CASE n = 0
      BY <2>1, <2>5, <2>6, <3>1, <3>2
    <3>3. CASE n # 0
      BY <1>0, <1>2, <2>1, <2>2, <2>6, <2>9, <3>1, <3>3
    <3> QED BY <3>2, <3>3
  <2> QED BY <2>1, <2>7, <2>8, <2>9 DEF AgeInv
<1>5. CASE set_current_tab
  BY <1>5, HandlerAges DEF set_current_tab
<1>6. CASE PressButton
  <2>1. PICK panels : age' = Ages(tab, 0, panels) /\ tab' = tab /\ count' = count
    BY <1>6 DEF PressButton
  <2> QED BY <1>0, <2>1, HandlerAges
<1>7. CASE UNCHANGED panelVars
  BY <1>7 DEF panelVars, PanelTypes, AgeInv
<1> QED BY <1>3, <1>4, <1>5, <1>6, <1>7 DEF NextPanels

\* For any rhythm of the refreshes and any tabs and buttons between the ticks, the tab that
\* is open never shows what is older than the rhythm promises.
THEOREM TabFresh == PanelsSpec => []OpenTabIsFresh
<1>1. PanelTypes /\ AgeInv => OpenTabIsFresh
  <2> SUFFICES ASSUME PanelTypes, AgeInv, NEW x \in Shown(tab)
               PROVE  (x \in Always => age[x] < MetricsEvery) /\ (x # "logs" => age[x] < TabEvery)
    BY DEF OpenTabIsFresh
  <2>1. /\ TabEvery \in Nat \ {0} /\ MetricsEvery \in Nat \ {0} /\ count \in 0 .. TabEvery - 1
        /\ count % MetricsEvery \in 0 .. MetricsEvery - 1 /\ count % MetricsEvery <= count
    <3>1. TabEvery \in Nat \ {0} /\ MetricsEvery \in Nat \ {0} /\ count \in 0 .. TabEvery - 1 /\ count \in Nat
      BY PanelsAssumption DEF PanelTypes
    <3>2. count % MetricsEvery \in 0 .. MetricsEvery - 1
      BY <3>1, ModNext
    <3>3. count % MetricsEvery <= count
      BY <3>1, ModAtMost
    <3> QED BY <3>1, <3>2, <3>3
  <2>2. x \in Panels /\ age[x] \in 0 .. TabEvery
    BY ShownPanels DEF PanelTypes
  <2> QED BY <2>1, <2>2 DEF AgeInv
<1> QED BY <1>1, InitAges, StepAges, PTL DEF PanelsSpec

-----------------------------------------------------------------------------
(* The lines.                                                                *)

Readout == [t : Nat, v : Nat]
Value   == Nat \cup LinkStates \cup {"id"} \cup Readout
Kind    == {"FRAME", "byte", "SNAP", "log", "RSP:OK", "RSP:ERROR", "RSP:INFO", "RSP:WIFI", "RSP:MQTT"}
PieceOf == [kind : Kind, commas : Nat, v : Value]
Shows   == [wifi : LinkStates \cup {None}, mqtt : LinkStates \cup {None}, info : {None, "id"}, frame : Nat,
            detail : Readout, snap : Readout]

WireTypes ==
  /\ list \in Nat /\ at \in 0 .. FrameBytes + 2 /\ sentSnap \in Nat
  /\ line \in [pieces : Seq(PieceOf), commas : Nat] /\ shown \in Shows
  /\ asked.copy \in Readout /\ asked.since \in Nat

\* A line that is not complete is the begin of one FRAME or what is left of it, all of it
\* of the newest reading; none is open between two frames or before a SNAP.
LineInv ==
  /\ at \in {0, FrameBytes + 2} => line = NoText
  /\ line.pieces = <<>> => line = NoText
  /\ \A i \in 1 .. Len(line.pieces) :
       line.pieces[i].v = list /\ line.pieces[i].kind \in (IF i = 1 THEN {"FRAME", "byte"} ELSE {"byte"})

\* The copy of a command is of the readings that came while it was under way, or empty;
\* the SNAP the HAN task is to print is the newest reading.
Among(r, from, to) == r.t \in {0} \cup from .. to /\ r.v \in {0} \cup from .. to /\ (from = to => r.t = r.v)

CopyInv ==
  /\ last \in {-1, 0, list} /\ (at # 0 => last # -1) /\ (at = FrameBytes + 2 => last = list)
  /\ asked.pending => asked.since <= list /\ Among(asked.copy, asked.since, list)

SnapInv ==
  /\ ~told.status => shown.snap = Values(sentSnap)
  /\ Among(shown.snap, told.since, told.until)

WireInv == WireTypes /\ LineInv /\ CopyInv /\ SnapInv /\ shown.detail.t = shown.detail.v

\* A piece has the parts it was made of.
LEMMA PieceTypes ==
  /\ \A k \in Kind, c \in Nat, v \in Value :
       Piece(k, c, v) \in PieceOf /\ Piece(k, c, v).kind = k /\ Piece(k, c, v).commas = c /\ Piece(k, c, v).v = v
BY DEF Piece, PieceOf

\* A piece more makes a text one piece longer.
LEMMA JoinedText ==
  ASSUME NEW text \in [pieces : Seq(PieceOf), commas : Nat], NEW p \in PieceOf
  PROVE  /\ Joined(text, p) \in [pieces : Seq(PieceOf), commas : Nat]
         /\ Joined(text, p).pieces = Append(text.pieces, p) /\ Joined(text, p).commas = text.commas + p.commas
<1>1. p.commas \in Nat
  BY DEF PieceOf
<1> QED BY <1>1 DEF Joined

\* What a line that begins within a FRAME can be taken for.
LEMMA ParseFrame ==
  ASSUME NEW text, text.pieces[1].kind \in {"FRAME", "byte"}
  PROVE  \/ parse_line(text) = [kind |-> "frame", v |-> text.pieces[1].v, hex |-> Tail(text.pieces)]
         \/ parse_line(text).kind \in {"raw", "parse_error"}
BY DEF parse_line

\* A line that is not data changes nothing.
LEMMA ApplyNothing ==
  ASSUME NEW s, NEW p, p.kind \in {"raw", "parse_error", "ok", "error"}
  PROVE  apply_parsed(s, p) = s
BY DEF apply_parsed

\* A frame changes the frame number, and the detail when all of it is there.
LEMMA ApplyFrame ==
  ASSUME NEW s \in Shows, NEW n \in Nat, NEW hex,
         \/ parse_kfm001_frame(hex) = [t |-> 0, v |-> 0]
         \/ parse_kfm001_frame(hex) = [t |-> n, v |-> n],
         s.detail.t = s.detail.v
  PROVE  LET r == apply_parsed(s, [kind |-> "frame", v |-> n, hex |-> hex]) IN
         /\ r \in Shows /\ r.snap = s.snap /\ r.detail.t = r.detail.v
<1> DEFINE d == parse_kfm001_frame(hex)
           r == [s EXCEPT !.frame = n, !.detail = IF d.t # 0 THEN d ELSE s.detail]
<1>1. apply_parsed(s, [kind |-> "frame", v |-> n, hex |-> hex]) = r
  BY DEF apply_parsed
<1>2. d \in [t : Nat, v : Nat] /\ d.t = d.v
  OBVIOUS
<1> HIDE DEF d
<1>3. s.detail \in [t : Nat, v : Nat]
  BY DEF Shows, Readout
<1>4. r \in Shows
  BY <1>2, <1>3 DEF Shows, Readout
<1>5. r.snap = s.snap /\ r.detail.t = r.detail.v
  BY <1>2 DEF Shows
<1> HIDE DEF r
<1> QED BY <1>1, <1>4, <1>5

\* The line so far is read as it is.
LEMMA ReadLine ==
  ASSUME WireInv, line # NoText
  PROVE  LET r == apply_parsed(shown, parse_line(line)) IN
         r \in Shows /\ r.snap = shown.snap /\ r.detail.t = r.detail.v
<1> DEFINE P == line.pieces
           H == Tail(P)
<1>1. P \in Seq(PieceOf) /\ P # <<>> /\ Len(P) \in Nat \ {0} /\ list \in Nat
  BY DEF WireInv, WireTypes, LineInv
<1>2. P[1].kind \in {"FRAME", "byte"} /\ P[1].v = list
  BY <1>1 DEF WireInv, LineInv
<1>3. Len(H) = Len(P) - 1 /\ \A i \in 1 .. Len(H) : H[i] = P[i + 1]
  BY <1>1
<1>4. \A i \in 1 .. Len(H) : H[i].v = list
  BY <1>1, <1>3 DEF WireInv, LineInv
<1>5. parse_kfm001_frame(H) \in {[t |-> 0, v |-> 0], [t |-> list, v |-> list]}
  <2>1. CASE Len(H) >= DataBytes
    <3>1. H[1].v = list /\ H[DataBytes].v = list
      BY <1>1, <1>3, <1>4, <2>1, WireAssumption
    <3> QED BY <3>1 DEF parse_kfm001_frame
  <2>2. CASE ~(Len(H) >= DataBytes)
    BY <2>2 DEF parse_kfm001_frame
  <2> QED BY <2>1, <2>2
<1>6. shown \in Shows /\ shown.detail.t = shown.detail.v
  BY DEF WireInv, WireTypes
<1> HIDE DEF P, H
<1>7. CASE parse_line(line) = [kind |-> "frame", v |-> list, hex |-> H]
  BY <1>1, <1>5, <1>6, <1>7, ApplyFrame
<1>8. CASE parse_line(line).kind \in {"raw", "parse_error"}
  BY <1>6, <1>8, ApplyNothing
<1> QED BY <1>2, <1>7, <1>8, ParseFrame DEF P, H

\* A piece of another task ends a line that has begun: nothing in it counts.
LEMMA ReadBroken ==
  ASSUME WireInv, line # NoText, NEW p \in PieceOf, p.kind # "byte"
  PROVE  LET r == apply_parsed(shown, parse_line(Joined(line, p))) IN
         r \in Shows /\ r.snap = shown.snap /\ r.detail.t = r.detail.v
<1> DEFINE P == Append(line.pieces, p)
           H == Tail(P)
<1>1. line.pieces \in Seq(PieceOf) /\ line.pieces # <<>> /\ Len(line.pieces) \in Nat \ {0} /\ list \in Nat
  BY DEF WireInv, WireTypes, LineInv
<1>2. P \in Seq(PieceOf) /\ Len(P) = Len(line.pieces) + 1 /\ P[Len(P)] = p /\ P[1] = line.pieces[1]
  BY <1>1
<1>3. P[1].kind \in {"FRAME", "byte"} /\ P[1].v = list
  BY <1>1, <1>2 DEF WireInv, LineInv
<1>4. Len(H) = Len(P) - 1 /\ Len(H) \in 1 .. Len(H) /\ H[Len(H)] = p
  BY <1>1, <1>2
<1>5. parse_kfm001_frame(H) = [t |-> 0, v |-> 0]
  BY <1>4 DEF parse_kfm001_frame
<1>6. shown \in Shows /\ shown.detail.t = shown.detail.v /\ Joined(line, p).pieces = P
  BY JoinedText DEF WireInv, WireTypes
<1> HIDE DEF P, H
<1>7. CASE parse_line(Joined(line, p)) = [kind |-> "frame", v |-> list, hex |-> H]
  BY <1>1, <1>5, <1>6, <1>7, ApplyFrame
<1>8. CASE parse_line(Joined(line, p)).kind \in {"raw", "parse_error"}
  BY <1>6, <1>8, ApplyNothing
<1> QED BY <1>3, <1>6, <1>7, <1>8, ParseFrame DEF H

\* A line of one piece is read as what it is.
LEMMA ReadWhole ==
  ASSUME WireInv, line = NoText, NEW p \in PieceOf,
         \/ p.kind \in {"RSP:OK", "RSP:ERROR", "log"}
         \/ p.kind = "RSP:INFO" /\ p.v = "id"
         \/ p.kind \in {"RSP:WIFI", "RSP:MQTT"} /\ p.v \in LinkStates
  PROVE  LET r == apply_parsed(shown, parse_line(Joined(line, p))) IN
         r \in Shows /\ r.snap = shown.snap /\ r.detail.t = r.detail.v
<1>1. Joined(line, p).pieces[1] = p
  <2>1. line \in [pieces : Seq(PieceOf), commas : Nat] /\ line.pieces = <<>>
    BY DEF WireInv, WireTypes, NoText
  <2>2. Joined(line, p).pieces = Append(<<>>, p)
    BY <2>1, JoinedText
  <2> QED BY <2>2
<1>2. shown \in Shows /\ shown.detail.t = shown.detail.v
  BY DEF WireInv, WireTypes
<1> DEFINE q == parse_line(Joined(line, p))
<1>3. \/ q.kind \in {"ok", "error", "raw", "parse_error"}
      \/ q.kind = "device_info" /\ q.v = "id"
      \/ q.kind \in {"wifi_status", "mqtt_status"} /\ q.v \in LinkStates
  BY <1>1 DEF parse_line
<1> HIDE DEF q
<1>4. CASE q.kind \in {"ok", "error", "raw", "parse_error"}
  BY <1>2, <1>4, ApplyNothing DEF q
<1>5. CASE q.kind = "device_info" /\ q.v = "id"
  <2>1. apply_parsed(shown, q) = [shown EXCEPT !.info = "id"]
    BY <1>5 DEF apply_parsed
  <2> QED BY <1>2, <2>1 DEF Shows, q
<1>6. CASE q.kind = "wifi_status" /\ q.v \in LinkStates
  <2>1. apply_parsed(shown, q) = [shown EXCEPT !.wifi = q.v]
    BY <1>6 DEF apply_parsed
  <2> QED BY <1>2, <1>6, <2>1 DEF Shows, q
<1>7. CASE q.kind = "mqtt_status" /\ q.v \in LinkStates
  <2>1. apply_parsed(shown, q) = [shown EXCEPT !.mqtt = q.v]
    BY <1>7 DEF apply_parsed
  <2> QED BY <1>2, <1>7, <2>1 DEF Shows, q
<1> QED BY <1>3, <1>4, <1>5, <1>6, <1>7

\* A whole snapshot line shows its own values, or those of the detail of the same reading.
LEMMA ReadSnap ==
  ASSUME WireInv, line = NoText, NEW x \in Readout
  PROVE  LET r == apply_parsed(shown, parse_line(Joined(line, Piece("SNAP", 20, x)))) IN
         /\ r \in Shows /\ r.detail.t = r.detail.v
         /\ r.snap = x \/ r.snap = Values(x.t)
<1> DEFINE p == Piece("SNAP", 20, x)
           q == parse_line(Joined(line, p))
<1>0. line \in [pieces : Seq(PieceOf), commas : Nat] /\ line.pieces = <<>> /\ line.commas = 0
  BY DEF WireInv, WireTypes, NoText
<1>1. p \in PieceOf /\ p.kind = "SNAP" /\ p.commas = 20 /\ p.v = x
  <2>1. x \in Value
    BY DEF Value
  <2> QED BY <2>1, PieceTypes DEF Kind
<1> HIDE DEF p
<1>2. Joined(line, p).pieces[1] = p /\ Joined(line, p).commas = 20
  <2>1. Joined(line, p).pieces = Append(<<>>, p)
    BY <1>0, <1>1, JoinedText
  <2>2. Joined(line, p).commas = 20
    <3>1. Joined(line, p).commas = line.commas + p.commas
      BY DEF Joined
    <3> QED BY <1>0, <1>1, <3>1
  <2> QED BY <2>1, <2>2
<1>3. shown \in Shows /\ shown.detail.t = shown.detail.v
  BY DEF WireInv, WireTypes
<1>4. q.kind = "snapshot" /\ q.v = x
  BY <1>1, <1>2 DEF parse_line
<1> HIDE DEF q
<1> DEFINE v == IF shown.detail.t # 0 /\ shown.detail.t = x.t THEN shown.detail.v ELSE x.v
<1>5. apply_parsed(shown, q) = [shown EXCEPT !.snap = [t |-> x.t, v |-> v]]
  BY <1>4 DEF apply_parsed
<1>6. v \in {x.t, x.v} /\ x.t \in Nat /\ x.v \in Nat /\ x = [t |-> x.t, v |-> x.v]
  BY <1>3 DEF Readout
<1> HIDE DEF v
<1>7. [t |-> x.t, v |-> v] \in Readout /\ ([t |-> x.t, v |-> v] = x \/ [t |-> x.t, v |-> v] = Values(x.t))
  BY <1>6 DEF Readout, Values
<1> DEFINE y == [t |-> x.t, v |-> v]
<1> HIDE DEF y
<1>8. y \in Readout /\ (y = x \/ y = Values(x.t)) /\ apply_parsed(shown, q) = [shown EXCEPT !.snap = y]
  BY <1>5, <1>7 DEF y
<1> QED BY <1>3, <1>8 DEF Shows, p, q

\* At first nothing is shown and nothing is on the wire.
LEMMA InitWireInv == InitWire => WireInv
<1> SUFFICES ASSUME InitWire PROVE WireInv
  OBVIOUS
<1>1. WireTypes
  BY WireAssumption DEF InitWire, WireTypes, NoText, Shows, NoCommand, Values, Readout
<1>2. LineInv
  BY DEF InitWire, LineInv, NoText
<1>3. CopyInv
  BY WireAssumption DEF InitWire, CopyInv, NoCommand
<1>4. SnapInv
  BY DEF InitWire, SnapInv, ByHan, Values, Among
<1> QED BY <1>1, <1>2, <1>3, <1>4 DEF InitWire, WireInv

\* What a command has copied is what there was before, or the reading that came.
LEMMA CopyKept ==
  ASSUME WireInv, NEW n \in {0, list + 1}, CopySnapshot(n), list' = list + 1
  PROVE  /\ asked'.copy \in Readout /\ asked'.since \in Nat
         /\ asked'.pending => asked'.since <= list' /\ Among(asked'.copy, asked'.since, list')
<1>1. PICK t \in {asked.copy.t, n}, v \in {asked.copy.v, n} :
        asked' = IF asked.pending THEN [asked EXCEPT !.copy = [t |-> t, v |-> v]] ELSE asked
  BY DEF CopySnapshot
<1>2. /\ list \in Nat /\ asked.copy.t \in Nat /\ asked.copy.v \in Nat /\ asked.since \in Nat
      /\ asked.copy \in Readout
  BY DEF WireInv, WireTypes, Readout
<1>3. CASE asked.pending
  <2>1. /\ asked.since <= list /\ asked.copy.t \in {0} \cup asked.since .. list
        /\ asked.copy.v \in {0} \cup asked.since .. list
    BY <1>3 DEF WireInv, CopyInv, Among
  <2>2. asked' = [asked EXCEPT !.copy = [t |-> t, v |-> v]]
    BY <1>1, <1>3
  <2>3. asked'.copy \in {[t |-> t, v |-> v], asked.copy} /\ asked'.since = asked.since
    BY <2>2
  <2>4. /\ t \in Nat /\ t \in {0} \cup asked.since .. list + 1
        /\ v \in Nat /\ v \in {0} \cup asked.since .. list + 1
    BY <1>2, <2>1
  <2>5. [t |-> t, v |-> v] \in Readout /\ Among([t |-> t, v |-> v], asked.since, list + 1)
    BY <1>2, <2>1, <2>4 DEF Readout, Among
  <2>6. Among(asked.copy, asked.since, list + 1) /\ asked.since <= list + 1
    BY <1>2, <2>1 DEF Among
  <2> QED BY <1>2, <2>3, <2>5, <2>6
<1>4. CASE ~asked.pending
  BY <1>1, <1>2, <1>4
<1> QED BY <1>3, <1>4

\* Every byte printed, lost or read keeps the invariant.
LEMMA StepWireInv == WireInv /\ [NextWire]_wireVars => WireInv'
<1> SUFFICES ASSUME WireInv, [NextWire]_wireVars PROVE WireInv'
  OBVIOUS
<1>0. /\ list \in Nat /\ at \in 0 .. FrameBytes + 2 /\ FrameBytes \in Nat /\ sentSnap \in Nat
      /\ line \in [pieces : Seq(PieceOf), commas : Nat] /\ shown \in Shows
      /\ asked.copy \in Readout /\ asked.since \in Nat
  BY WireAssumption DEF WireInv, WireTypes
<1>1. NoText \in [pieces : Seq(PieceOf), commas : Nat] /\ NoText.pieces = <<>> /\ Len(NoText.pieces) = 0
  BY DEF NoText
\* A line has been read: between two lines only the reading can be wrong.
<1>2. ASSUME line' = NoText, list' = list, at' \in 0 .. FrameBytes + 2, sentSnap' \in Nat,
             shown' \in Shows, shown'.detail.t = shown'.detail.v,
             asked'.copy \in Readout, asked'.since \in Nat, CopyInv', SnapInv'
      PROVE  WireInv'
  BY <1>0, <1>1, <1>2 DEF WireInv, WireTypes, LineInv
\* What is shown stays as long as no other SNAP arrives.
<1>a. ASSUME shown'.snap = shown.snap, told' = told, sentSnap' = sentSnap PROVE SnapInv'
  BY <1>a DEF WireInv, SnapInv
\* Without a reading or a command, what has been copied stays.
<1>b. ASSUME last' = last, asked' = asked, list' = list, at' \in {0, at} \/ (at # 0 /\ at' \in 1 .. FrameBytes + 1)
      PROVE  CopyInv'
  BY <1>b, <1>0 DEF WireInv, CopyInv
\* A task other than the HAN task prints a line that is no SNAP.
<1>3. ASSUME NEW p \in PieceOf, PutLine(p), list' = list, sentSnap' = sentSnap, told' = told, at' \in {0, at},
             asked'.copy \in Readout, asked'.since \in Nat, CopyInv',
             \/ p.kind \in {"RSP:OK", "RSP:ERROR", "log"}
             \/ p.kind = "RSP:INFO" /\ p.v = "id"
             \/ p.kind \in {"RSP:WIFI", "RSP:MQTT"} /\ p.v \in LinkStates
      PROVE  WireInv'
  <2>1. line' = NoText /\ shown' = apply_parsed(shown, parse_line(Joined(line, p)))
    BY <1>3 DEF PutLine, ingest_raw_line
  <2>2. shown' \in Shows /\ shown'.snap = shown.snap /\ shown'.detail.t = shown'.detail.v
    <3>1. CASE line = NoText
      BY <1>3, <2>1, <3>1, ReadWhole
    <3>2. CASE line # NoText
      BY <1>3, <2>1, <3>2, ReadBroken
    <3> QED BY <3>1, <3>2
  <2>3. SnapInv'
    BY <1>3, <1>a, <2>2
  <2>4. at' \in 0 .. FrameBytes + 2 /\ sentSnap' \in Nat
    BY <1>0, <1>3
  <2> QED BY <1>2, <1>3, <2>1, <2>2, <2>3, <2>4
\* The HAN task prints the head of a frame or a byte of it.
<1>4. ASSUME NEW p \in PieceOf, Put(p), sentSnap' = sentSnap, told' = told, at' \in 1 .. FrameBytes + 1,
             list' \in Nat, p.v = list', asked'.copy \in Readout, asked'.since \in Nat, CopyInv',
             \/ at = 0 /\ p.kind = "FRAME"
             \/ list' = list /\ p.kind = "byte"
      PROVE  WireInv'
  <2>1. line' = Joined(line, p) /\ shown' = shown
    BY <1>4 DEF Put
  <2>2. line' \in [pieces : Seq(PieceOf), commas : Nat] /\ line'.pieces = Append(line.pieces, p)
    BY <1>0, <2>1, JoinedText
  <2>3. /\ line.pieces \in Seq(PieceOf) /\ Len(line.pieces) \in Nat /\ Len(line'.pieces) = Len(line.pieces) + 1
        /\ line'.pieces[Len(line.pieces) + 1] = p
        /\ \A i \in 1 .. Len(line.pieces) : line'.pieces[i] = line.pieces[i]
    BY <1>0, <2>2
  <2>4. at = 0 => Len(line.pieces) = 0
    BY <1>1 DEF WireInv, LineInv
  <2>5. ASSUME NEW i \in 1 .. Len(line'.pieces)
        PROVE  /\ line'.pieces[i].v = list'
               /\ line'.pieces[i].kind \in (IF i = 1 THEN {"FRAME", "byte"} ELSE {"byte"})
    <3>1. CASE i = Len(line.pieces) + 1
      BY <1>4, <2>3, <2>4, <3>1
    <3>2. CASE i \in 1 .. Len(line.pieces)
      BY <1>4, <2>3, <2>4, <3>2 DEF WireInv, LineInv
    <3> QED BY <2>3, <2>5, <3>1, <3>2
  <2>6. at' \notin {0, FrameBytes + 2} /\ line'.pieces # <<>>
    BY <1>0, <1>4, <2>2, <2>3
  <2>7. LineInv'
    BY <2>5, <2>6 DEF LineInv
  <2>8. WireTypes'
    BY <1>0, <1>4, <2>1, <2>2 DEF WireTypes
  <2>9. SnapInv' /\ shown'.detail.t = shown'.detail.v
    BY <1>4, <1>a, <2>1 DEF WireInv
  <2> QED BY <1>4, <2>7, <2>8, <2>9 DEF WireInv
<1>5. CASE on_snapshot
  <2> DEFINE p == Piece("FRAME", 3, list + 1)
  <2>1. p \in PieceOf /\ p.kind = "FRAME" /\ p.v = list + 1
    <3>1. list + 1 \in Nat
      BY <1>0
    <3>2. list + 1 \in Value
      BY <3>1 DEF Value
    <3> QED BY <3>2, PieceTypes DEF Kind
  <2>2. PICK n \in {0, list + 1} : CopySnapshot(n)
    BY <1>5 DEF on_snapshot
  <2>3. /\ at = 0 /\ at' = 1 /\ list' = list + 1 /\ last' = n /\ Put(p)
        /\ sentSnap' = sentSnap /\ told' = told
    BY <1>5, <2>2 DEF on_snapshot, CopySnapshot
  <2>4. /\ asked'.copy \in Readout /\ asked'.since \in Nat
        /\ asked'.pending => asked'.since <= list' /\ Among(asked'.copy, asked'.since, list')
    BY <2>2, <2>3, CopyKept
  <2>5. CopyInv'
    BY <1>0, <2>2, <2>3, <2>4 DEF CopyInv
  <2> HIDE DEF p
  <2> QED BY <1>0, <1>4, <2>1, <2>3, <2>4, <2>5
<1>6. CASE serial_link_send_frame
  <2>0. /\ list' = list /\ last' = last /\ asked' = asked /\ sentSnap' = sentSnap /\ told' = told
    BY <1>6 DEF serial_link_send_frame
  <2>1. CASE at \in 1 .. FrameBytes /\ at' = at + 1 /\ Put(Piece("byte", 0, list))
    <3> DEFINE p == Piece("byte", 0, list)
    <3>1. p \in PieceOf /\ p.kind = "byte" /\ p.v = list
      <4>1. list \in Value
        BY <1>0 DEF Value
      <4> QED BY <4>1, PieceTypes DEF Kind
    <3>2. at # 0 /\ at' \in 1 .. FrameBytes + 1
      BY <1>0, <2>1
    <3>3. CopyInv'
      BY <1>b, <2>0, <3>2
    <3> HIDE DEF p
    <3> QED BY <1>0, <1>4, <2>0, <2>1, <3>1, <3>2, <3>3 DEF p
  <2>2. CASE /\ at = FrameBytes + 1
             /\ at' = IF last = 0 THEN 0 ELSE at + 1
             /\ IF line = NoText THEN UNCHANGED <<line, shown>> ELSE ingest_raw_line(line)
    <3>1. line' = NoText
      BY <2>2 DEF ingest_raw_line
    <3>2. shown' \in Shows /\ shown'.snap = shown.snap /\ shown'.detail.t = shown'.detail.v
      <4>1. CASE line = NoText
        BY <1>0, <2>2, <4>1 DEF WireInv
      <4>2. CASE line # NoText
        BY <2>2, <4>2, ReadLine DEF ingest_raw_line
      <4> QED BY <4>1, <4>2
    <3>3. at' \in 0 .. FrameBytes + 2
      BY <1>0, <2>2
    <3>4. at # 0 /\ (at' # 0 => last # 0)
      BY <1>0, <2>2
    <3>5. CopyInv'
      BY <1>0, <2>0, <3>4 DEF WireInv, CopyInv
    <3>6. SnapInv'
      BY <1>a, <2>0, <3>2
    <3> QED BY <1>0, <1>2, <2>0, <3>1, <3>2, <3>3, <3>5, <3>6
  <2> QED BY <1>6, <2>1, <2>2 DEF serial_link_send_frame
<1>7. CASE serial_link_send_snapshot
  <2>1. line = NoText /\ last = list
    BY <1>7 DEF serial_link_send_snapshot, WireInv, LineInv, CopyInv
  <2>2. /\ line' = NoText /\ at' = 0 /\ sentSnap' = list /\ list' = list /\ last' = last /\ asked' = asked
        /\ told' = ByHan(list)
        /\ shown' = apply_parsed(shown, parse_line(Joined(line, Piece("SNAP", 20, Values(list)))))
    BY <1>7, <2>1 DEF serial_link_send_snapshot, PutLine, ingest_raw_line
  <2>3. Values(list) \in Readout /\ Values(list).t = list
    BY <1>0 DEF Values, Readout
  <2>4. shown' \in Shows /\ shown'.detail.t = shown'.detail.v /\ shown'.snap = Values(list)
    BY <2>1, <2>2, <2>3, ReadSnap
  <2>5. SnapInv'
    BY <1>0, <2>2, <2>4 DEF SnapInv, ByHan, Values, Among
  <2>6. CopyInv'
    BY <1>b, <2>2
  <2>7. at' \in 0 .. FrameBytes + 2 /\ sentSnap' \in Nat /\ asked'.copy \in Readout /\ asked'.since \in Nat
    BY <1>0, <2>2
  <2> QED BY <1>2, <2>2, <2>4, <2>5, <2>6, <2>7
<1>8. CASE GetStatus
  <2>1. /\ last # -1 /\ asked' = [pending |-> TRUE, copy |-> Values(last), since |-> list]
        /\ list' = list /\ at' = at /\ last' = last /\ sentSnap' = sentSnap /\ line' = line
        /\ shown' = shown /\ told' = told
    BY <1>8 DEF GetStatus
  <2>2. last \in {0, list}
    BY <2>1 DEF WireInv, CopyInv
  <2>3. Values(last) \in Readout /\ Among(Values(last), list, list)
    BY <1>0, <2>2 DEF Values, Readout, Among
  <2>4. CopyInv'
    BY <1>0, <2>1, <2>3 DEF WireInv, CopyInv
  <2>5. WireTypes'
    BY <1>0, <2>1, <2>3 DEF WireTypes
  <2>6. LineInv' /\ shown'.detail.t = shown'.detail.v
    BY <2>1 DEF WireInv, LineInv
  <2>7. SnapInv'
    BY <1>a, <2>1
  <2> QED BY <2>4, <2>5, <2>6, <2>7 DEF WireInv
<1>9. CASE PrintStatus
  <2> DEFINE x == asked.copy
             p == Piece("SNAP", 20, x)
  <2>1. /\ asked.pending /\ asked' = NoCommand /\ line' = NoText
        /\ shown' = apply_parsed(shown, parse_line(Joined(line, p)))
        /\ told' = IF line = NoText THEN [status |-> TRUE, since |-> asked.since, until |-> list] ELSE told
        /\ list' = list /\ at' = at /\ last' = last /\ sentSnap' = sentSnap
    BY <1>9 DEF PrintStatus, PutLine, ingest_raw_line
  <2>2. x \in Readout /\ Among(x, asked.since, list)
    BY <1>0, <2>1 DEF WireInv, CopyInv
  <2>3. p \in PieceOf /\ p.kind = "SNAP"
    <3>1. x \in Value
      BY <2>2 DEF Value
    <3> QED BY <3>1, PieceTypes DEF Kind
  <2>4. CopyInv'
    BY <2>1 DEF WireInv, CopyInv, NoCommand
  <2>5. NoCommand.copy \in Readout /\ NoCommand.since \in Nat
    BY DEF NoCommand, Values, Readout
  <2> HIDE DEF x
  <2>6. /\ shown' \in Shows /\ shown'.detail.t = shown'.detail.v
        /\ SnapInv'
    <3>1. CASE line = NoText
      <4>1. /\ shown' \in Shows /\ shown'.detail.t = shown'.detail.v
            /\ shown'.snap = x \/ shown'.snap = Values(x.t)
        BY <2>1, <2>2, <3>1, ReadSnap
      <4>2. Among(shown'.snap, asked.since, list)
        BY <2>2, <4>1 DEF Among, Values
      <4>3. told'.status = TRUE /\ told'.since = asked.since /\ told'.until = list
        BY <2>1, <3>1
      <4> QED BY <4>1, <4>2, <4>3 DEF SnapInv
    <3>2. CASE line # NoText
      <4> HIDE DEF p
      <4>1. shown' \in Shows /\ shown'.snap = shown.snap /\ shown'.detail.t = shown'.detail.v
        BY <2>1, <2>3, <3>2, ReadBroken
      <4> QED BY <1>a, <2>1, <3>2, <4>1
    <3> QED BY <3>1, <3>2
  <2> QED BY <1>0, <1>2, <2>1, <2>4, <2>5, <2>6
<1>10. CASE Reply
  <2>1. PICK p \in {Piece("RSP:OK", 0, 0), Piece("RSP:ERROR", 1, 0), Piece("RSP:INFO", 3, "id"),
                    Piece("log", 0, 0), Piece("log", 1, 0)}
                   \cup {Piece("RSP:WIFI", 2, s) : s \in LinkStates}
                   \cup {Piece("RSP:MQTT", 1, s) : s \in LinkStates} :
          PutLine(p)
    BY <1>10 DEF Reply
  <2>2. /\ p \in PieceOf
        /\ \/ p.kind \in {"RSP:OK", "RSP:ERROR", "log"}
           \/ p.kind = "RSP:INFO" /\ p.v = "id"
           \/ p.kind \in {"RSP:WIFI", "RSP:MQTT"} /\ p.v \in LinkStates
    BY DEF Piece, PieceOf, Value, Kind
  <2>3. /\ list' = list /\ at' = at /\ last' = last /\ asked' = asked
        /\ sentSnap' = sentSnap /\ told' = told
    BY <1>10 DEF Reply
  <2>4. CopyInv'
    BY <1>b, <2>3
  <2> QED BY <1>0, <1>3, <2>1, <2>2, <2>3, <2>4
<1>11. CASE Restart
  <2> DEFINE p == Piece("log", 1, 0)
  <2>1. p \in PieceOf /\ p.kind = "log"
    BY PieceTypes DEF Value, Kind
  <2>2. /\ PutLine(p) /\ list' = list /\ at' = 0 /\ last' = -1 /\ asked' = NoCommand
        /\ sentSnap' = sentSnap /\ told' = told
    BY <1>11 DEF Restart
  <2>3. CopyInv' /\ asked'.copy \in Readout /\ asked'.since \in Nat
    BY <1>0, <2>2 DEF CopyInv, NoCommand, Values, Readout
  <2> HIDE DEF p
  <2> QED BY <1>3, <2>1, <2>2, <2>3
<1>12. CASE ReadTimeout
  <2>1. /\ line # NoText /\ line' = NoText /\ shown' = apply_parsed(shown, parse_line(line))
        /\ list' = list /\ at' = at /\ last' = last /\ asked' = asked /\ sentSnap' = sentSnap /\ told' = told
    BY <1>12 DEF ReadTimeout, ingest_raw_line
  <2>2. shown' \in Shows /\ shown'.snap = shown.snap /\ shown'.detail.t = shown'.detail.v
    BY <2>1, ReadLine
  <2>3. CopyInv' /\ SnapInv'
    BY <1>a, <1>b, <2>1, <2>2
  <2> QED BY <1>0, <1>2, <2>1, <2>2, <2>3
<1>13. CASE UNCHANGED wireVars
  BY <1>13 DEF wireVars, WireInv, WireTypes, LineInv, CopyInv, SnapInv
<1> QED BY <1>5, <1>6, <1>7, <1>8, <1>9, <1>10, <1>11, <1>12, <1>13 DEF NextWire

\* However the two tasks' SNAPs, the other texts, resets and reads that give up mix on the
\* line, and however long the frames are: a reading that is sent is shown until the next
\* SNAP line, and one printed for GET_STATUS shows no values older than its command, and
\* those of one reading unless another came meanwhile.
THEOREM WireAsPrinted == WireSpec => []ShownAsPrinted
<1>1. WireInv => ShownAsPrinted
  BY DEF WireInv, WireTypes, SnapInv, Among, Shows, ShownAsPrinted
<1> QED BY <1>1, InitWireInv, StepWireInv, PTL DEF WireSpec
=============================================================================
