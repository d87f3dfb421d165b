--------------------------- MODULE HttpApi_proofs ---------------------------
(***************************************************************************)
(* Theorems about HttpApi: the framing of the connection, what the update  *)
(* check offers, the pages of the upstream, and the totals computed from   *)
(* them.  The version comparison of semver.py is first shown to be the     *)
(* order of keys by which semver.org defines precedence, a list of checks  *)
(* to answer with the first one that fails, and SumFunction to be a sum:   *)
(* it is defined by a fold, and what a fold computes is shown by looking   *)
(* at a smallest set for which it would not.                               *)
(***************************************************************************)
EXTENDS HttpApi, SequenceTheorems, FiniteSetTheorems, WellFoundedInduction, TLAPS

-----------------------------------------------------------------------------
(* Least elements and first differences                                    *)

LEMMA MinOfTwo ==
  ASSUME NEW m \in Nat, NEW n \in Nat
  PROVE  Min({m, n}) = IF m <= n THEN m ELSE n
BY DEF Min

\* Min is the least number of a set of natural numbers.
LEMMA MinIsLeast ==
  ASSUME NEW S \in SUBSET Nat, S # {}
  PROVE  Min(S) \in S /\ \A n \in S : Min(S) <= n
<1>1. \E m \in S : \A n \in S : m <= n
  <2> DEFINE R == OpToRel(<, Nat)
  <2>1. IsWellFoundedOn(R, Nat)
    BY NatLessThanWellFounded
  <2>2. \A m, n \in Nat : <<m, n>> \in R <=> m < n
    BY DEF OpToRel
  <2> HIDE DEF R
  <2>3. PICK m \in S : \A n \in S : ~(<<n, m>> \in R)
    BY <2>1, WFMin
  <2> SUFFICES ASSUME NEW n \in S PROVE m <= n
    OBVIOUS
  <2>4. m \in Nat /\ n \in Nat /\ <<n, m>> \notin R
    BY <2>3
  <2>5. ~(n < m)
    BY <2>2, <2>4
  <2> QED BY <2>4, <2>5
<1>2. PICK m \in S : \A n \in S : m <= n
  BY <1>1
<1>3. Min(S) = CHOOSE x \in S : \A y \in S : x <= y
  BY DEF Min
<1> QED BY <1>2, <1>3

\* The least element is the one below which there is none.
LEMMA MinIs ==
  ASSUME NEW S \in SUBSET Nat, NEW k \in S, \A n \in S : k <= n
  PROVE  Min(S) = k
<1>1. Min(S) \in S /\ Min(S) <= k
  BY MinIsLeast
<1>2. k <= Min(S) /\ k \in Nat /\ Min(S) \in Nat
  BY <1>1
<1> QED BY <1>1, <1>2

\* The least place where two sequences differ.
LEMMA FirstDifference ==
  ASSUME NEW s \in Seq(Int), NEW t \in Seq(Int),
         NEW k \in 1 .. Len(s), k <= Len(t), s[k] # t[k], \A j \in 1 .. k - 1 : s[j] = t[j]
  PROVE  Differences(s, t) # {} /\ Min(Differences(s, t)) = k
<1>1. DOMAIN s = 1 .. Len(s) /\ DOMAIN t = 1 .. Len(t) /\ Len(s) \in Nat /\ Len(t) \in Nat
  BY LenProperties
<1>2. Differences(s, t) \in SUBSET Nat /\ k \in Differences(s, t)
  BY <1>1 DEF Differences
<1>3. \A n \in Differences(s, t) : k <= n
  BY <1>1 DEF Differences
<1> QED BY <1>2, <1>3, MinIs

-----------------------------------------------------------------------------
(* Sums of finite functions                                                *)

\* The element that a fold over a set takes next, and the function of subsets
\* by which SumFunction is defined.
Pick(s) == CHOOSE x \in s : TRUE
FoldStep(F, g, s) == IF s = {} THEN 0 ELSE F[Pick(s)] + g[s \ {Pick(s)}]
IsFold(F, g, S) == g = [s \in SUBSET S |-> FoldStep(F, g, s)]

LEMMA Unfold == ASSUME NEW F PROVE SumFunction(F) = (CHOOSE g : IsFold(F, g, DOMAIN F))[DOMAIN F]
BY Zenon DEF SumFunction, SumFunctionOnSet, FoldFunctionOnSet, MapThenFoldSet, IsFold, FoldStep, Pick

LEMMA PickIn == ASSUME NEW s, s # {} PROVE Pick(s) \in s
BY Zenon DEF Pick

LEMMA Smaller ==
  ASSUME NEW D, IsFiniteSet(D), NEW s \in SUBSET D, NEW x \in s
  PROVE  /\ s \ {x} \in SUBSET D /\ IsFiniteSet(s)
         /\ Cardinality(s) \in Nat \ {0}
         /\ Cardinality(s \ {x}) = Cardinality(s) - 1
<1>1. IsFiniteSet(s)
  BY FS_Subset
<1> QED BY <1>1, FS_RemoveElement, FS_CardinalityType, FS_EmptySet

\* What holds of the empty set, and of a set when it holds of all sets with
\* one element less, holds of all finite sets.
LEMMA SetInduction ==
  ASSUME NEW D, IsFiniteSet(D), NEW Q \in SUBSET SUBSET D, {} \in Q,
         \A s \in SUBSET D : s # {} /\ (\A x \in s : s \ {x} \in Q) => s \in Q
  PROVE  Q = SUBSET D
<1> DEFINE T == {n \in Nat : \E s \in SUBSET D : s \notin Q /\ Cardinality(s) = n}
<1>1. SUFFICES ASSUME NEW s \in SUBSET D, s \notin Q PROVE FALSE
  OBVIOUS
<1>2. Cardinality(s) \in T
  BY <1>1, FS_Subset, FS_CardinalityType
<1>3. PICK m \in T : \A n \in T : m <= n
  BY <1>2, MinIsLeast
<1>4. PICK r \in SUBSET D : r \notin Q /\ Cardinality(r) = m
  OBVIOUS
<1>5. PICK x \in r : r \ {x} \notin Q
  BY <1>4
<1>6. Cardinality(r \ {x}) = m - 1 /\ m - 1 \in Nat /\ r \ {x} \in SUBSET D
  BY <1>4, Smaller
<1>7. m - 1 \in T
  BY <1>5, <1>6
<1> QED BY <1>3, <1>6, <1>7

LEMMA FoldExists ==
  ASSUME NEW D, IsFiniteSet(D), NEW F \in [D -> Int]
  PROVE  \E g \in [SUBSET D -> Int] : IsFold(F, g, D)
<1> DEFINE Upto(n) == \E g \in [SUBSET D -> Int] :
                        \A s \in SUBSET D : Cardinality(s) <= n => g[s] = FoldStep(F, g, s)
           T == {n \in Nat : ~Upto(n)}
<1>1. Upto(0)
  <2> DEFINE g == [s \in SUBSET D |-> 0]
  <2>1. ASSUME NEW s \in SUBSET D, Cardinality(s) <= 0 PROVE s = {}
    <3>1. SUFFICES ASSUME NEW x \in s PROVE FALSE
      OBVIOUS
    <3>2. Cardinality(s) \in Nat \ {0}
      BY <3>1, Smaller
    <3> QED BY <2>1, <3>2
  <2>2. g \in [SUBSET D -> Int] /\ \A s \in SUBSET D : Cardinality(s) <= 0 => g[s] = FoldStep(F, g, s)
    BY <2>1 DEF FoldStep
  <2> HIDE DEF g
  <2> QED BY <2>2
<1>2. ASSUME NEW n \in Nat, Upto(n) PROVE Upto(n + 1)
  <2>1. PICK g \in [SUBSET D -> Int] :
          \A s \in SUBSET D : Cardinality(s) <= n => g[s] = FoldStep(F, g, s)
    BY <1>2
  <2> DEFINE h == [s \in SUBSET D |-> FoldStep(F, g, s)]
  <2>2. \A s \in SUBSET D : s # {} => /\ Pick(s) \in D /\ s \ {Pick(s)} \in SUBSET D
    BY PickIn
  <2>3. h \in [SUBSET D -> Int]
    BY <2>2 DEF FoldStep
  <2>4. ASSUME NEW s \in SUBSET D, Cardinality(s) <= n + 1 PROVE h[s] = FoldStep(F, h, s)
    <3>1. CASE s = {}
      BY <3>1 DEF FoldStep
    <3>2. CASE s # {}
      <4> DEFINE r == s \ {Pick(s)}
      <4>1. r \in SUBSET D /\ Cardinality(r) <= n
        BY <2>4, <3>2, PickIn, Smaller
      <4>2. g[r] = h[r]
        BY <2>1, <4>1
      <4>3. h[s] = FoldStep(F, g, s)
        OBVIOUS
      <4> HIDE DEF h
      <4> QED BY <3>2, <4>2, <4>3 DEF FoldStep
    <3> QED BY <3>1, <3>2
  <2> HIDE DEF h
  <2> QED BY <2>3, <2>4
<1> HIDE DEF Upto
<1>3. ASSUME T # {} PROVE FALSE
  <2>1. PICK m \in T : \A n \in T : m <= n
    BY <1>3, MinIsLeast
  <2>2. m # 0 /\ m \in Nat /\ ~Upto(m)
    BY <1>1
  <2>3. m - 1 \in Nat /\ m - 1 \notin T
    BY <2>1, <2>2
  <2>4. Upto((m - 1) + 1)
    BY <1>2, <2>3
  <2> QED BY <2>2, <2>4
<1>4. Cardinality(D) \in Nat /\ \A s \in SUBSET D : Cardinality(s) <= Cardinality(D)
  BY FS_Subset, FS_CardinalityType
<1>5. PICK g \in [SUBSET D -> Int] :
        \A s \in SUBSET D : Cardinality(s) <= Cardinality(D) => g[s] = FoldStep(F, g, s)
  BY <1>3, <1>4 DEF Upto
<1>6. g = [s \in SUBSET D |-> FoldStep(F, g, s)]
  BY <1>4, <1>5
<1> QED BY <1>6 DEF IsFold

Fold(F) == CHOOSE g : IsFold(F, g, DOMAIN F)

LEMMA FoldIs ==
  ASSUME NEW D, IsFiniteSet(D), NEW F \in [D -> Int]
  PROVE  /\ SumFunction(F) = Fold(F)[D]
         /\ Fold(F)[{}] = 0
         /\ \A s \in SUBSET D : s # {} =>
              Fold(F)[s] = F[Pick(s)] + Fold(F)[s \ {Pick(s)}]
<1>1. DOMAIN F = D
  OBVIOUS
<1>2. IsFold(F, Fold(F), D)
  BY <1>1, FoldExists, Zenon DEF Fold
<1>3. \A s \in SUBSET D : Fold(F)[s] = FoldStep(F, Fold(F), s)
  BY <1>2, Zenon DEF IsFold
<1>4. SumFunction(F) = Fold(F)[D]
  BY <1>1, Unfold, Zenon DEF Fold
<1> QED BY <1>3, <1>4 DEF FoldStep

\* Partial sums: integers, to which every element adds its value.
LEMMA FoldAdds ==
  ASSUME NEW D, IsFiniteSet(D), NEW F \in [D -> Int]
  PROVE  \A s \in SUBSET D :
           Fold(F)[s] \in Int /\ \A x \in s : Fold(F)[s] = F[x] + Fold(F)[s \ {x}]
<1> DEFINE P(s) == Fold(F)[s]
           Typed == {s \in SUBSET D : P(s) \in Int}
           Q == {s \in SUBSET D : \A x \in s : P(s) = F[x] + P(s \ {x})}
<1> HIDE DEF P
<1>1. P({}) = 0 /\ \A s \in SUBSET D : s # {} => P(s) = F[Pick(s)] + P(s \ {Pick(s)})
  BY ZenonT(30), FoldIs DEF P
<1>2. \A s \in SUBSET D : P(s) \in Int
  <2>1. {} \in Typed
    BY <1>1
  <2>2. ASSUME NEW s \in SUBSET D, s # {}, \A x \in s : s \ {x} \in Typed PROVE s \in Typed
    <3>1. Pick(s) \in s
      BY <2>2, PickIn
    <3>2. F[Pick(s)] \in Int /\ P(s \ {Pick(s)}) \in Int
      BY <2>2, <3>1
    <3> QED BY <1>1, <2>2, <3>2
  <2>3. Typed \in SUBSET SUBSET D
    OBVIOUS
  <2> HIDE DEF Typed
  <2>4. Typed = SUBSET D
    BY <2>1, <2>2, <2>3, SetInduction
  <2> QED BY <2>4 DEF Typed
<1>3. {} \in Q
  OBVIOUS
<1>4. ASSUME NEW s \in SUBSET D, s # {}, \A x \in s : s \ {x} \in Q PROVE s \in Q
  <2> DEFINE y == Pick(s)
  <2>1. y \in s
    BY <1>4, PickIn
  <2>2. P(s) = F[y] + P(s \ {y})
    BY <1>1, <1>4
  <2> HIDE DEF y
  <2>3. ASSUME NEW x \in s, x # y PROVE P(s) = F[x] + P(s \ {x})
    <3> DEFINE r == (s \ {x}) \ {y}
    <3>1. P(s \ {x}) = F[y] + P(r)
      BY <1>4, <2>1, <2>3
    <3>2. (s \ {y}) \ {x} = r
      OBVIOUS
    <3>3. P(s \ {y}) = F[x] + P(r)
      <4> HIDE DEF r
      <4> QED BY <1>4, <2>1, <2>3, <3>2
    <3>4. F[x] \in Int /\ F[y] \in Int /\ P(r) \in Int
      BY <1>2, <2>1
    <3> HIDE DEF r
    <3> QED BY <2>2, <3>1, <3>3, <3>4
  <2> QED BY <2>2, <2>3
<1>5. Q \in SUBSET SUBSET D
  OBVIOUS
<1> HIDE DEF Q
<1>6. Q = SUBSET D
  BY <1>3, <1>4, <1>5, SetInduction
<1> QED BY <1>2, <1>6 DEF P, Q

\* A function of subsets to which every element adds its value is the sum.
LEMMA SumIs ==
  ASSUME NEW D, IsFiniteSet(D), NEW F \in [D -> Int], NEW h, h[{}] = 0,
         \A s \in SUBSET D : \A x \in s : h[s] = F[x] + h[s \ {x}]
  PROVE  SumFunction(F) = h[D]
<1> DEFINE Q == {s \in SUBSET D : h[s] = Fold(F)[s]}
<1>1. {} \in Q
  BY FoldIs
<1>2. ASSUME NEW s \in SUBSET D, s # {}, \A x \in s : s \ {x} \in Q PROVE s \in Q
  <2>1. PICK x \in s : TRUE
    BY <1>2
  <2>2. h[s] = F[x] + h[s \ {x}] /\ h[s \ {x}] = Fold(F)[s \ {x}]
    BY <1>2
  <2>3. Fold(F)[s] = F[x] + Fold(F)[s \ {x}]
    BY FoldAdds
  <2> QED BY <2>2, <2>3
<1>3. Q \in SUBSET SUBSET D
  OBVIOUS
<1> HIDE DEF Q
<1>4. Q = SUBSET D
  BY <1>1, <1>2, <1>3, SetInduction
<1>5. h[D] = Fold(F)[D]
  BY <1>4 DEF Q
<1> QED BY <1>5, FoldIs

LEMMA SumTyped ==
  ASSUME NEW D, IsFiniteSet(D), NEW F \in [D -> Int]
  PROVE  SumFunction(F) \in Int
BY FoldIs, FoldAdds

\* The sum of the sums of two functions.
LEMMA SumPlus ==
  ASSUME NEW D, IsFiniteSet(D), NEW F \in [D -> Int], NEW G \in [D -> Int]
  PROVE  SumFunction([x \in D |-> F[x] + G[x]]) = SumFunction(F) + SumFunction(G)
<1> DEFINE H == [x \in D |-> F[x] + G[x]]
           h == [s \in SUBSET D |-> Fold(F)[s] + Fold(G)[s]]
<1>1. H \in [D -> Int] /\ \A x \in D : H[x] = F[x] + G[x]
  OBVIOUS
<1>2. h[{}] = 0
  BY FoldIs
<1>3. ASSUME NEW s \in SUBSET D, NEW x \in s PROVE h[s] = H[x] + h[s \ {x}]
  <2>1. /\ Fold(F)[s] = F[x] + Fold(F)[s \ {x}] /\ Fold(F)[s \ {x}] \in Int
        /\ Fold(G)[s] = G[x] + Fold(G)[s \ {x}] /\ Fold(G)[s \ {x}] \in Int
    BY FoldAdds
  <2>2. h[s] = Fold(F)[s] + Fold(G)[s] /\ h[s \ {x}] = Fold(F)[s \ {x}] + Fold(G)[s \ {x}]
    OBVIOUS
  <2>3. F[x] \in Int /\ G[x] \in Int
    OBVIOUS
  <2> HIDE DEF h, H
  <2> QED BY <1>1, <2>1, <2>2, <2>3
<1>4. h[D] = SumFunction(F) + SumFunction(G)
  BY FoldIs
<1> HIDE DEF h, H
<1>5. SumFunction(H) = h[D]
  BY ZenonT(30), <1>1, <1>2, <1>3, SumIs
<1> QED BY <1>4, <1>5 DEF H

\* A function that is zero but for one element at most.
LEMMA SumOne ==
  ASSUME NEW D, IsFiniteSet(D), NEW F \in [D -> Int], NEW a, \A x \in D : x # a => F[x] = 0
  PROVE  SumFunction(F) = IF a \in D THEN F[a] ELSE 0
<1> DEFINE h == [s \in SUBSET D |-> IF a \in s THEN F[a] ELSE 0]
<1>1. h[{}] = 0
  OBVIOUS
<1>2. \A s \in SUBSET D : \A x \in s : h[s] = F[x] + h[s \ {x}]
  OBVIOUS
<1>3. h[D] = IF a \in D THEN F[a] ELSE 0
  OBVIOUS
<1> HIDE DEF h
<1> QED BY ZenonT(30), <1>1, <1>2, <1>3, SumIs

LEMMA SumZero ==
  ASSUME NEW D, IsFiniteSet(D)
  PROVE  SumFunction([x \in D |-> 0]) = 0
<1> DEFINE F == [x \in D |-> 0]
<1>1. F \in [D -> Int] /\ \A x \in D : F[x] = 0
  OBVIOUS
<1> HIDE DEF F
<1>2. SumFunction(F) = IF D \in D THEN F[D] ELSE 0
  BY <1>1, SumOne
<1> QED BY <1>1, <1>2 DEF F

\* What is summed up over a set is the sum over its parts, by any function
\* that tells the part of each element.
LEMMA SumParts ==
  ASSUME NEW D, IsFiniteSet(D), NEW F \in [D -> Int], NEW K, IsFiniteSet(K), NEW m \in [D -> K]
  PROVE  SumFunction([k \in K |-> SumFunction([x \in D |-> IF m[x] = k THEN F[x] ELSE 0])])
           = SumFunction(F)
<1> DEFINE Part(k) == [x \in D |-> IF m[x] = k THEN F[x] ELSE 0]
           P(s) == [k \in K |-> Fold(Part(k))[s]]
           h == [s \in SUBSET D |-> SumFunction(P(s))]
<1>1. \A k : Part(k) \in [D -> Int] /\ \A x \in D : Part(k)[x] = IF m[x] = k THEN F[x] ELSE 0
  OBVIOUS
<1> HIDE DEF Part
<1>2. \A s \in SUBSET D : P(s) \in [K -> Int]
  BY <1>1, FoldAdds
<1>3. h[{}] = 0
  <2>1. P({}) = [k \in K |-> 0]
    BY <1>1, FoldIs
  <2> QED BY <2>1, SumZero
<1>4. ASSUME NEW s \in SUBSET D, NEW x \in s PROVE h[s] = F[x] + h[s \ {x}]
  <2> DEFINE One == [k \in K |-> Part(k)[x]]
  <2>1. One \in [K -> Int] /\ m[x] \in K /\ One[m[x]] = F[x] /\ \A k \in K : k # m[x] => One[k] = 0
    BY <1>1
  <2>2. P(s) = [k \in K |-> One[k] + P(s \ {x})[k]]
    <3>1. \A k \in K : Fold(Part(k))[s] = Part(k)[x] + Fold(Part(k))[s \ {x}]
      BY <1>1, FoldAdds
    <3> QED BY <3>1
  <2>3. P(s \ {x}) \in [K -> Int]
    BY <1>2
  <2>4. h[s] = SumFunction(P(s)) /\ h[s \ {x}] = SumFunction(P(s \ {x}))
    OBVIOUS
  <2> HIDE DEF One, P, h
  <2>5. SumFunction(P(s)) = SumFunction(One) + SumFunction(P(s \ {x}))
    <3> DEFINE R == P(s \ {x})
    <3>1. R \in [K -> Int] /\ P(s) = [k \in K |-> One[k] + R[k]]
      BY <2>2, <2>3
    <3> HIDE DEF R
    <3>2. SumFunction([k \in K |-> One[k] + R[k]]) = SumFunction(One) + SumFunction(R)
      BY <2>1, <3>1, SumPlus
    <3>3. SumFunction(P(s)) = SumFunction(One) + SumFunction(R)
      BY <3>1, <3>2
    <3> QED BY <3>3 DEF R
  <2>6. SumFunction(One) = F[x]
    BY <2>1, SumOne
  <2> QED BY <2>4, <2>5, <2>6
<1>5. P(D) = [k \in K |-> SumFunction(Part(k))]
  BY <1>1, FoldIs
<1>6. h[D] = SumFunction(P(D))
  OBVIOUS
<1> HIDE DEF h, P
<1>7. SumFunction(F) = h[D]
  BY ZenonT(30), <1>3, <1>4, SumIs
<1> QED BY <1>5, <1>6, <1>7 DEF Part

\* The sum over a subset.
LEMMA SumSubset ==
  ASSUME NEW D, IsFiniteSet(D), NEW F \in [D -> Int], NEW A \in SUBSET D
  PROVE  SumFunction([x \in A |-> F[x]]) = SumFunction([x \in D |-> IF x \in A THEN F[x] ELSE 0])
<1> DEFINE G == [x \in A |-> F[x]]
           H == [x \in D |-> IF x \in A THEN F[x] ELSE 0]
           h == [s \in SUBSET D |-> Fold(G)[s \intersect A]]
<1>1. /\ G \in [A -> Int] /\ H \in [D -> Int] /\ IsFiniteSet(A)
      /\ \A x \in D : H[x] = IF x \in A THEN G[x] ELSE 0
  BY FS_Subset
<1> HIDE DEF G, H
<1>2. h[{}] = 0
  <2>1. {} \intersect A = {}
    OBVIOUS
  <2> QED BY <1>1, <2>1, FoldIs
<1>3. ASSUME NEW s \in SUBSET D, NEW x \in s PROVE h[s] = H[x] + h[s \ {x}]
  <2>1. CASE x \in A
    <3>1. (s \ {x}) \intersect A = (s \intersect A) \ {x}
      OBVIOUS
    <3>2. Fold(G)[s \intersect A] = G[x] + Fold(G)[(s \intersect A) \ {x}]
      <4>1. s \intersect A \in SUBSET A /\ x \in s \intersect A
        BY <2>1
      <4> DEFINE r == s \intersect A
      <4> HIDE DEF r
      <4>2. \A y \in r : Fold(G)[r] = G[y] + Fold(G)[r \ {y}]
        <5>1. r \in SUBSET A
          BY <4>1 DEF r
        <5> QED BY <1>1, <5>1, FoldAdds
      <4> QED BY <4>1, <4>2 DEF r
    <3> QED BY <1>1, <2>1, <3>1, <3>2
  <2>2. CASE x \notin A
    <3>1. (s \ {x}) \intersect A = s \intersect A
      BY <2>2
    <3>2. Fold(G)[s \intersect A] \in Int
      BY <1>1, FoldAdds
    <3>3. H[x] = 0
      BY <1>1, <2>2
    <3> QED BY <3>1, <3>2, <3>3
  <2> QED BY <2>1, <2>2
<1>4. h[D] = SumFunction(G)
  <2>1. D \intersect A = A
    OBVIOUS
  <2> QED BY <1>1, <2>1, FoldIs
<1> HIDE DEF h
<1>5. SumFunction(H) = h[D]
  BY ZenonT(30), <1>1, <1>2, <1>3, SumIs
<1> QED BY <1>4, <1>5 DEF G, H

\* The sum over what an injection maps to.
LEMMA SumImage ==
  ASSUME NEW D, IsFiniteSet(D), NEW F \in [D -> Int], NEW E, IsFiniteSet(E), NEW G \in [E -> Int],
         NEW m \in [D -> E], \A e \in E : \E x \in D : m[x] = e,
         \A x, y \in D : m[x] = m[y] => x = y, \A x \in D : F[x] = G[m[x]]
  PROVE  SumFunction(G) = SumFunction(F)
<1> DEFINE Part(e) == [x \in D |-> IF m[x] = e THEN F[x] ELSE 0]
<1>1. ASSUME NEW e \in E PROVE SumFunction(Part(e)) = G[e]
  <2>1. PICK y \in D : m[y] = e
    OBVIOUS
  <2>2. Part(e) \in [D -> Int] /\ (\A x \in D : x # y => Part(e)[x] = 0) /\ Part(e)[y] = G[e]
    BY <2>1
  <2> HIDE DEF Part
  <2> QED BY <2>2, SumOne
<1>2. G = [e \in E |-> SumFunction(Part(e))]
  BY <1>1
<1>3. SumFunction([e \in E |-> SumFunction(Part(e))]) = SumFunction(F)
  BY SumParts
<1> QED BY <1>2, <1>3
-----------------------------------------------------------------------------
(* Sequences                                                               *)

\* A set of numbers up to n that contains the first one, and with a number
\* the next one, contains all of them.
LEMMA UptoInduction ==
  ASSUME NEW n \in Nat, NEW Q, n > 0 => 1 \in Q, \A i \in 1 .. n - 1 : i \in Q => i + 1 \in Q
  PROVE  1 .. n \subseteq Q
<1> DEFINE T == {i \in 1 .. n : i \notin Q}
<1> SUFFICES ASSUME T # {} PROVE FALSE
  OBVIOUS
<1>1. PICK m \in T : \A i \in T : m <= i
  <2>1. T \in SUBSET Nat
    OBVIOUS
  <2> HIDE DEF T
  <2> QED BY <2>1, MinIsLeast
<1>2. m \in 1 .. n /\ m \notin Q
  OBVIOUS
<1>3. m # 1
  BY <1>2
<1>4. m - 1 \in 1 .. n - 1 /\ m - 1 \in Q
  BY <1>1, <1>2, <1>3
<1> QED BY <1>2, <1>4

-----------------------------------------------------------------------------
(* Concatenation of a sequence of sequences                                *)

Joint(seqs, g, i) == IF i = 1 THEN seqs[i] ELSE g[i - 1] \o seqs[i]
IsJoint(seqs, g) == g = [i \in 1 .. Len(seqs) |-> Joint(seqs, g, i)]

LEMMA FlattenUnfold ==
  ASSUME NEW seqs, Len(seqs) # 0
  PROVE  FlattenSeq(seqs) = (CHOOSE g : IsJoint(seqs, g))[Len(seqs)]
BY Zenon DEF FlattenSeq, IsJoint, Joint

LEMMA JointExists ==
  ASSUME NEW T, NEW seqs \in Seq(Seq(T))
  PROVE  \E g \in [1 .. Len(seqs) -> Seq(T)] : IsJoint(seqs, g)
<1> DEFINE n == Len(seqs)
           Upto(g, k) == \A i \in 1 .. n : i <= k => g[i] = Joint(seqs, g, i)
           Q == {k \in 1 .. n : \E g \in [1 .. n -> Seq(T)] : Upto(g, k)}
<1>1. n \in Nat /\ \A i \in 1 .. n : seqs[i] \in Seq(T)
  BY LenProperties, ElementOfSeq
<1> HIDE DEF n
<1>2. n > 0 => 1 \in Q
  <2> SUFFICES ASSUME n > 0 PROVE 1 \in Q
    OBVIOUS
  <2> DEFINE g == [i \in 1 .. n |-> seqs[i]]
  <2>1. g \in [1 .. n -> Seq(T)] /\ Upto(g, 1)
    BY <1>1 DEF Joint
  <2>2. 1 \in 1 .. n
    BY <1>1
  <2> HIDE DEF g, Upto
  <2> QED BY <2>1, <2>2
<1>3. ASSUME NEW k \in 1 .. n - 1, k \in Q PROVE k + 1 \in Q
  <2>1. PICK g \in [1 .. n -> Seq(T)] : Upto(g, k)
    BY <1>3
  <2> DEFINE h == [i \in 1 .. n |-> Joint(seqs, g, i)]
  <2>2. h \in [1 .. n -> Seq(T)]
    <3>1. ASSUME NEW i \in 1 .. n PROVE Joint(seqs, g, i) \in Seq(T)
      <4>1. CASE i = 1
        BY <1>1, <4>1 DEF Joint
      <4>2. CASE i # 1
        <5>1. i - 1 \in 1 .. n
          BY <1>1, <4>2
        <5>2. g[i - 1] \in Seq(T) /\ seqs[i] \in Seq(T)
          BY <1>1, <5>1
        <5> QED BY <4>2, <5>2, ConcatProperties DEF Joint
      <4> QED BY <4>1, <4>2
    <3> QED BY <3>1
  <2>3. ASSUME NEW i \in 1 .. n, i <= k + 1 PROVE h[i] = Joint(seqs, h, i)
    <3>1. i # 1 => h[i - 1] = g[i - 1]
      BY <1>1, <2>1, <2>3
    <3>2. h[i] = Joint(seqs, g, i)
      OBVIOUS
    <3> HIDE DEF h
    <3> QED BY <3>1, <3>2 DEF Joint
  <2>4. k + 1 \in 1 .. n
    BY <1>1
  <2> HIDE DEF h
  <2>5. Upto(h, k + 1)
    BY <2>3
  <2> QED BY <2>2, <2>4, <2>5
<1>4. 1 .. n \subseteq Q
  <2> HIDE DEF Q
  <2> QED BY <1>1, <1>2, <1>3, UptoInduction
<1>5. CASE n = 0
  <2> DEFINE g == [i \in 1 .. n |-> Joint(seqs, seqs, i)]
  <2>1. g \in [1 .. n -> Seq(T)] /\ g = [i \in 1 .. n |-> Joint(seqs, g, i)]
    BY <1>5
  <2> HIDE DEF g
  <2> QED BY <2>1 DEF IsJoint, n
<1>6. CASE n # 0
  <2>1. n \in Q
    <3> HIDE DEF Q
    <3> QED BY <1>1, <1>4, <1>6
  <2>2. PICK g \in [1 .. n -> Seq(T)] : Upto(g, n)
    BY <2>1
  <2>3. g = [i \in 1 .. n |-> Joint(seqs, g, i)]
    BY <1>1, <2>2
  <2> QED BY <2>3 DEF IsJoint, n
<1> QED BY <1>5, <1>6

\* The concatenation, as a function of the number of sequences joined.
Joints(seqs) == CHOOSE g : IsJoint(seqs, g)

LEMMA JointsAre ==
  ASSUME NEW T, NEW seqs \in Seq(Seq(T)), NEW i \in 1 .. Len(seqs)
  PROVE  Joints(seqs)[i] = Joint(seqs, Joints(seqs), i)
<1>1. IsJoint(seqs, Joints(seqs))
  BY JointExists, Zenon DEF Joints
<1> QED BY <1>1, Zenon DEF IsJoint

\* Sequences of sequences over T are flattened to a sequence over T.
LEMMA FlattenType ==
  ASSUME NEW T, NEW seqs \in Seq(Seq(T))
  PROVE  FlattenSeq(seqs) \in Seq(T)
<1> DEFINE n == Len(seqs)
           Q == {i \in 1 .. n : Joints(seqs)[i] \in Seq(T)}
<1>1. n \in Nat /\ \A i \in 1 .. n : seqs[i] \in Seq(T)
  BY LenProperties, ElementOfSeq
<1>2. \A i \in 1 .. n : Joints(seqs)[i] = IF i = 1 THEN seqs[i] ELSE Joints(seqs)[i - 1] \o seqs[i]
  BY JointsAre DEF Joint
<1>3. n # 0 => FlattenSeq(seqs) = Joints(seqs)[n]
  BY FlattenUnfold DEF Joints
<1>4. n = 0 => FlattenSeq(seqs) = seqs /\ seqs = <<>>
  BY EmptySeq DEF FlattenSeq
<1> HIDE DEF n
<1>5. n > 0 => 1 \in Q
  BY <1>1, <1>2
<1>6. ASSUME NEW i \in 1 .. n - 1, i \in Q PROVE i + 1 \in Q
  <2>1. i + 1 \in 1 .. n /\ i + 1 # 1 /\ (i + 1) - 1 = i
    BY <1>1
  <2>2. Joints(seqs)[i + 1] = Joints(seqs)[i] \o seqs[i + 1]
    BY <1>2, <2>1
  <2>3. Joints(seqs)[i] \o seqs[i + 1] \in Seq(T)
    BY <1>1, <1>6, <2>1, ConcatProperties
  <2> QED BY <2>1, <2>2, <2>3
<1>7. 1 .. n \subseteq Q
  <2> HIDE DEF Q
  <2> QED BY <1>1, <1>5, <1>6, UptoInduction
<1>8. CASE n = 0
  BY <1>4, <1>8, EmptySeq
<1>9. CASE n # 0
  BY <1>1, <1>3, <1>7, <1>9
<1> QED BY <1>8, <1>9

\* Sequences of one element each are flattened to the sequence of the elements.
LEMMA FlattenOnes ==
  ASSUME NEW T, NEW n \in Nat, NEW e \in [1 .. n -> T]
  PROVE  FlattenSeq([i \in 1 .. n |-> <<e[i]>>]) = e
<1> DEFINE seqs == [i \in 1 .. n |-> <<e[i]>>]
           Firsts(k) == [j \in 1 .. k |-> e[j]]
           Q == {k \in 1 .. n : Joints(seqs)[k] = Firsts(k)}
<1>1. seqs \in Seq(Seq(T)) /\ Len(seqs) = n /\ \A i \in 1 .. n : seqs[i] = <<e[i]>>
  <2>1. \A i \in 1 .. n : <<e[i]>> \in Seq(T)
    OBVIOUS
  <2>2. seqs \in [1 .. n -> Seq(T)]
    BY <2>1
  <2>3. seqs \in Seq(Seq(T))
    BY <2>2, SeqDef
  <2>4. DOMAIN seqs = 1 .. Len(seqs) /\ Len(seqs) \in Nat /\ DOMAIN seqs = 1 .. n
    BY <2>3, LenProperties
  <2>5. Len(seqs) = n
    BY <2>4
  <2> QED BY <2>3, <2>5
<1> HIDE DEF seqs
<1>2. \A i \in 1 .. n : Joints(seqs)[i] = IF i = 1 THEN seqs[i] ELSE Joints(seqs)[i - 1] \o seqs[i]
  BY <1>1, JointsAre DEF Joint
<1>3. n # 0 => FlattenSeq(seqs) = Joints(seqs)[n]
  BY <1>1, FlattenUnfold DEF Joints
<1>4. n > 0 => 1 \in Q
  BY <1>1, <1>2
<1>5. ASSUME NEW k \in 1 .. n - 1, k \in Q PROVE k + 1 \in Q
  <2>1. k + 1 \in 1 .. n /\ k + 1 # 1 /\ (k + 1) - 1 = k
    OBVIOUS
  <2>2. Joints(seqs)[k + 1] = Firsts(k) \o <<e[k + 1]>>
    <3>1. Joints(seqs)[k] = Firsts(k)
      BY <1>5
    <3>2. Joints(seqs)[k + 1] = Joints(seqs)[k] \o seqs[k + 1] /\ seqs[k + 1] = <<e[k + 1]>>
      BY <1>1, <1>2, <2>1
    <3> HIDE DEF Firsts
    <3> QED BY <3>1, <3>2
  <2>3. Firsts(k) \o <<e[k + 1]>> = Firsts(k + 1)
    <3>1. \A j \in 1 .. k + 1 : j \in 1 .. n
      OBVIOUS
    <3>2. Firsts(k) \in Seq(T) /\ Len(Firsts(k)) = k /\ <<e[k + 1]>> \in Seq(T)
      <4>1. Firsts(k) \in [1 .. k -> T] /\ k \in Nat
        BY <3>1
      <4>2. Firsts(k) \in Seq(T)
        BY <4>1, SeqDef
      <4>3. DOMAIN Firsts(k) = 1 .. Len(Firsts(k)) /\ Len(Firsts(k)) \in Nat
        BY <4>2, LenProperties
      <4> QED BY <2>1, <4>1, <4>2, <4>3
    <3>3. Firsts(k + 1) \in Seq(T) /\ Len(Firsts(k + 1)) = k + 1
      <4>1. Firsts(k + 1) \in [1 .. k + 1 -> T] /\ k + 1 \in Nat
        BY <3>1
      <4>2. Firsts(k + 1) \in Seq(T)
        BY <4>1, SeqDef
      <4>3. DOMAIN Firsts(k + 1) = 1 .. Len(Firsts(k + 1)) /\ Len(Firsts(k + 1)) \in Nat
        BY <4>2, LenProperties
      <4> QED BY <4>1, <4>2, <4>3
    <3>4. /\ Firsts(k) \o <<e[k + 1]>> \in Seq(T)
          /\ Len(Firsts(k) \o <<e[k + 1]>>) = k + 1
          /\ \A j \in 1 .. k + 1 : (Firsts(k) \o <<e[k + 1]>>)[j] = IF j <= k THEN Firsts(k)[j] ELSE <<e[k + 1]>>[j - k]
      <4> DEFINE s == Firsts(k)
                 t == <<e[k + 1]>>
      <4>1. s \in Seq(T) /\ t \in Seq(T) /\ Len(s) = k /\ Len(t) = 1
        BY <3>2
      <4> HIDE DEF s, t
      <4>2. s \o t \in Seq(T) /\ Len(s \o t) = k + 1
            /\ \A j \in 1 .. k + 1 : (s \o t)[j] = IF j <= k THEN s[j] ELSE t[j - k]
        <5>1. s \o t \in Seq(T) /\ Len(s \o t) = Len(s) + Len(t)
              /\ \A j \in 1 .. Len(s) + Len(t) : (s \o t)[j] = IF j <= Len(s) THEN s[j] ELSE t[j - Len(s)]
          BY <4>1, ConcatProperties
        <5> QED BY <4>1, <5>1
      <4> QED BY <4>2 DEF s, t
    <3>5. \A j \in 1 .. k + 1 : Firsts(k + 1)[j] = e[j]
      OBVIOUS
    <3>6. \A j \in 1 .. k + 1 : (Firsts(k) \o <<e[k + 1]>>)[j] = e[j]
      <4> SUFFICES ASSUME NEW j \in 1 .. k + 1 PROVE (Firsts(k) \o <<e[k + 1]>>)[j] = e[j]
        OBVIOUS
      <4>1. CASE j <= k
        <5>1. j \in 1 .. k
          BY <4>1
        <5> QED BY <3>4, <4>1, <5>1
      <4>2. CASE ~(j <= k)
        <5>1. j = k + 1 /\ j - k = 1
          BY <4>2
        <5> QED BY <3>4, <4>2, <5>1
      <4> QED BY <4>1, <4>2
    <3> HIDE DEF Firsts
    <3> QED BY <3>3, <3>4, <3>5, <3>6, SeqEqual
  <2> QED BY <2>1, <2>2, <2>3
<1>6. 1 .. n \subseteq Q
  <2> HIDE DEF Q
  <2> QED BY <1>4, <1>5, UptoInduction
<1>7. CASE n = 0
  <2>1. seqs = <<>> /\ e = <<>>
    BY <1>1, <1>7, EmptySeq
  <2> QED BY <1>1, <1>7, <2>1 DEF FlattenSeq, seqs
<1>8. CASE n # 0
  <2>1. Joints(seqs)[n] = Firsts(n)
    BY <1>6, <1>8
  <2>2. Firsts(n) = e
    OBVIOUS
  <2> QED BY <1>3, <1>8, <2>1, <2>2 DEF seqs
<1> QED BY <1>7, <1>8

\* The sequence of a finite set has every element of the set at one place.
LEMMA SetToSeqIn ==
  ASSUME NEW S, IsFiniteSet(S)
  PROVE  /\ Cardinality(S) \in Nat /\ \A i \in 1 .. Cardinality(S) : SetToSeq(S)[i] \in S
         /\ SetToSeq(S) \in Bijection(1 .. Cardinality(S), S)
<1>1. PICK n \in Nat : ExistsBijection(1 .. n, S)
  BY FS_NatBijection
<1>2. Cardinality(S) = n
  BY <1>1, FS_CountingElements
<1> DEFINE I == 1 .. Cardinality(S)
<1>3. \E f \in [I -> S] : IsInjective(f)
  BY <1>1, <1>2 DEF ExistsBijection, Bijection, Injection
<1>4. SetToSeq(S) \in [I -> S] /\ IsInjective(SetToSeq(S))
  BY <1>3 DEF SetToSeq
<1>5. SetToSeq(S) \in Injection(I, S)
  BY <1>4 DEF Injection
<1>6. IsFiniteSet(I) /\ Cardinality(I) = Cardinality(S)
  BY <1>2, FS_Interval
<1>7. SetToSeq(S) \in Surjection(I, S)
  <2> HIDE DEF I
  <2> QED BY <1>5, <1>6, FS_Injection
<1> QED BY <1>2, <1>4, <1>5, <1>7 DEF Bijection
-----------------------------------------------------------------------------
(* The order of versions                                                   *)

LEMMA PreKeyIs ==
  ASSUME NEW p \in Seq(Identifier)
  PROVE  /\ PreKey(p) \in Seq(Int)
         /\ p = <<>> => Len(PreKey(p)) = 1 /\ PreKey(p)[1] = 2 * MaxIdentifier + 3
         /\ p # <<>> => /\ Len(PreKey(p)) = Len(p) + 1
                        /\ PreKey(p)[Len(p) + 1] = 0
                        /\ \A i \in 1 .. Len(p) : PreKey(p)[i] = IdentifierKey(p[i])
<1>1. Len(p) \in Nat /\ \A i \in 1 .. Len(p) : p[i] \in Identifier
  BY ElementOfSeq, LenProperties
<1>2. MaxIdentifier \in Nat
  BY ManifestAssumption
<1>3. \A a \in Identifier : IdentifierKey(a) \in Int
  BY <1>2 DEF Identifier, IdentifierKey
<1>4. CASE p = <<>>
  BY <1>2, <1>4 DEF PreKey
<1>5. CASE p # <<>>
  <2> DEFINE e(i) == IF i > Len(p) THEN 0 ELSE IdentifierKey(p[i])
  <2>1. PreKey(p) = [i \in 1 .. (Len(p) + 1) |-> e(i)]
    BY <1>5 DEF PreKey
  <2>2. \A i \in 1 .. (Len(p) + 1) : e(i) \in Int
    BY <1>1, <1>3
  <2>3. \A i \in 1 .. Len(p) : e(i) = IdentifierKey(p[i])
    BY <1>1
  <2>4. e(Len(p) + 1) = 0
    BY <1>1
  <2> HIDE DEF e
  <2>5. PreKey(p) \in Seq(Int)
    BY <1>1, <2>1, <2>2, IsASeq
  <2>6. Len(PreKey(p)) = Len(p) + 1
    BY <1>1, <2>1
  <2> QED BY <1>1, <1>5, <2>1, <2>3, <2>4, <2>5, <2>6
<1> QED BY <1>4, <1>5

LEMMA IdentifierOrder ==
  ASSUME NEW a \in Identifier, NEW b \in Identifier
  PROVE  /\ IdentifierKey(a) \in 1 .. 2 * MaxIdentifier + 2
         /\ IdLess(a, b) <=> IdentifierKey(a) < IdentifierKey(b)
         /\ a # b => IdentifierKey(a) # IdentifierKey(b)
<1>1. MaxIdentifier \in Nat /\ a.value \in 0 .. MaxIdentifier /\ b.value \in 0 .. MaxIdentifier
      /\ a.numeric \in BOOLEAN /\ b.numeric \in BOOLEAN
  BY ManifestAssumption DEF Identifier
<1>2. a # b => a.value # b.value \/ a.numeric # b.numeric
  BY DEF Identifier
<1> QED BY <1>1, <1>2 DEF IdentifierKey, IdLess

\* The comparison of prereleases is decided by the first difference of keys.
LEMMA PreOrder ==
  ASSUME NEW p \in Seq(Identifier), NEW q \in Seq(Identifier), p # q
  PROVE  \E k \in 1 .. Len(PreKey(p)) :
           /\ k <= Len(PreKey(q)) /\ PreKey(p)[k] # PreKey(q)[k]
           /\ \A j \in 1 .. k - 1 : PreKey(p)[j] = PreKey(q)[j]
           /\ PreLess(p, q) <=> PreKey(p)[k] < PreKey(q)[k]
<1>1. /\ Len(p) \in Nat /\ Len(q) \in Nat /\ MaxIdentifier \in Nat
      /\ DOMAIN p = 1 .. Len(p) /\ DOMAIN q = 1 .. Len(q)
      /\ \A i \in 1 .. Len(p) : p[i] \in Identifier
      /\ \A i \in 1 .. Len(q) : q[i] \in Identifier
  BY ManifestAssumption, ElementOfSeq, LenProperties
<1>2. (p # <<>> => Len(p) > 0) /\ (q # <<>> => Len(q) > 0)
  BY EmptySeq
<1>3. CASE p = <<>> \/ q = <<>>
  <2>1. PreKey(p)[1] # PreKey(q)[1] /\ (PreLess(p, q) <=> PreKey(p)[1] < PreKey(q)[1])
    <3>1. CASE p = <<>>
      <4>1. q # <<>> /\ q[1] \in Identifier /\ PreKey(q)[1] = IdentifierKey(q[1])
        BY <1>1, <1>2, <3>1, PreKeyIs
      <4>2. PreKey(p)[1] = 2 * MaxIdentifier + 3
        BY <3>1, PreKeyIs
      <4>3. IdentifierKey(q[1]) \in 1 .. 2 * MaxIdentifier + 2
        BY <4>1, IdentifierOrder
      <4>4. PreLess(p, q) <=> p # <<>>
        BY <3>1, <4>1 DEF PreLess
      <4> QED BY <1>1, <3>1, <4>1, <4>2, <4>3, <4>4
    <3>2. CASE q = <<>>
      <4>1. p # <<>> /\ p[1] \in Identifier /\ PreKey(p)[1] = IdentifierKey(p[1])
        BY <1>1, <1>2, <3>2, PreKeyIs
      <4>2. PreKey(q)[1] = 2 * MaxIdentifier + 3
        BY <3>2, PreKeyIs
      <4>3. IdentifierKey(p[1]) \in 1 .. 2 * MaxIdentifier + 2
        BY <4>1, IdentifierOrder
      <4>4. PreLess(p, q) <=> p # <<>>
        BY <3>2, <4>1 DEF PreLess
      <4> QED BY <1>1, <3>2, <4>1, <4>2, <4>3, <4>4
    <3> QED BY <1>3, <3>1, <3>2
  <2>2. 1 \in 1 .. Len(PreKey(p)) /\ 1 <= Len(PreKey(q))
    BY SMTT(30), <1>1, <1>2, PreKeyIs
  <2>3. \A j \in 1 .. 1 - 1 : PreKey(p)[j] = PreKey(q)[j]
    OBVIOUS
  <2> QED BY <2>1, <2>2, <2>3
<1>4. CASE p # <<>> /\ q # <<>> /\ Differences(p, q) = {}
  <2> DEFINE k == IF Len(p) < Len(q) THEN Len(p) + 1 ELSE Len(q) + 1
  <2>1. \A i \in 1 .. Len(p) : i <= Len(q) => p[i] = q[i]
    BY <1>1, <1>4 DEF Differences
  <2>2. Len(p) # Len(q)
    <3> SUFFICES ASSUME Len(p) = Len(q) PROVE FALSE
      OBVIOUS
    <3>1. \A i \in 1 .. Len(p) : p[i] = q[i]
      BY <1>1, <2>1
    <3> QED BY <3>1, SeqEqual
  <2>3. PreLess(p, q) <=> Len(p) < Len(q)
    BY <1>4 DEF PreLess
  <2>4. k \in 1 .. Len(PreKey(p)) /\ k <= Len(PreKey(q))
    BY <1>1, <1>4, PreKeyIs
  <2>5. \A j \in 1 .. k - 1 : PreKey(p)[j] = PreKey(q)[j]
    <3>1. \A i \in 1 .. Len(p) : PreKey(p)[i] = IdentifierKey(p[i])
      BY <1>4, PreKeyIs
    <3>2. \A i \in 1 .. Len(q) : PreKey(q)[i] = IdentifierKey(q[i])
      BY <1>4, PreKeyIs
    <3>3. \A j \in 1 .. k - 1 : j \in 1 .. Len(p) /\ j \in 1 .. Len(q) /\ p[j] = q[j]
      BY <1>1, <2>1
    <3> HIDE DEF k
    <3> QED BY <3>1, <3>2, <3>3
  <2>6. PreKey(p)[k] # PreKey(q)[k] /\ (PreKey(p)[k] < PreKey(q)[k] <=> Len(p) < Len(q))
    <3>1. CASE Len(p) < Len(q)
      <4>1. PreKey(p)[k] = 0 /\ q[k] \in Identifier /\ PreKey(q)[k] = IdentifierKey(q[k])
        <5>1. k = Len(p) + 1 /\ k \in 1 .. Len(q)
          BY <1>1, <3>1
        <5>2. PreKey(p)[Len(p) + 1] = 0
          BY <1>4, PreKeyIs
        <5>3. \A i \in 1 .. Len(q) : PreKey(q)[i] = IdentifierKey(q[i])
          BY <1>4, PreKeyIs
        <5>4. \A i \in 1 .. Len(q) : q[i] \in Identifier
          BY <1>1
        <5> HIDE DEF k
        <5> QED BY <5>1, <5>2, <5>3, <5>4
      <4>2. IdentifierKey(q[k]) \in 1 .. 2 * MaxIdentifier + 2
        BY <4>1, IdentifierOrder
      <4> HIDE DEF k
      <4> QED BY <1>1, <3>1, <4>1, <4>2
    <3>2. CASE Len(q) < Len(p)
      <4>1. PreKey(q)[k] = 0 /\ p[k] \in Identifier /\ PreKey(p)[k] = IdentifierKey(p[k])
        <5>1. k = Len(q) + 1 /\ k \in 1 .. Len(p)
          BY <1>1, <3>2
        <5>2. PreKey(q)[Len(q) + 1] = 0
          BY <1>4, PreKeyIs
        <5>3. \A i \in 1 .. Len(p) : PreKey(p)[i] = IdentifierKey(p[i])
          BY <1>4, PreKeyIs
        <5>4. \A i \in 1 .. Len(p) : p[i] \in Identifier
          BY <1>1
        <5> HIDE DEF k
        <5> QED BY <5>1, <5>2, <5>3, <5>4
      <4>2. IdentifierKey(p[k]) \in 1 .. 2 * MaxIdentifier + 2
        BY <4>1, IdentifierOrder
      <4> HIDE DEF k
      <4> QED BY <1>1, <3>2, <4>1, <4>2
    <3>3. Len(p) < Len(q) \/ Len(q) < Len(p)
      <4>1. \A m, n \in Nat : m # n => m < n \/ n < m
        OBVIOUS
      <4>2. Len(p) \in Nat /\ Len(q) \in Nat
        BY <1>1
      <4> QED BY <2>2, <4>1, <4>2
    <3> HIDE DEF k
    <3> QED BY <3>1, <3>2, <3>3, Zenon
  <2> HIDE DEF k
  <2> QED BY <2>3, <2>4, <2>5, <2>6
<1>5. CASE p # <<>> /\ q # <<>> /\ Differences(p, q) # {}
  <2> DEFINE k == Min(Differences(p, q))
  <2>1. k \in Differences(p, q) /\ \A n \in Differences(p, q) : k <= n
    <3>1. Differences(p, q) \in SUBSET Nat
      BY <1>1 DEF Differences
    <3> QED BY <1>5, <3>1, MinIsLeast
  <2>2. k \in 1 .. Len(p) /\ k <= Len(q) /\ p[k] # q[k]
    BY <1>1, <2>1 DEF Differences
  <2>3. \A j \in 1 .. k - 1 : p[j] = q[j]
    <3> HIDE DEF k
    <3> SUFFICES ASSUME NEW j \in 1 .. k - 1, p[j] # q[j] PROVE FALSE
      OBVIOUS
    <3>1. j \in Differences(p, q)
      BY <1>1, <2>2 DEF Differences
    <3>2. k <= j
      BY <2>1, <3>1
    <3> QED BY <1>1, <2>2, <3>2
  <2>4. PreLess(p, q) <=> IdLess(p[k], q[k])
    BY <1>5 DEF PreLess
  <2> HIDE DEF k
  <2>5. k \in 1 .. Len(PreKey(p)) /\ k <= Len(PreKey(q))
    BY <1>1, <1>5, <2>2, PreKeyIs
  <2>6. PreKey(p)[k] = IdentifierKey(p[k]) /\ PreKey(q)[k] = IdentifierKey(q[k])
    <3>1. \A i \in 1 .. Len(p) : PreKey(p)[i] = IdentifierKey(p[i])
      BY <1>5, PreKeyIs
    <3>2. \A i \in 1 .. Len(q) : PreKey(q)[i] = IdentifierKey(q[i])
      BY <1>5, PreKeyIs
    <3>3. k \in 1 .. Len(p) /\ k \in 1 .. Len(q)
      BY <1>1, <2>2
    <3> QED BY <3>1, <3>2, <3>3
  <2>7. \A j \in 1 .. k - 1 : PreKey(p)[j] = PreKey(q)[j]
    <3>1. \A i \in 1 .. Len(p) : PreKey(p)[i] = IdentifierKey(p[i])
      BY <1>5, PreKeyIs
    <3>2. \A i \in 1 .. Len(q) : PreKey(q)[i] = IdentifierKey(q[i])
      BY <1>5, PreKeyIs
    <3>3. \A j \in 1 .. k - 1 : j \in 1 .. Len(p) /\ j \in 1 .. Len(q)
      BY <1>1, <2>2
    <3> QED BY <2>3, <3>1, <3>2, <3>3
  <2>8. p[k] \in Identifier /\ q[k] \in Identifier
    BY <1>1, <2>2
  <2> QED BY <2>2, <2>4, <2>5, <2>6, <2>7, <2>8, IdentifierOrder
<1> QED BY <1>3, <1>4, <1>5

Key(v) == v.core \o PreKey(v.pre)

\* Two versions are compared where their keys first differ.
LEMMA KeyDifference ==
  ASSUME NEW v \in Version, NEW w \in Version, v # w
  PROVE  /\ Key(v) \in Seq(Int) /\ Key(w) \in Seq(Int)
         /\ \E k \in 1 .. Len(Key(v)) :
              /\ k <= Len(Key(w)) /\ Key(v)[k] # Key(w)[k]
              /\ \A j \in 1 .. k - 1 : Key(v)[j] = Key(w)[j]
              /\ VersionLess(v, w) <=> Key(v)[k] < Key(w)[k]
<1> DEFINE a == v.core \o PreKey(v.pre)
           b == w.core \o PreKey(w.pre)
<1>1. /\ v.core \in Seq(Int) /\ w.core \in Seq(Int) /\ Len(v.core) = 3 /\ Len(w.core) = 3
      /\ v.core \in [1 .. 3 -> Nat] /\ w.core \in [1 .. 3 -> Nat]
      /\ v.pre \in Seq(Identifier) /\ w.pre \in Seq(Identifier)
      /\ v.core # w.core \/ v.pre # w.pre
  <2>1. \A u \in Version : /\ u.core \in [1 .. 3 -> Nat] /\ u.pre \in Seq(Identifier)
                           /\ u = [core |-> u.core, pre |-> u.pre]
    BY DEF Version
  <2>2. \A c \in [1 .. 3 -> Nat] : c \in Seq(Int) /\ Len(c) = 3
    <3> SUFFICES ASSUME NEW c \in [1 .. 3 -> Nat] PROVE c \in Seq(Int) /\ Len(c) = 3
      OBVIOUS
    <3>1. c \in [1 .. 3 -> Int] /\ DOMAIN c = 1 .. 3
      OBVIOUS
    <3>2. c \in Seq(Int)
      BY <3>1, SeqDef
    <3>3. DOMAIN c = 1 .. Len(c) /\ Len(c) \in Nat
      BY <3>2, LenProperties
    <3> QED BY <3>1, <3>2, <3>3
  <2>3. v.core # w.core \/ v.pre # w.pre
    BY <2>1
  <2> QED BY <2>1, <2>2, <2>3
<1>2. PreKey(v.pre) \in Seq(Int) /\ PreKey(w.pre) \in Seq(Int)
      /\ Len(PreKey(v.pre)) \in Nat /\ Len(PreKey(w.pre)) \in Nat
  BY <1>1, PreKeyIs, LenProperties
<1>3. /\ a \in Seq(Int) /\ b \in Seq(Int)
      /\ Len(a) = 3 + Len(PreKey(v.pre)) /\ Len(b) = 3 + Len(PreKey(w.pre))
      /\ \A i \in 1 .. 3 + Len(PreKey(v.pre)) : a[i] = IF i <= 3 THEN v.core[i] ELSE PreKey(v.pre)[i - 3]
      /\ \A i \in 1 .. 3 + Len(PreKey(w.pre)) : b[i] = IF i <= 3 THEN w.core[i] ELSE PreKey(w.pre)[i - 3]
  <2>1. \A c, p \in Seq(Int) : Len(c) = 3 =>
          /\ c \o p \in Seq(Int) /\ Len(c \o p) = 3 + Len(p)
          /\ \A i \in 1 .. 3 + Len(p) : (c \o p)[i] = IF i <= 3 THEN c[i] ELSE p[i - 3]
    <3> SUFFICES ASSUME NEW c \in Seq(Int), NEW p \in Seq(Int), Len(c) = 3
                 PROVE  /\ c \o p \in Seq(Int) /\ Len(c \o p) = 3 + Len(p)
                        /\ \A i \in 1 .. 3 + Len(p) : (c \o p)[i] = IF i <= 3 THEN c[i] ELSE p[i - 3]
      OBVIOUS
    <3>1. /\ c \o p \in Seq(Int) /\ Len(c \o p) = Len(c) + Len(p)
          /\ \A i \in 1 .. Len(c) + Len(p) : (c \o p)[i] = IF i <= Len(c) THEN c[i] ELSE p[i - Len(c)]
      BY ConcatProperties
    <3> QED BY <3>1
  <2> QED BY <1>1, <1>2, <2>1
<1>4. Key(v) = a /\ Key(w) = b
  BY DEF Key
<1> HIDE DEF a, b
<1>5. \E k \in 1 .. Len(a) : /\ k <= Len(b) /\ a[k] # b[k] /\ \A j \in 1 .. k - 1 : a[j] = b[j]
                             /\ VersionLess(v, w) <=> a[k] < b[k]
  <2>1. CASE v.core # w.core
    <3> DEFINE d == Min(Differences(v.core, w.core))
    <3>1. Differences(v.core, w.core) # {} /\ Differences(v.core, w.core) \subseteq 1 .. 3
      BY SMTT(30), <1>1, <2>1 DEF Differences
    <3>2. d \in Differences(v.core, w.core) /\ \A n \in Differences(v.core, w.core) : d <= n
      BY <3>1, MinIsLeast
    <3>3. VersionLess(v, w) <=> v.core[d] < w.core[d]
      BY <2>1 DEF VersionLess
    <3> HIDE DEF d
    <3>4. d \in 1 .. 3 /\ v.core[d] # w.core[d]
      BY <3>1, <3>2 DEF Differences
    <3>5. \A j \in 1 .. d - 1 : v.core[j] = w.core[j]
      BY SMTT(30), <1>1, <3>2, <3>4 DEF Differences
    <3>6. a[d] = v.core[d] /\ b[d] = w.core[d] /\ \A j \in 1 .. d - 1 : a[j] = b[j]
      <4>1. \A j \in 1 .. d : j \in 1 .. 3 + Len(PreKey(v.pre)) /\ j \in 1 .. 3 + Len(PreKey(w.pre)) /\ j <= 3
        BY <1>2, <3>4
      <4>2. \A j \in 1 .. d : a[j] = v.core[j] /\ b[j] = w.core[j]
        BY <1>3, <4>1
      <4> QED BY <3>4, <3>5, <4>2
    <3> QED BY <1>2, <1>3, <3>3, <3>4, <3>6
  <2>2. CASE v.core = w.core
    <3>1. v.pre # w.pre /\ (VersionLess(v, w) <=> PreLess(v.pre, w.pre))
      BY <1>1, <2>2 DEF VersionLess
    <3>2. PICK k \in 1 .. Len(PreKey(v.pre)) :
           /\ k <= Len(PreKey(w.pre)) /\ PreKey(v.pre)[k] # PreKey(w.pre)[k]
           /\ \A j \in 1 .. k - 1 : PreKey(v.pre)[j] = PreKey(w.pre)[j]
           /\ PreLess(v.pre, w.pre) <=> PreKey(v.pre)[k] < PreKey(w.pre)[k]
      BY <1>1, <3>1, PreOrder
    <3>3. k + 3 \in 1 .. Len(a) /\ k + 3 <= Len(b)
      BY <1>2, <1>3, <3>2
    <3>4. a[k + 3] = PreKey(v.pre)[k] /\ b[k + 3] = PreKey(w.pre)[k]
      <4>1. k + 3 \in 1 .. 3 + Len(PreKey(v.pre)) /\ k + 3 \in 1 .. 3 + Len(PreKey(w.pre))
            /\ ~(k + 3 <= 3) /\ (k + 3) - 3 = k
        BY <1>2, <3>2
      <4> QED BY <1>3, <4>1
    <3>5. \A j \in 1 .. (k + 3) - 1 : a[j] = b[j]
      <4> SUFFICES ASSUME NEW j \in 1 .. (k + 3) - 1 PROVE a[j] = b[j]
        OBVIOUS
      <4>1. j \in 1 .. 3 + Len(PreKey(v.pre)) /\ j \in 1 .. 3 + Len(PreKey(w.pre))
            /\ (j <= 3 \/ j - 3 \in 1 .. k - 1)
        BY <1>2, <3>2
      <4>2. a[j] = IF j <= 3 THEN v.core[j] ELSE PreKey(v.pre)[j - 3]
        BY <1>3, <4>1
      <4>3. b[j] = IF j <= 3 THEN w.core[j] ELSE PreKey(w.pre)[j - 3]
        BY <1>3, <4>1
      <4> QED BY <2>2, <3>2, <4>1, <4>2, <4>3
    <3> QED BY <3>1, <3>2, <3>3, <3>4, <3>5
  <2> QED BY <2>1, <2>2
<1> QED BY <1>3, <1>4, <1>5

\* The comparison of semver.py is the order that semver.org defines, by keys.
THEOREM VersionOrder ==
  ASSUME NEW v \in Version, NEW w \in Version, v # w
  PROVE  /\ VersionLess(v, w) <=> Precedes(v, w)
         /\ Precedes(v, w) \/ Precedes(w, v)
<1> DEFINE a == Key(v)
           b == Key(w)
<1>1. /\ Precedes(v, w) <=> Differences(a, b) # {} /\ a[Min(Differences(a, b))] < b[Min(Differences(a, b))]
      /\ Precedes(w, v) <=> Differences(b, a) # {} /\ b[Min(Differences(b, a))] < a[Min(Differences(b, a))]
  BY DEF Precedes, Key
<1> HIDE DEF a, b
<1>2. /\ a \in Seq(Int) /\ b \in Seq(Int)
      /\ \E k \in 1 .. Len(a) : /\ k <= Len(b) /\ a[k] # b[k] /\ \A j \in 1 .. k - 1 : a[j] = b[j]
                                /\ VersionLess(v, w) <=> a[k] < b[k]
  BY KeyDifference DEF a, b
<1>3. PICK k \in 1 .. Len(a) : /\ k <= Len(b) /\ a[k] # b[k] /\ \A j \in 1 .. k - 1 : a[j] = b[j]
                               /\ VersionLess(v, w) <=> a[k] < b[k]
  BY <1>2
<1>4. Len(a) \in Nat /\ Len(b) \in Nat
  BY <1>2, LenProperties
<1>5. k \in 1 .. Len(b) /\ k <= Len(a) /\ a[k] \in Int /\ b[k] \in Int
  BY <1>2, <1>3, <1>4, ElementOfSeq
<1>6. Differences(a, b) # {} /\ Min(Differences(a, b)) = k
  BY <1>2, <1>3, FirstDifference
<1>7. Differences(b, a) # {} /\ Min(Differences(b, a)) = k
  BY <1>2, <1>3, <1>5, FirstDifference
<1> QED BY <1>1, <1>3, <1>5, <1>6, <1>7

\* Versions are strictly and totally ordered, so that a chain of updates, each
\* newer than the one before, never comes back to a version.
THEOREM VersionsAreOrdered ==
  ASSUME NEW u \in Version, NEW v \in Version, NEW w \in Version
  PROVE  /\ ~VersionLess(v, v)
         /\ v = w \/ VersionLess(v, w) \/ VersionLess(w, v)
         /\ VersionLess(u, v) /\ VersionLess(v, w) => VersionLess(u, w)
<1>1. \A x \in Version : ~VersionLess(x, x)
  <2> SUFFICES ASSUME NEW x \in Version PROVE ~VersionLess(x, x)
    OBVIOUS
  <2>1. Differences(x.pre, x.pre) = {}
    BY DEF Differences
  <2>2. Len(x.pre) \in Nat
    BY LenProperties DEF Version
  <2>3. ~(Len(x.pre) < Len(x.pre))
    BY <2>2
  <2> QED BY <2>1, <2>3 DEF VersionLess, PreLess
<1>2. v = w \/ VersionLess(v, w) \/ VersionLess(w, v)
  BY VersionOrder
<1>3. ASSUME VersionLess(u, v), VersionLess(v, w) PROVE VersionLess(u, w)
  <2>1. u # v /\ v # w
    BY <1>1, <1>3
  <2> DEFINE a == Key(u)
             b == Key(v)
             c == Key(w)
  <2> HIDE DEF a, b, c
  <2>2. /\ a \in Seq(Int) /\ b \in Seq(Int) /\ c \in Seq(Int)
        /\ \E k \in 1 .. Len(a) : /\ k <= Len(b) /\ a[k] < b[k] /\ \A j \in 1 .. k - 1 : a[j] = b[j]
        /\ \E k \in 1 .. Len(b) : /\ k <= Len(c) /\ b[k] < c[k] /\ \A j \in 1 .. k - 1 : b[j] = c[j]
    BY <1>3, <2>1, KeyDifference DEF a, b, c
  <2>3. PICK k \in 1 .. Len(a) : k <= Len(b) /\ a[k] < b[k] /\ \A j \in 1 .. k - 1 : a[j] = b[j]
    BY <2>2
  <2>4. PICK l \in 1 .. Len(b) : l <= Len(c) /\ b[l] < c[l] /\ \A j \in 1 .. l - 1 : b[j] = c[j]
    BY <2>2
  <2>5. /\ Len(a) \in Nat /\ Len(b) \in Nat /\ Len(c) \in Nat
        /\ \A i \in 1 .. Len(a) : a[i] \in Int
        /\ \A i \in 1 .. Len(b) : b[i] \in Int
        /\ \A i \in 1 .. Len(c) : c[i] \in Int
    BY <2>2, LenProperties, ElementOfSeq
  <2> DEFINE m == IF k < l THEN k ELSE l
  <2>6. m \in 1 .. Len(a) /\ m \in 1 .. Len(b) /\ m \in 1 .. Len(c) /\ m <= k /\ m <= l
    BY <2>3, <2>4, <2>5
  <2>7. a[m] < c[m]
    <3>1. CASE k < l
      <4>1. m = k /\ k \in 1 .. l - 1
        BY <2>5, <3>1
      <4> QED BY <2>3, <2>4, <4>1
    <3>2. CASE k = l
      <4>1. m = k /\ a[k] \in Int /\ b[k] \in Int /\ c[k] \in Int
        BY <2>5, <2>6, <3>2
      <4> QED BY <2>3, <2>4, <3>2, <4>1
    <3>3. CASE l < k
      <4>1. m = l /\ l \in 1 .. k - 1
        BY <2>5, <3>3
      <4> QED BY <2>3, <2>4, <4>1
    <3> QED BY <2>5, <3>1, <3>2, <3>3
  <2>8. \A j \in 1 .. m - 1 : a[j] = c[j]
    <3>1. \A j \in 1 .. m - 1 : j \in 1 .. k - 1 /\ j \in 1 .. l - 1
      BY <2>5, <2>6
    <3> QED BY <2>3, <2>4, <3>1
  <2> HIDE DEF m
  <2>9. a[m] # c[m]
    BY <2>5, <2>6, <2>7
  <2>10. u # w
    BY <2>9 DEF a, c
  <2>11. PICK n \in 1 .. Len(a) : /\ n <= Len(c) /\ a[n] # c[n] /\ \A j \in 1 .. n - 1 : a[j] = c[j]
                                  /\ VersionLess(u, w) <=> a[n] < c[n]
    BY <2>10, KeyDifference DEF a, c
  <2>12. n = m
    <3>1. ~(n < m)
      <4> SUFFICES ASSUME n < m PROVE FALSE
        OBVIOUS
      <4>1. n \in 1 .. m - 1
        BY <2>5, <2>6
      <4> QED BY <2>8, <2>11, <4>1
    <3>2. ~(m < n)
      <4> SUFFICES ASSUME m < n PROVE FALSE
        OBVIOUS
      <4>1. m \in 1 .. n - 1
        BY <2>5, <2>6
      <4> QED BY <2>9, <2>11, <4>1
    <3> QED BY <2>5, <2>6, <3>1, <3>2
  <2> QED BY <2>7, <2>11, <2>12
<1> QED BY <1>1, <1>2, <1>3

-----------------------------------------------------------------------------
(* Lists of checks                                                         *)

\* Entries of a list of checks.  No failure reads like a success.
Codes ==
  {"invalid_host", "cross_site_request", "invalid_origin", "internal_error",
   "request_target_too_large", "invalid_query", "unknown_query_field",
   "duplicate_query_field", "missing_query_field", "invalid_query_field", "not_found",
   "invalid_locale", "forbidden_path", "locale_not_found", "invalid_path",
   "invalid_navigation_target", "method_not_allowed", "unsupported_transfer_encoding",
   "content_length_required", "invalid_content_length", "request_too_large",
   "unsupported_media_type", "invalid_json", "unknown_request_field",
   "missing_request_field"}
Entry     == BOOLEAN \X Nat \X Codes
CheckList == Seq(Entry)

\* FirstFailure is Pass if no check fails, and else what the first one that
\* fails says.
LEMMA FailureIs ==
  ASSUME NEW cs \in CheckList
  PROVE  /\ FirstFailure(cs) = Pass <=> \A i \in 1 .. Len(cs) : ~cs[i][1]
         /\ FirstFailure(cs) # Pass =>
              \E i \in 1 .. Len(cs) : /\ cs[i][1] /\ \A j \in 1 .. i - 1 : ~cs[j][1]
                                      /\ FirstFailure(cs) = <<cs[i][2], cs[i][3]>>
         /\ FirstFailure(cs)[2] # "available"
<1> DEFINE failed == {i \in DOMAIN cs : cs[i][1]}
<1>1. Len(cs) \in Nat /\ DOMAIN cs = 1 .. Len(cs)
      /\ \A i \in 1 .. Len(cs) : cs[i] \in Entry
  BY LenProperties, ElementOfSeq DEF CheckList
<1>2. CASE failed = {}
  <2>1. FirstFailure(cs) = Pass /\ \A i \in 1 .. Len(cs) : ~cs[i][1]
    BY <1>1, <1>2 DEF FirstFailure
  <2> QED BY <2>1 DEF Pass
<1>3. CASE failed # {}
  <2> DEFINE i == Min(failed)
  <2>1. failed \in SUBSET Nat
    BY <1>1
  <2>2. i \in failed /\ \A j \in failed : i <= j
    BY <1>3, <2>1, MinIsLeast
  <2>3. FirstFailure(cs) = Tail(cs[i])
    BY <1>3 DEF FirstFailure
  <2> HIDE DEF i
  <2>4. i \in 1 .. Len(cs) /\ cs[i][1] /\ cs[i] \in Entry
    BY <1>1, <2>2
  <2>5. PICK b \in BOOLEAN, n \in Nat, c \in Codes : cs[i] = <<b, n, c>>
    BY <2>4 DEF Entry
  <2>6. Tail(<<b, n, c>>) = <<n, c>>
    OBVIOUS
  <2>7. FirstFailure(cs) = <<cs[i][2], cs[i][3]>> /\ FirstFailure(cs) = <<n, c>>
    BY <2>3, <2>5, <2>6
  <2>8. \A j \in 1 .. i - 1 : ~cs[j][1]
    <3> SUFFICES ASSUME NEW j \in 1 .. i - 1, cs[j][1] PROVE FALSE
      OBVIOUS
    <3>1. j \in failed
      BY <1>1, <2>4
    <3>2. i <= j
      BY <2>2, <3>1
    <3> QED BY <1>1, <2>4, <3>2
  <2>9. FirstFailure(cs) # Pass /\ FirstFailure(cs)[2] # "available"
    BY <2>7 DEF Pass, Codes
  <2> QED BY <2>4, <2>7, <2>8, <2>9
<1> QED BY <1>2, <1>3

LEMMA Joined ==
  ASSUME NEW s \in CheckList, NEW t \in CheckList
  PROVE  s \o t \in CheckList
BY ConcatProperties DEF CheckList

LEMMA HeadLists ==
  ASSUME NEW r
  PROVE  HeadChecks(r) \in CheckList
<1> DEFINE a == r.host \notin {"own", "noPort"}
           b == r.target = "tooLong"
           c == r.site = "cross"
           d == r.origin = "foreign"
           e == r.origin = "unreadable"
<1>1. a \in BOOLEAN /\ b \in BOOLEAN /\ c \in BOOLEAN /\ d \in BOOLEAN /\ e \in BOOLEAN
  OBVIOUS
<1> HIDE DEF a, b, c, d, e
<1>2. << <<a, 403, "invalid_host">> >> \in CheckList /\ <<>> \in CheckList
      /\ << <<b, 414, "request_target_too_large">> >> \in CheckList
  BY <1>1 DEF CheckList, Entry, Codes
<1>3. << <<c, 403, "cross_site_request">>, <<d, 403, "invalid_origin">>,
         <<e, 500, "internal_error">> >> \in CheckList
  BY <1>1 DEF CheckList, Entry, Codes
<1>4. HostChecks(r) \in CheckList
  BY <1>2 DEF HostChecks, a
<1>5. BoundaryChecks(r) \in CheckList
  BY <1>3 DEF BoundaryChecks, c, d, e
<1>6. (IF IsApi(r) THEN BoundaryChecks(r) ELSE <<>>) \in CheckList
  BY <1>2, <1>5
<1>7. << <<r.target = "tooLong", 414, "request_target_too_large">> >> \in CheckList
  BY <1>2 DEF b
<1> QED BY <1>4, <1>6, <1>7, Joined DEF HeadChecks

LEMMA QueryLists ==
  ASSUME NEW r, NEW fields \in BOOLEAN, NEW required \in BOOLEAN
  PROVE  QueryChecks(r, fields) \in CheckList /\ ValueChecks(r, required) \in CheckList
<1> DEFINE a == r.query = "malformed"
           b == r.query = "unknown" \/ (~fields /\ r.query # "none")
           c == r.query = "twice"
           d == required /\ r.query = "none"
           e == r.query = "badValue"
<1>1. a \in BOOLEAN /\ b \in BOOLEAN /\ c \in BOOLEAN /\ d \in BOOLEAN /\ e \in BOOLEAN
  OBVIOUS
<1> HIDE DEF a, b, c, d, e
<1>2. << <<a, 400, "invalid_query">>, <<b, 400, "unknown_query_field">>,
         <<c, 400, "duplicate_query_field">> >> \in CheckList
  BY <1>1 DEF CheckList, Entry, Codes
<1>3. << <<d, 400, "missing_query_field">>, <<e, 400, "invalid_query_field">> >> \in CheckList
  BY <1>1 DEF CheckList, Entry, Codes
<1>4. QueryChecks(r, fields) \in CheckList
  BY <1>2 DEF QueryChecks, a, b, c
<1>5. ValueChecks(r, required) \in CheckList
  BY <1>3 DEF ValueChecks, d, e
<1> QED BY <1>4, <1>5

LEMMA NameLists ==
  ASSUME NEW r
  PROVE  IdChecks(r) \in CheckList /\ LocaleChecks(r) \in CheckList /\ StaticChecks(r) \in CheckList
<1> DEFINE a == r.name \in {"empty", "nested"}
           b == r.name = "undecodable"
           c == r.name \in {"empty", "nested", "parent"}
           d == r.name = "other"
           e == r.route = "page" /\ r.query \notin {"none", "allowed"}
           f == r.name = "parent"
           g == r.route = "asset" /\ r.name # "one"
<1>1. /\ a \in BOOLEAN /\ b \in BOOLEAN /\ c \in BOOLEAN /\ d \in BOOLEAN
      /\ e \in BOOLEAN /\ f \in BOOLEAN /\ g \in BOOLEAN
  OBVIOUS
<1> HIDE DEF a, b, c, d, e, f, g
<1>2. << <<a, 404, "not_found">> >> \in CheckList
  BY <1>1 DEF CheckList, Entry, Codes
<1>3. << <<b, 400, "invalid_locale">>, <<c, 403, "forbidden_path">>,
         <<d, 404, "locale_not_found">> >> \in CheckList
  BY <1>1 DEF CheckList, Entry, Codes
<1>4. << <<b, 400, "invalid_path">>, <<e, 400, "invalid_navigation_target">>,
         <<f, 403, "forbidden_path">>, <<g, 404, "not_found">> >> \in CheckList
  BY <1>1 DEF CheckList, Entry, Codes
<1>5. IdChecks(r) \in CheckList
  BY <1>2 DEF IdChecks, a
<1>6. LocaleChecks(r) \in CheckList
  BY <1>3 DEF LocaleChecks, b, c, d
<1>7. StaticChecks(r) \in CheckList
  BY <1>4 DEF StaticChecks, b, e, f, g
<1> QED BY <1>5, <1>6, <1>7

LEMMA NoMethod ==
  ASSUME NEW b \in BOOLEAN
  PROVE  << <<b, 405, "method_not_allowed">> >> \in CheckList
BY DEF CheckList, Entry, Codes

LEMMA RouteLists ==
  ASSUME NEW r
  PROVE  /\ GetChecks(r) \in CheckList /\ PutChecks(r) \in CheckList
         /\ PostChecks(r) \in CheckList /\ DeleteChecks(r) \in CheckList
<1>1. /\ QueryChecks(r, TRUE) \in CheckList /\ QueryChecks(r, FALSE) \in CheckList
      /\ ValueChecks(r, TRUE) \in CheckList /\ ValueChecks(r, FALSE) \in CheckList
      /\ IdChecks(r) \in CheckList /\ LocaleChecks(r) \in CheckList
      /\ StaticChecks(r) \in CheckList
  BY QueryLists, NameLists
<1>2. <<>> \in CheckList /\ << <<TRUE, 405, "method_not_allowed">> >> \in CheckList
  <2>1. <<>> \in CheckList
    BY DEF CheckList
  <2>2. << <<TRUE, 405, "method_not_allowed">> >> \in CheckList
    BY NoMethod
  <2> QED BY <2>1, <2>2
<1>3. GetChecks(r) \in CheckList
  BY <1>1, <1>2, Joined DEF GetChecks
<1> DEFINE b == r.route \notin PutRoutes
           c == r.route \notin PostRoutes
<1>4. b \in BOOLEAN /\ c \in BOOLEAN
  OBVIOUS
<1> HIDE DEF b, c
<1>5. << <<b, 405, "method_not_allowed">> >> \in CheckList
      /\ << <<c, 405, "method_not_allowed">> >> \in CheckList
  BY <1>4, NoMethod
<1>6. QueryChecks(r, FALSE) \o << <<b, 405, "method_not_allowed">> >> \in CheckList
      /\ QueryChecks(r, FALSE) \o << <<c, 405, "method_not_allowed">> >> \in CheckList
  BY <1>1, <1>5, Joined
<1>7. PutChecks(r) \in CheckList /\ PostChecks(r) \in CheckList
  BY <1>6 DEF PutChecks, PostChecks, b, c
<1>8. DeleteChecks(r) \in CheckList
  BY <1>1, <1>2, Joined DEF DeleteChecks
<1> QED BY <1>3, <1>7, <1>8

LEMMA ChecksAreList ==
  ASSUME NEW r \in Requests
  PROVE  Checks(r) \in CheckList
<1>1. r.method \in {"GET", "PUT", "POST", "DELETE", "OPTIONS"}
  BY ApiAssumption
<1>2. << <<TRUE, 405, "method_not_allowed">> >> \in CheckList
  BY NoMethod
<1> QED BY <1>1, <1>2, HeadLists, RouteLists, Joined DEF Checks

LEMMA LengthLists ==
  ASSUME NEW r \in Requests
  PROVE  /\ LengthChecks(r) \in CheckList /\ Len(LengthChecks(r)) = 4
         /\ LengthChecks(r)[1][1] <=> r.chunked
         /\ LengthChecks(r)[2][1] <=> r.length = "absent"
         /\ LengthChecks(r)[3][1] <=> r.length \in {"malformed", "negative"}
         /\ LengthChecks(r)[4][1] <=> r.size > MaxBody
         /\ \A i \in 1 .. 4 : LengthChecks(r)[i][2] = 413 <=> i = 4
<1> DEFINE a == r.chunked
           b == r.length = "absent"
           c == r.length \in {"malformed", "negative"}
           d == r.size > MaxBody
           list == << <<a, 400, "unsupported_transfer_encoding">>,
                      <<b, 411, "content_length_required">>,
                      <<c, 400, "invalid_content_length">>,
                      <<d, 413, "request_too_large">> >>
<1>1. a \in BOOLEAN /\ b \in BOOLEAN /\ c \in BOOLEAN /\ d \in BOOLEAN
  BY ApiAssumption
<1>2. LengthChecks(r) = list
  BY DEF LengthChecks
<1> HIDE DEF a, b, c, d
<1>3. list \in CheckList
  BY <1>1 DEF CheckList, Entry, Codes
<1>4. Len(list) = 4 /\ list[1][1] = a /\ list[2][1] = b /\ list[3][1] = c /\ list[4][1] = d
  OBVIOUS
<1>5. \A i \in 1 .. 4 : list[i][2] = 413 <=> i = 4
  OBVIOUS
<1> HIDE DEF list
<1>6. /\ LengthChecks(r)[1][1] <=> a
      /\ LengthChecks(r)[2][1] <=> b
      /\ LengthChecks(r)[3][1] <=> c
      /\ LengthChecks(r)[4][1] <=> d
  BY <1>2, <1>4
<1> QED BY <1>2, <1>3, <1>4, <1>5, <1>6 DEF a, b, c, d

LEMMA DocumentLists ==
  ASSUME NEW r
  PROVE  DocumentChecks(r) \in CheckList
<1> DEFINE a == r.type # "json"
           b == r.document \in {"notJson", "duplicateField", "notObject"}
           c == r.document = "unknownField"
           d == r.document = "missingField"
<1>1. a \in BOOLEAN /\ b \in BOOLEAN /\ c \in BOOLEAN /\ d \in BOOLEAN
  OBVIOUS
<1> HIDE DEF a, b, c, d
<1> DEFINE s == << <<a, 415, "unsupported_media_type">>, <<b, 400, "invalid_json">> >>
           t == << <<c, 400, "unknown_request_field">>, <<d, 400, "missing_request_field">> >>
<1>2. s \in CheckList
  BY <1>1 DEF CheckList, Entry, Codes
<1>3. t \in CheckList
  BY <1>1 DEF CheckList, Entry, Codes
<1>4. DocumentChecks(r) = s \o (IF r.route \in {"profile", "profileKey", "activate"}
                                   THEN IdChecks(r) ELSE <<>>)
                            \o IF r.route = "config" THEN <<>> ELSE t
  BY DEF DocumentChecks, a, b, c, d
<1>5. IdChecks(r) \in CheckList /\ <<>> \in CheckList
  BY NameLists DEF CheckList
<1> HIDE DEF s, t
<1> QED BY <1>2, <1>3, <1>4, <1>5, Joined

\* What the checks of the length say of a body that is read, and of one that
\* is too large.
LEMMA LengthFailures ==
  ASSUME NEW r \in Requests
  PROVE  /\ FirstFailure(LengthChecks(r)) = Pass =>
              ~r.chunked /\ r.length = "number" /\ r.size <= MaxBody
         /\ FirstFailure(LengthChecks(r))[1] = 413 =>
              ~r.chunked /\ r.length = "number" /\ r.size > MaxBody
<1> DEFINE cs == LengthChecks(r)
<1>1. /\ cs \in CheckList /\ Len(cs) = 4
      /\ cs[1][1] <=> r.chunked
      /\ cs[2][1] <=> r.length = "absent"
      /\ cs[3][1] <=> r.length \in {"malformed", "negative"}
      /\ cs[4][1] <=> r.size > MaxBody
      /\ \A i \in 1 .. 4 : cs[i][2] = 413 <=> i = 4
  BY LengthLists
<1>2. r.size \in Nat /\ MaxBody \in Nat /\ r.length \in {"number", "absent", "malformed", "negative"}
  BY ApiAssumption
<1> HIDE DEF cs
<1>3. FirstFailure(cs) = Pass => ~r.chunked /\ r.length = "number" /\ r.size <= MaxBody
  <2> HAVE FirstFailure(cs) = Pass
  <2>1. \A i \in 1 .. 4 : ~cs[i][1]
    BY <1>1, FailureIs
  <2>2. ~cs[1][1] /\ ~cs[2][1] /\ ~cs[3][1] /\ ~cs[4][1]
    BY <2>1
  <2> QED BY <1>1, <1>2, <2>2
<1>4. FirstFailure(cs)[1] = 413 => ~r.chunked /\ r.length = "number" /\ r.size > MaxBody
  <2> HAVE FirstFailure(cs)[1] = 413
  <2>1. FirstFailure(cs) # Pass
    BY DEF Pass
  <2>2. PICK i \in 1 .. 4 : cs[i][1] /\ (\A j \in 1 .. i - 1 : ~cs[j][1])
                            /\ FirstFailure(cs) = <<cs[i][2], cs[i][3]>>
    BY <1>1, <2>1, FailureIs
  <2>3. i = 4
    BY <1>1, <2>2
  <2>4. ~cs[1][1] /\ ~cs[2][1] /\ ~cs[3][1] /\ cs[4][1]
    BY <2>2, <2>3
  <2> QED BY <1>1, <1>2, <2>4
<1> QED BY <1>3, <1>4 DEF cs

-----------------------------------------------------------------------------
(* Framing                                                                 *)

Steps == {"received", "body", "serve", "data", "usage", "bill", "check", "waiting", "answered"}

TypeInv ==
  /\ request \in Requests /\ step \in Steps
  /\ conn \in [read : Nat, done : BOOLEAN, open : BOOLEAN]

\* At most one drain before the answer; what leaves the connection open was
\* read whole.
ConnInv ==
  /\ step \in {"received", "body"} => conn = NewConnection
  /\ step \notin {"waiting", "answered"} => conn.read <= MaxBody + 1
  /\ conn.read <= 2 * (MaxBody + 1)
  /\ conn.open => ~request.chunked /\ request.length = "number" /\ conn.read = request.size

FramingInv == TypeInv /\ ConnInv

LEMMA RequestFacts ==
  ASSUME NEW r \in Requests
  PROVE  /\ r.chunked \in BOOLEAN /\ r.size \in Nat /\ MaxBody \in Nat
         /\ r.length \in {"number", "absent", "malformed", "negative"}
         /\ Prefix(r) \in Nat /\ Prefix(r) <= MaxBody + 1 /\ Prefix(r) <= r.size
         /\ Prefix(r) = IF r.size <= MaxBody + 1 THEN r.size ELSE MaxBody + 1
<1>1. r.chunked \in BOOLEAN /\ r.size \in Nat /\ MaxBody \in Nat /\ MaxBody + 1 \in Nat
      /\ r.length \in {"number", "absent", "malformed", "negative"}
  BY ApiAssumption
<1>2. Prefix(r) = IF r.size <= MaxBody + 1 THEN r.size ELSE MaxBody + 1
  BY <1>1, MinOfTwo DEF Prefix
<1> QED BY <1>1, <1>2

\* A drain reads at most one byte more than the largest body, and keeps the
\* connection open only for a body that is read whole.
LEMMA DrainKeeps ==
  ASSUME NEW r \in Requests, NEW c \in [read : Nat, done : BOOLEAN, open : BOOLEAN]
  PROVE  /\ Drain(r, c) \in [read : Nat, done : BOOLEAN, open : BOOLEAN]
         /\ Drain(r, c).read <= c.read + MaxBody + 1
         /\ (c.open => ~r.chunked /\ r.length = "number" /\ c.read = r.size) =>
              (Drain(r, c).open => ~r.chunked /\ r.length = "number" /\ Drain(r, c).read = r.size)
<1>1. /\ r.size \in Nat /\ MaxBody \in Nat /\ Prefix(r) \in Nat /\ Prefix(r) <= MaxBody + 1
      /\ Prefix(r) <= r.size
  BY RequestFacts
<1>2. Min({r.size, c.read + Prefix(r)}) = IF r.size <= c.read + Prefix(r) THEN r.size ELSE c.read + Prefix(r)
  BY <1>1, MinOfTwo
<1>3. CASE ~Undrained(r, c)
  BY <1>1, <1>3 DEF Drain
<1>4. CASE Undrained(r, c)
  <2>1. /\ Drain(r, c).read = Min({r.size, c.read + Prefix(r)})
        /\ Drain(r, c).done = (Prefix(r) = r.size)
        /\ Drain(r, c).open = (Prefix(r) = r.size)
        /\ Drain(r, c) \in [read : Nat, done : BOOLEAN, open : BOOLEAN]
    BY <1>1, <1>2, <1>4 DEF Drain
  <2>2. ~r.chunked /\ r.length = "number"
    BY <1>4 DEF Undrained
  <2> QED BY <1>1, <1>2, <2>1, <2>2
<1> QED BY <1>3, <1>4

\* A refusal before the answer drains at most once more.
LEMMA RefuseKeeps ==
  ASSUME FramingInv, step \notin {"waiting", "answered"}, NEW failure, Refuse(failure),
         request' = request
  PROVE  FramingInv'
<1>1. /\ conn' = Drain(request, conn) /\ request \in Requests
      /\ conn \in [read : Nat, done : BOOLEAN, open : BOOLEAN]
      /\ step' \in {"waiting", "answered"} /\ conn.read <= MaxBody + 1
      /\ conn.open => ~request.chunked /\ request.length = "number" /\ conn.read = request.size
  BY DEF Refuse, FramingInv, TypeInv, ConnInv
<1>2. TypeInv'
  BY <1>1, DrainKeeps DEF TypeInv, Steps
<1>3. conn'.read <= 2 * (MaxBody + 1)
  <2>1. conn'.read <= conn.read + MaxBody + 1
    BY <1>1, DrainKeeps
  <2>2. conn.read \in Nat /\ conn'.read \in Nat /\ MaxBody \in Nat
    BY <1>1, <1>2, ApiAssumption DEF TypeInv
  <2> QED BY <1>1, <2>1, <2>2
<1>4. conn'.open => ~request.chunked /\ request.length = "number" /\ conn'.read = request.size
  BY <1>1, DrainKeeps
<1>5. ConnInv'
  BY <1>1, <1>3, <1>4 DEF ConnInv
<1> QED BY <1>2, <1>5 DEF FramingInv

\* A step that leaves the connection alone and goes on to the answer.
LEMMA StepKeeps ==
  ASSUME FramingInv, request' = request, conn' = conn,
         step' = "answered" \/ (step' \in {"serve", "usage", "bill"} /\ step \notin {"waiting", "answered"})
  PROVE  FramingInv'
BY DEF FramingInv, TypeInv, ConnInv, Steps

\* A connection that stays open after the answer was read to the end of the
\* body, whatever was checked, refused or discarded before (FramingKept).
THEOREM ConnectionInvariant == Spec => []FramingInv
<1>1. Init => FramingInv
  BY ApiAssumption DEF Init, FramingInv, TypeInv, ConnInv, NewConnection, Steps
<1>2. FramingInv /\ [Next]_vars => FramingInv'
  <2> SUFFICES ASSUME FramingInv, [Next]_vars PROVE FramingInv'
    OBVIOUS
  <2>0. /\ request \in Requests /\ conn \in [read : Nat, done : BOOLEAN, open : BOOLEAN]
        /\ MaxBody \in Nat
    BY ApiAssumption DEF FramingInv, TypeInv
  <2>1. CASE RefuseRequest
    BY <2>1, RefuseKeeps DEF RefuseRequest, Untouched
  <2>2. CASE Admit
    <3>1. /\ conn = NewConnection /\ request' = request /\ step = "received"
          /\ step' \in {"body", "data", "check", "serve"}
      BY <2>2 DEF Admit, Untouched, FramingInv, ConnInv
    <3>2. CASE TakesBody(request)
      <4>1. conn' = conn /\ step' = "body"
        BY <2>2, <3>2 DEF Admit
      <4> QED BY <3>1, <4>1 DEF FramingInv, TypeInv, ConnInv, Steps
    <3>3. CASE ~TakesBody(request)
      <4>1. conn' = Drain(request, conn) /\ step' \in {"data", "check", "serve"}
        BY <2>2, <3>3 DEF Admit
      <4>2. conn.read = 0 /\ ~conn.open
        BY <3>1 DEF NewConnection
      <4>3. /\ conn' \in [read : Nat, done : BOOLEAN, open : BOOLEAN]
            /\ conn'.read <= 0 + MaxBody + 1
            /\ conn'.open => ~request.chunked /\ request.length = "number" /\ conn'.read = request.size
        BY <2>0, <4>1, <4>2, DrainKeeps
      <4>4. conn'.read <= MaxBody + 1 /\ conn'.read <= 2 * (MaxBody + 1)
        BY <2>0, <4>3
      <4> QED BY <2>0, <3>1, <4>1, <4>3, <4>4 DEF FramingInv, TypeInv, ConnInv, Steps
    <3> QED BY <3>2, <3>3
  <2>3. CASE RefuseLength
    <3> DEFINE failure == FirstFailure(LengthChecks(request))
    <3>1. step = "body" /\ request' = request
      BY <2>3 DEF RefuseLength, Untouched
    <3>2. CASE failure[1] = 413
      <4>1. /\ conn' = [read |-> Prefix(request), done |-> TRUE, open |-> Prefix(request) = request.size]
            /\ step' = "answered"
        BY <2>3, <3>2 DEF RefuseLength, Send
      <4>2. ~request.chunked /\ request.length = "number"
        BY <2>0, <3>2, LengthFailures
      <4>3. Prefix(request) \in Nat /\ Prefix(request) <= MaxBody + 1
        BY <2>0, RequestFacts
      <4>4. Prefix(request) <= 2 * (MaxBody + 1)
        BY <2>0, <4>3
      <4> QED BY <2>0, <3>1, <4>1, <4>2, <4>3, <4>4 DEF FramingInv, TypeInv, ConnInv, Steps
    <3>3. CASE failure[1] # 413
      <4>1. Refuse(failure)
        BY <2>3, <3>3 DEF RefuseLength
      <4> QED BY <3>1, <4>1, RefuseKeeps
    <3> QED BY <3>2, <3>3
  <2>4. CASE ReadBody
    <3>1. /\ conn' = [conn EXCEPT !.read = request.size, !.done = TRUE] /\ request' = request
          /\ step' \in {"serve", "answered"} /\ conn = NewConnection
      BY <2>4 DEF ReadBody, Untouched, Send, FramingInv, ConnInv
    <3>2. request.size \in Nat /\ request.size <= MaxBody
      BY <2>0, <2>4, LengthFailures, RequestFacts DEF ReadBody
    <3>3. conn' = [read |-> request.size, done |-> TRUE, open |-> FALSE]
      BY <3>1 DEF NewConnection
    <3>4. /\ conn'.read <= MaxBody + 1 /\ conn'.read <= 2 * (MaxBody + 1) /\ ~conn'.open
          /\ conn' \in [read : Nat, done : BOOLEAN, open : BOOLEAN]
      BY <2>0, <3>2, <3>3
    <3> QED BY <2>0, <3>1, <3>4 DEF FramingInv, TypeInv, ConnInv, Steps
  <2>5. CASE Serve
    BY <2>5, RefuseKeeps, StepKeeps DEF Serve, Untouched, Send
  <2>6. CASE BeginData
    <3>1. request' = request /\ conn' = conn /\ step = "data"
      BY <2>6 DEF BeginData, Untouched
    <3>2. request.key \in {"valid", "absent", "malformed"}
      BY <2>0, ApiAssumption
    <3>3. step' \in {"usage", "answered"}
      BY <2>6, <3>2 DEF BeginData, Send
    <3> QED BY <3>1, <3>3, StepKeeps
  <2>7. CASE EmptyDay \/ UsageFails \/ CostsFail
    BY <2>7, StepKeeps DEF EmptyDay, UsageFails, CostsFail, Untouched, Send
  <2>8. CASE UsagePage
    BY <2>8, StepKeeps DEF UsagePage, Send
  <2>9. CASE CostsPage
    BY <2>9, StepKeeps DEF CostsPage, Send
  <2>10. CASE CheckUpdate
    BY <2>10, RefuseKeeps, StepKeeps DEF CheckUpdate, Send
  <2>11. CASE ManifestUnavailable
    BY <2>11, StepKeeps DEF ManifestUnavailable, Send, Untouched
  <2>12. CASE CheckUnavailable
    BY <2>12, RefuseKeeps DEF CheckUnavailable, Untouched
  <2>13. CASE GiveUp
    BY <2>13, StepKeeps DEF GiveUp, Untouched
  <2>14. CASE UNCHANGED vars
    BY <2>14 DEF vars, FramingInv, TypeInv, ConnInv
  <2> QED BY <2>1, <2>2, <2>3, <2>4, <2>5, <2>6, <2>7, <2>8, <2>9, <2>10, <2>11, <2>12, <2>13,
             <2>14 DEF Next, Handle
<1> QED BY <1>1, <1>2, PTL DEF Spec

\* No unread part of a body is taken for the next request, and no more than
\* two drains are read of it: _drain_unread_body and _read_json_object.
THEOREM NoUnreadBodyIsARequest == Spec => []FramingKept
<1>1. FramingInv => FramingKept
  BY DEF FramingInv, ConnInv, FramingKept
<1> QED BY <1>1, ConnectionInvariant, PTL

-----------------------------------------------------------------------------
(* Offered updates                                                         *)

LEMMA UrlVerdicts ==
  ASSUME NEW u, NEW hosts
  PROVE  UrlVerdict(u, hosts) \in {"ok", "refused", "escapes"}
BY DEF UrlVerdict

LEMMA ParseVerdicts ==
  ASSUME NEW m
  PROVE  ParseVerdict(m) \in {"ok", "refused", "escapes"}
<1>1. \A a : ArtifactVerdict(a) \in {"ok", "refused", "escapes"}
  BY UrlVerdicts DEF ArtifactVerdict
<1>2. ArtifactsVerdict(m.artifacts) \in {"ok", "refused", "escapes"}
  BY <1>1 DEF ArtifactsVerdict
<1> QED BY <1>2, UrlVerdicts DEF ParseVerdict

\* Signing a manifest that carries a valid signature again changes nothing.
LEMMA SignedIsItself ==
  ASSUME NEW m \in Manifests, Verified(m)
  PROVE  m = Sign(m, m.key)
<1>1. m = [f \in DOMAIN m |-> m[f]] /\ "key" \in DOMAIN m /\ "signature" \in DOMAIN m
  BY ApiAssumption
<1>2. [m EXCEPT !.key = m.key] = m
  BY <1>1
<1>3. m.signature = [by |-> m.key, over |-> Content(m)]
  BY DEF Verified
<1>4. [m EXCEPT !.signature = [by |-> m.key, over |-> Content(m)]] = m
  BY <1>1, <1>3
<1> QED BY <1>2, <1>4 DEF Sign

\* What check_remote offers.
LEMMA OfferedIsTrusted ==
  ASSUME NEW m \in Manifests, NEW current \in Versions, CheckDocument(m, current) = "available"
  PROVE  /\ \E k \in TrustedKeys : m = Sign(m, k)
         /\ m.channel = Channel /\ (Channel = "stable" => ~IsPrerelease(m.version))
         /\ m.expires # 0 => CheckTime < m.expires
         /\ Precedes(current, m.version)
         /\ ~Precedes(UpdaterVersion, m.minimum)
<1>1. ParseVerdict(m) = "ok" /\ Evaluate(m, current) = "available"
  BY ParseVerdicts DEF CheckDocument
<1>2. Verified(m) /\ ChannelAccepts(m) /\ InTime(m)
  BY <1>1 DEF ParseVerdict
<1>3. /\ m.channel = Channel /\ ~VersionLess(m.version, current) /\ m.version # current
      /\ ~VersionLess(UpdaterVersion, m.minimum)
  BY <1>1 DEF Evaluate
<1>4. /\ m.version \in Version /\ m.minimum \in Version /\ current \in Version
      /\ UpdaterVersion \in Version
  BY ApiAssumption, ManifestAssumption
<1>5. m.key \in TrustedKeys /\ m = Sign(m, m.key)
  BY <1>2, SignedIsItself DEF Verified
<1>6. Channel = "stable" => ~IsPrerelease(m.version)
  BY <1>2, <1>3 DEF ChannelAccepts
<1>7. m.expires # 0 => CheckTime < m.expires
  BY <1>2 DEF InTime
<1>8. Precedes(current, m.version)
  BY <1>3, <1>4, VersionOrder
<1>9. ~Precedes(UpdaterVersion, m.minimum)
  <2>1. CASE UpdaterVersion = m.minimum
    BY <2>1 DEF Precedes, Differences
  <2>2. CASE UpdaterVersion # m.minimum
    BY <1>3, <1>4, <2>2, VersionOrder
  <2> QED BY <2>1, <2>2
<1> QED BY <1>3, <1>5, <1>6, <1>7, <1>8, <1>9

\* An update that is offered was signed by a trusted publisher for this
\* channel, has not expired, and is newer than what runs: ManifestParser.parse
\* and UpdateChecker.check_remote (OnlyTrustedUpdates).
THEOREM OffersAreTrusted == Spec => []OnlyTrustedUpdates
<1>1. Init => OnlyTrustedUpdates
  BY DEF Init, Pass, OnlyTrustedUpdates
<1>2. FramingInv /\ OnlyTrustedUpdates /\ [Next]_vars => OnlyTrustedUpdates'
  <2> SUFFICES ASSUME FramingInv, OnlyTrustedUpdates, [Next]_vars PROVE OnlyTrustedUpdates'
    OBVIOUS
  <2>0. request \in Requests
    BY DEF FramingInv, TypeInv
  <2>1. UNCHANGED <<answer, check>> => OnlyTrustedUpdates'
    BY DEF OnlyTrustedUpdates
  <2>2. answer'[2] # "available" => OnlyTrustedUpdates'
    BY DEF OnlyTrustedUpdates
  <2>3. CASE RefuseRequest
    BY <2>0, <2>2, <2>3, ChecksAreList, FailureIs DEF RefuseRequest, Refuse
  <2>4. CASE Admit \/ GiveUp
    BY <2>1, <2>4 DEF Admit, GiveUp, Untouched
  <2>5. CASE RefuseLength
    <3> DEFINE failure == FirstFailure(LengthChecks(request))
    <3>1. failure[2] # "available"
      BY <2>0, LengthLists, FailureIs
    <3>2. answer' = failure \/ answer' = <<failure[1], failure[2]>>
      BY <2>5 DEF RefuseLength, Refuse, Send
    <3> HIDE DEF failure
    <3> QED BY <2>2, <3>1, <3>2
  <2>6. CASE ReadBody
    <3> DEFINE failure == FirstFailure(DocumentChecks(request))
    <3>1. failure[2] # "available"
      BY DocumentLists, FailureIs
    <3>2. (answer' = answer /\ check' = check) \/ answer' = <<failure[1], failure[2]>>
      BY <2>6 DEF ReadBody, Untouched, Send
    <3> HIDE DEF failure
    <3> QED BY <2>1, <2>2, <3>1, <3>2
  <2>7. CASE Serve
    BY <2>2, <2>7 DEF Serve, Send, Refuse
  <2>8. CASE BeginData
    <3>1. request.key \in {"valid", "absent", "malformed"}
      BY <2>0, ApiAssumption
    <3>2. check' = check
      BY <2>8 DEF BeginData, Untouched
    <3>3. CASE request.key = "absent"
      BY <2>2, <2>8, <3>3 DEF BeginData, Send
    <3>4. CASE request.key = "malformed"
      BY <2>2, <2>8, <3>4 DEF BeginData, Send
    <3>5. CASE request.key = "valid"
      BY <2>1, <2>8, <3>2, <3>5 DEF BeginData
    <3> QED BY <3>1, <3>3, <3>4, <3>5
  <2>9. CASE EmptyDay \/ CostsFail
    BY <2>2, <2>9 DEF EmptyDay, CostsFail, Send
  <2>10. CASE UsageFails
    <3>1. \A e \in DOMAIN ClientErrors : ClientErrors[e][2] # "available"
      BY DEF ClientErrors
    <3> QED BY <2>2, <2>10, <3>1 DEF UsageFails, Send
  <2>11. CASE UsagePage
    <3>1. check' = check /\ (answer' = answer \/ answer' = <<502, "usage_response_invalid">>)
      BY <2>11 DEF UsagePage, Send
    <3> QED BY <2>1, <2>2, <3>1
  <2>12. CASE CostsPage
    <3>1. check' = check /\ (answer' = answer \/ answer' = <<200, "ok">>)
      BY <2>12 DEF CostsPage, Send
    <3> QED BY <2>1, <2>2, <3>1
  <2>13. CASE CheckUpdate
    <3>1. PICK m \in Manifests, current \in Versions :
            /\ check' = [manifest |-> m, current |-> current]
            /\ IF CheckDocument(m, current) = "escapes"
               THEN Refuse(<<502, "update_check_failed">>)
               ELSE Send(200, CheckDocument(m, current)) /\ UNCHANGED conn
      BY <2>13 DEF CheckUpdate
    <3>2. CASE CheckDocument(m, current) = "available"
      <4>1. check'.manifest = m /\ check'.current = current
        BY <3>1
      <4> QED BY <3>2, <4>1, OfferedIsTrusted DEF OnlyTrustedUpdates
    <3>3. CASE CheckDocument(m, current) # "available"
      BY <2>2, <3>1, <3>3 DEF Refuse, Send
    <3> QED BY <3>2, <3>3
  <2>14. CASE ManifestUnavailable
    BY <2>2, <2>14 DEF ManifestUnavailable, Send, FetchVerdict
  <2>15. CASE CheckUnavailable
    BY <2>2, <2>15 DEF CheckUnavailable, Refuse
  <2>16. CASE UNCHANGED vars
    BY <2>1, <2>16 DEF vars
  <2> QED BY <2>3, <2>4, <2>5, <2>6, <2>7, <2>8, <2>9, <2>10, <2>11, <2>12, <2>13, <2>14, <2>15,
             <2>16 DEF Next, Handle
<1> QED BY <1>1, <1>2, ConnectionInvariant, PTL DEF Spec

-----------------------------------------------------------------------------
(* Pages of the upstream                                                   *)

\* A fetch records the pages it visited, each at a cursor of its own.
FetchType(f) ==
  /\ f = [cursor |-> f.cursor, seen |-> f.seen, pages |-> f.pages, visits |-> f.visits]
  /\ f.visits = [c \in DOMAIN f.visits |-> f.visits[c]]
  /\ DOMAIN f.pages = DOMAIN f.visits /\ DOMAIN f.pages \subseteq {First} \union f.seen
  /\ f.seen \subseteq Cursors

\* While it goes on, the page to come is a new one.
GoesOn(f) == f.cursor \in {First} \union f.seen /\ f.cursor \notin DOMAIN f.pages

Once(f) == \A c \in DOMAIN f.visits : f.visits[c] = 1

FetchInv ==
  /\ FetchType(fetch) /\ Once(fetch)
  /\ step \in {"received", "body", "serve", "data", "check", "usage"} => GoesOn(fetch)
  /\ FetchType(bill) /\ Once(bill)
  /\ step \in {"received", "body", "serve", "data", "check", "usage", "bill"} => GoesOn(bill)

PagesOnce == Once(fetch) /\ Once(bill)

LEMMA NewFetch == FetchType(NoFetch) /\ Once(NoFetch) /\ GoesOn(NoFetch)
<1>1. DOMAIN <<>> = {}
  OBVIOUS
<1>2. <<>> = [c \in DOMAIN <<>> |-> <<>>[c]]
  OBVIOUS
<1> QED BY <1>1, <1>2 DEF NoFetch, FetchType, Once, GoesOn

\* A page that is not refused leads to a page that was not fetched before.
LEMMA PageIsNew ==
  ASSUME NEW f, FetchType(f), Once(f), GoesOn(f), NEW page,
         page.next \in Cursors \union {NoPage}, ~Refused(f, page)
  PROVE  /\ FetchType(Visited(f, page)) /\ Once(Visited(f, page))
         /\ page.next # NoPage =>
              /\ FetchType(Follow(Visited(f, page), page.next))
              /\ Once(Follow(Visited(f, page), page.next))
              /\ GoesOn(Follow(Visited(f, page), page.next))
<1> DEFINE g == Visited(f, page)
           h == Follow(g, page.next)
<1>1. f.cursor \notin DOMAIN f.visits
  BY DEF GoesOn, FetchType
<1>2. /\ g.cursor = f.cursor /\ g.seen = f.seen /\ g.pages = With(f.pages, f.cursor, page)
      /\ g.visits = With(f.visits, f.cursor, 1)
      /\ g = [cursor |-> g.cursor, seen |-> g.seen, pages |-> g.pages, visits |-> g.visits]
  <2> DEFINE e == With(f.pages, f.cursor, page)
             i == With(f.visits, f.cursor, 1)
  <2>1. g = [f EXCEPT !.pages = e, !.visits = i]
    BY <1>1 DEF Visited
  <2>2. f = [cursor |-> f.cursor, seen |-> f.seen, pages |-> f.pages, visits |-> f.visits]
    BY DEF FetchType
  <2> HIDE DEF e, g, i
  <2>3. g = [cursor |-> f.cursor, seen |-> f.seen, pages |-> e, visits |-> i]
    BY <2>1, <2>2
  <2> QED BY <2>3 DEF e, i
<1>3. /\ DOMAIN g.pages = {f.cursor} \union DOMAIN f.pages
      /\ DOMAIN g.visits = {f.cursor} \union DOMAIN f.visits
      /\ \A c \in DOMAIN g.visits : g.visits[c] = IF c = f.cursor THEN 1 ELSE f.visits[c]
      /\ g.visits = [c \in DOMAIN g.visits |-> g.visits[c]]
  BY <1>2 DEF With
<1>4. FetchType(g) /\ Once(g)
  BY <1>2, <1>3 DEF FetchType, Once, GoesOn
<1>5. ASSUME page.next # NoPage
      PROVE  FetchType(h) /\ Once(h) /\ GoesOn(h)
  <2>1. h = [cursor |-> page.next, seen |-> f.seen \union {page.next}, pages |-> g.pages,
             visits |-> g.visits]
    <3>1. h = [g EXCEPT !.cursor = page.next, !.seen = g.seen \union {page.next}]
      BY DEF Follow
    <3> HIDE DEF g, h
    <3> QED BY <1>2, <3>1
  <2>2. page.next \in Cursors /\ page.next \notin f.seen /\ page.next # First
    BY <1>5, ApiAssumption DEF Refused
  <2>3. page.next \notin DOMAIN g.pages
    BY <1>3, <2>2 DEF FetchType, GoesOn
  <2> QED BY <1>3, <1>4, <2>1, <2>2, <2>3 DEF FetchType, Once, GoesOn
<1> QED BY <1>4, <1>5

\* Pages are at cursors of their own, and the next one is a new one.
LEMMA FetchInvariant == Spec => []FetchInv
<1>1. Init => FetchInv
  BY NewFetch DEF Init, FetchInv
<1>2. FramingInv /\ FetchInv /\ [Next]_vars => FetchInv'
  <2> SUFFICES ASSUME FramingInv, FetchInv, [Next]_vars PROVE FetchInv'
    OBVIOUS
  <2>1. CASE UsagePage
    <3>1. PICK page \in PagesFor(fetch, UsagePages) :
            LET f == Visited(fetch, page)
            IN \/ UNCHANGED fetch /\ step' = "answered"
               \/ ~Refused(fetch, page) /\ page.next # NoPage /\ fetch' = Follow(f, page.next)
                  /\ UNCHANGED step
               \/ ~Refused(fetch, page) /\ fetch' = f /\ step' = "bill"
      BY <2>1 DEF UsagePage, Send
    <3>2. step = "usage" /\ bill' = bill
      BY <2>1 DEF UsagePage
    <3>3. FetchType(fetch) /\ Once(fetch) /\ GoesOn(fetch)
      BY <3>2 DEF FetchInv
    <3>4. page \in UsagePages /\ page.next \in Cursors \union {NoPage}
      BY <3>3, ApiAssumption DEF PagesFor, GoesOn
    <3>5. \/ UNCHANGED fetch /\ step' = "answered"
          \/ FetchType(fetch') /\ Once(fetch') /\ GoesOn(fetch') /\ UNCHANGED step
          \/ FetchType(fetch') /\ Once(fetch') /\ step' = "bill"
      BY <3>1, <3>3, <3>4, PageIsNew
    <3> QED BY <3>2, <3>5 DEF FetchInv
  <2>2. CASE CostsPage
    <3>1. PICK page \in PagesFor(bill, CostsPages) :
            LET f == Visited(bill, page)
            IN \/ UNCHANGED bill /\ step' = "answered"
               \/ ~Refused(bill, page) /\ page.next # NoPage /\ bill' = Follow(f, page.next)
                  /\ UNCHANGED step
               \/ ~Refused(bill, page) /\ bill' = f /\ step' = "answered"
      BY <2>2 DEF CostsPage, Send
    <3>2. step = "bill" /\ fetch' = fetch
      BY <2>2 DEF CostsPage
    <3>3. FetchType(bill) /\ Once(bill) /\ GoesOn(bill)
      BY <3>2 DEF FetchInv
    <3>4. page \in CostsPages /\ page.next \in Cursors \union {NoPage}
      BY <3>3, ApiAssumption DEF PagesFor, GoesOn
    <3>5. \/ UNCHANGED bill /\ step' = "answered"
          \/ FetchType(bill') /\ Once(bill') /\ GoesOn(bill') /\ UNCHANGED step
          \/ FetchType(bill') /\ Once(bill') /\ step' = "answered"
      BY <3>1, <3>3, <3>4, PageIsNew
    <3> QED BY <3>2, <3>5 DEF FetchInv
  <2>3. ASSUME UNCHANGED <<fetch, bill>>,
               \/ step' = step
               \/ step' \in {"waiting", "answered"}
               \/ step \in {"received", "body", "data"} /\ step' \in {"body", "data", "check", "serve", "usage"}
        PROVE  FetchInv'
    BY <2>3 DEF FetchInv
  <2>4. CASE RefuseRequest \/ RefuseLength
    BY <2>3, <2>4 DEF RefuseRequest, RefuseLength, Refuse, Send, Untouched
  <2>5. CASE Admit
    <3>1. step' \in {"body", "data", "check", "serve"}
      BY <2>5 DEF Admit
    <3> QED BY <2>3, <2>5, <3>1 DEF Admit, Untouched
  <2>6. CASE ReadBody \/ Serve \/ GiveUp
    BY <2>3, <2>6 DEF ReadBody, Serve, GiveUp, Refuse, Send, Untouched
  <2>7. CASE BeginData
    <3>1. request' = request /\ UNCHANGED <<fetch, bill>> /\ step = "data"
      BY <2>7 DEF BeginData, Untouched
    <3>2. request.key \in {"valid", "absent", "malformed"}
      BY ApiAssumption DEF FramingInv, TypeInv
    <3> QED BY <2>3, <2>7, <3>1, <3>2 DEF BeginData, Send
  <2>8. CASE EmptyDay \/ UsageFails \/ CostsFail
    BY <2>3, <2>8 DEF EmptyDay, UsageFails, CostsFail, Send, Untouched
  <2>9. CASE CheckUpdate \/ ManifestUnavailable \/ CheckUnavailable
    BY <2>3, <2>9 DEF CheckUpdate, ManifestUnavailable, CheckUnavailable, Refuse, Send, Untouched
  <2>10. CASE UNCHANGED vars
    BY <2>3, <2>10 DEF vars
  <2> QED BY <2>1, <2>2, <2>4, <2>5, <2>6, <2>7, <2>8, <2>9, <2>10 DEF Next, Handle
<1> QED BY <1>1, <1>2, ConnectionInvariant, PTL DEF Spec

\* No page of an upstream answer is counted twice, whatever cursors come back:
\* _usage_page and _costs_page refuse a cursor that was followed before.
THEOREM PagesAreCountedOnce == Spec => []PagesOnce
<1>1. FetchInv => PagesOnce
  BY DEF FetchInv, PagesOnce
<1> QED BY <1>1, FetchInvariant, PTL

-----------------------------------------------------------------------------
(* What is computed from the results                                       *)

\* Finitely many results, each of integer counts.
ResultList(rs) == IsFiniteSet(DOMAIN rs) /\ \A i \in DOMAIN rs : IsResult(rs[i])

\* The tokens of the results at some of the places.
TokensAt(rs, T) == SumFunction([i \in DOMAIN rs |-> IF i \in T THEN Tokens(rs[i]) ELSE 0])

LEMMA TokensAreInt ==
  ASSUME NEW rs, ResultList(rs), NEW i \in DOMAIN rs
  PROVE  Tokens(rs[i]) \in Int /\ rs[i].input \in Int /\ rs[i].output \in Int
<1>1. IsResult(rs[i])
  BY DEF ResultList
<1>2. rs[i].input \in Int /\ rs[i].output \in Int
  BY <1>1, Zenon DEF IsResult
<1> QED BY <1>2 DEF Tokens

LEMMA TokensAtTyped ==
  ASSUME NEW rs, ResultList(rs), NEW T
  PROVE  TokensAt(rs, T) \in Int
<1> DEFINE D == DOMAIN rs
           F == [i \in D |-> IF i \in T THEN Tokens(rs[i]) ELSE 0]
<1>1. F \in [D -> Int] /\ IsFiniteSet(D)
  BY TokensAreInt DEF ResultList
<1>2. TokensAt(rs, T) = SumFunction(F)
  BY DEF TokensAt
<1> HIDE DEF F, D
<1> QED BY <1>1, <1>2, SumTyped

\* Two places that have nothing in common.
LEMMA TokensAtBoth ==
  ASSUME NEW rs, ResultList(rs), NEW T, NEW U, NEW V, T \intersect U \intersect DOMAIN rs = {},
         \A i \in DOMAIN rs : i \in V <=> i \in T \union U
  PROVE  TokensAt(rs, V) = TokensAt(rs, T) + TokensAt(rs, U)
<1> DEFINE D == DOMAIN rs
           F == [i \in D |-> IF i \in T THEN Tokens(rs[i]) ELSE 0]
           G == [i \in D |-> IF i \in U THEN Tokens(rs[i]) ELSE 0]
           H == [i \in D |-> IF i \in V THEN Tokens(rs[i]) ELSE 0]
<1>1. F \in [D -> Int] /\ G \in [D -> Int] /\ IsFiniteSet(D)
  BY TokensAreInt DEF ResultList
<1>2. H = [i \in D |-> F[i] + G[i]]
  <2>1. \A i \in D : H[i] = F[i] + G[i]
    BY TokensAreInt
  <2> QED BY <2>1
<1>3. TokensAt(rs, T) = SumFunction(F) /\ TokensAt(rs, U) = SumFunction(G) /\ TokensAt(rs, V) = SumFunction(H)
  BY DEF TokensAt
<1> HIDE DEF F, G, H, D
<1> QED BY <1>1, <1>2, <1>3, SumPlus

\* What is told apart by a function of the place.
LEMMA TokensAtParts ==
  ASSUME NEW rs, ResultList(rs), NEW T, NEW K, IsFiniteSet(K), NEW m \in [DOMAIN rs -> K]
  PROVE  SumFunction([k \in K |-> TokensAt(rs, {i \in T : m[i] = k})]) = TokensAt(rs, T)
<1> DEFINE D == DOMAIN rs
           F == [i \in D |-> IF i \in T THEN Tokens(rs[i]) ELSE 0]
           Part(k) == [i \in D |-> IF m[i] = k THEN F[i] ELSE 0]
<1>1. F \in [D -> Int] /\ IsFiniteSet(D)
  BY TokensAreInt DEF ResultList
<1>2. ASSUME NEW k PROVE TokensAt(rs, {i \in T : m[i] = k}) = SumFunction(Part(k))
  <2>1. [i \in D |-> IF i \in {j \in T : m[j] = k} THEN Tokens(rs[i]) ELSE 0] = Part(k)
    OBVIOUS
  <2> QED BY <2>1 DEF TokensAt
<1>3. TokensAt(rs, T) = SumFunction(F)
  BY DEF TokensAt
<1>4. [k \in K |-> TokensAt(rs, {i \in T : m[i] = k})] = [k \in K |-> SumFunction(Part(k))]
  BY <1>2
<1> HIDE DEF F
<1>5. SumFunction([k \in K |-> SumFunction(Part(k))]) = SumFunction(F)
  BY <1>1, SumParts
<1> QED BY <1>3, <1>4, <1>5

-----------------------------------------------------------------------------
(* The stored rows                                                         *)

\* The row of a key.
RowOf(rs, k) ==
  [key    |-> k,
   input  |-> SumOf(rs, LAMBDA r : r.input,  LAMBDA r : KeyOf(r) = k),
   cached |-> SumOf(rs, LAMBDA r : r.cached, LAMBDA r : KeyOf(r) = k),
   output |-> SumOf(rs, LAMBDA r : r.output, LAMBDA r : KeyOf(r) = k)]

KeysOf(rs) == {KeyOf(rs[i]) : i \in DOMAIN rs}
OfKeys(rs, A) == {i \in DOMAIN rs : KeyOf(rs[i]) \in A}

\* A row for every key.
LEMMA StoredKeys ==
  ASSUME NEW rs
  PROVE  /\ StoredRows(rs) = {RowOf(rs, k) : k \in KeysOf(rs)}
         /\ \A k : RowOf(rs, k).key = k
         /\ \A row \in StoredRows(rs) : row.key \in KeysOf(rs)
<1>1. StoredRows(rs) = {RowOf(rs, k) : k \in KeysOf(rs)}
  BY Zenon DEF StoredRows, RowOf, KeysOf
<1>2. \A k : RowOf(rs, k).key = k
  BY DEF RowOf
<1> QED BY <1>1, <1>2

LEMMA KeysFinite ==
  ASSUME NEW rs, ResultList(rs)
  PROVE  IsFiniteSet(KeysOf(rs)) /\ IsFiniteSet({rs[i].project : i \in DOMAIN rs})
<1> DEFINE D == DOMAIN rs
           f == [i \in D |-> KeyOf(rs[i])]
           g == [i \in D |-> rs[i].project]
           P == {rs[i].project : i \in D}
<1>1. IsFiniteSet(D)
  BY DEF ResultList
<1>2. f \in Surjection(D, KeysOf(rs)) /\ g \in Surjection(D, P)
  BY DEF Surjection, KeysOf
<1> HIDE DEF D, P, f, g
<1>3. IsFiniteSet(KeysOf(rs)) /\ IsFiniteSet(P)
  BY <1>1, <1>2, FS_Surjection
<1> QED BY <1>3 DEF P, D

\* A stored row has the tokens of the results with its key.
LEMMA RowTokens ==
  ASSUME NEW rs, ResultList(rs), NEW k
  PROVE  Tokens(RowOf(rs, k)) = TokensAt(rs, OfKeys(rs, {k}))
<1> DEFINE D == DOMAIN rs
           F == [i \in D |-> IF KeyOf(rs[i]) = k THEN rs[i].input ELSE 0]
           G == [i \in D |-> IF KeyOf(rs[i]) = k THEN rs[i].output ELSE 0]
           H == [i \in D |-> IF i \in OfKeys(rs, {k}) THEN Tokens(rs[i]) ELSE 0]
<1>1. F \in [D -> Int] /\ G \in [D -> Int] /\ IsFiniteSet(D)
  BY TokensAreInt DEF ResultList
<1>2. H = [i \in D |-> F[i] + G[i]]
  <2>1. \A i \in D : H[i] = F[i] + G[i]
    BY DEF OfKeys, Tokens
  <2> QED BY <2>1
<1>3. Tokens(RowOf(rs, k)) = SumFunction(F) + SumFunction(G)
  BY DEF RowOf, Tokens, SumOf
<1>4. TokensAt(rs, OfKeys(rs, {k})) = SumFunction(H)
  BY DEF TokensAt
<1> HIDE DEF F, G, H, D
<1> QED BY <1>1, <1>2, <1>3, <1>4, SumPlus

\* The rows of some keys have the tokens of the results with those keys.
LEMMA StoredSum ==
  ASSUME NEW rs, ResultList(rs), NEW A
  PROVE  SumRows({row \in StoredRows(rs) : row.key \in A}) = TokensAt(rs, OfKeys(rs, A))
<1> DEFINE K == KeysOf(rs)
           B == {k \in K : k \in A}
           S == {row \in StoredRows(rs) : row.key \in A}
           F == [k \in K |-> Tokens(RowOf(rs, k))]
           FB == [k \in B |-> F[k]]
           G == [row \in S |-> Tokens(row)]
           m == [k \in B |-> RowOf(rs, k)]
<1>1. StoredRows(rs) = {RowOf(rs, k) : k \in K}
  BY StoredKeys
<1>2. \A k : RowOf(rs, k).key = k
  BY StoredKeys
<1>3. S = {RowOf(rs, k) : k \in B}
  BY <1>1, <1>2
<1>4. IsFiniteSet(K) /\ IsFiniteSet(B)
  BY KeysFinite, FS_Subset
<1>5. IsFiniteSet(S)
  <2>1. m \in Surjection(B, S)
    BY <1>3 DEF Surjection
  <2> HIDE DEF B, S, m
  <2> QED BY <1>4, <2>1, FS_Surjection
<1>6. F \in [K -> Int]
  BY RowTokens, TokensAtTyped
<1>7. SumFunction(G) = SumFunction(FB)
  <2>1. FB \in [B -> Int] /\ m \in [B -> S]
    BY <1>3, <1>6
  <2>2. G \in [S -> Int] /\ \A k \in B : FB[k] = G[m[k]]
    BY <1>3, <1>6
  <2>3. (\A row \in S : \E k \in B : m[k] = row) /\ \A k, l \in B : m[k] = m[l] => k = l
    BY <1>2, <1>3
  <2> HIDE DEF B, S, FB, G, m
  <2> QED BY <1>4, <1>5, <2>1, <2>2, <2>3, SumImage
<1>8. SumFunction(FB) = SumFunction([k \in K |-> IF k \in B THEN F[k] ELSE 0])
  <2>1. B \in SUBSET K
    OBVIOUS
  <2> HIDE DEF B, F, K
  <2> QED BY <1>4, <1>6, <2>1, SumSubset
<1>9. SumFunction([k \in K |-> IF k \in B THEN F[k] ELSE 0]) = TokensAt(rs, OfKeys(rs, A))
  <2> DEFINE T == OfKeys(rs, A)
             n == [i \in DOMAIN rs |-> KeyOf(rs[i])]
  <2>1. n \in [DOMAIN rs -> K]
    BY DEF KeysOf
  <2>2. ASSUME NEW k \in K
        PROVE  TokensAt(rs, {i \in T : n[i] = k}) = IF k \in B THEN F[k] ELSE 0
    <3>1. CASE k \in B
      <4>1. {i \in T : n[i] = k} = OfKeys(rs, {k})
        BY <3>1 DEF OfKeys
      <4> QED BY <3>1, <4>1, RowTokens
    <3>2. CASE k \notin B
      <4>1. {i \in T : n[i] = k} = {}
        BY <3>2 DEF OfKeys
      <4>2. TokensAt(rs, {}) = SumFunction([i \in DOMAIN rs |-> 0])
        BY DEF TokensAt
      <4>3. TokensAt(rs, {}) = 0
        BY <4>2, SumZero DEF ResultList
      <4> QED BY <3>2, <4>1, <4>3
    <3> QED BY <3>1, <3>2
  <2>3. [k \in K |-> TokensAt(rs, {i \in T : n[i] = k})] = [k \in K |-> IF k \in B THEN F[k] ELSE 0]
    BY <2>2
  <2> HIDE DEF B, F, K, T, n
  <2>4. SumFunction([k \in K |-> TokensAt(rs, {i \in T : n[i] = k})]) = TokensAt(rs, T)
    BY <1>4, <2>1, TokensAtParts
  <2> QED BY <2>3, <2>4 DEF T
<1>10. SumRows(S) = SumFunction(G)
  BY DEF SumRows
<1> QED BY <1>7, <1>8, <1>9, <1>10

-----------------------------------------------------------------------------
(* One story                                                               *)

\* The places of the results of a group, by the live summary; of those that
\* the history counts in addition; and of the others, by either.
LiveAt(rs, g) == {i \in DOMAIN rs : Complimentary(rs[i]) /\ FindModel(rs[i].model).group = g}
OffAt(rs, g) == {i \in DOMAIN rs : /\ IsIncentivized(rs[i].tier)
                                   /\ FindModel(rs[i].model).group = g
                                   /\ FindModel(rs[i].model).eligible
                                   /\ ~FindModel(rs[i].model).enabled}
\* What CountsForDay looks at.
KeyCounts(k) ==
  IsIncentivized(k.tier) /\ FindModel(k.model) # NoEntry /\ FindModel(k.model).eligible

\* A name without blanks is stored as it is, and a tier keeps what it means.
LEMMA StoredMeansTheSame ==
  ASSUME NEW r, IsResult(r), r.model.form # "blanks"
  PROVE  /\ KeyOf(r).project = r.project
         /\ KeyOf(r).model = r.model
         /\ IsIncentivized(KeyOf(r).tier) <=> IsIncentivized(r.tier)
<1>1. r.model = [id |-> r.model.id, form |-> r.model.form] /\ r.tier = [kind |-> r.tier.kind, form |-> r.tier.form]
  BY Zenon DEF IsResult
<1>2. StoredName(r.model) = r.model
  <2>1. StoredName(r.model) = [r.model EXCEPT !.form = r.model.form]
    BY DEF StoredName
  <2>2. [r.model EXCEPT !.form = r.model.form] = r.model
    BY <1>1
  <2> QED BY <2>1, <2>2
<1>3. StoredTier(r.tier).kind = r.tier.kind
  <2> DEFINE t == r.tier
             a == t.kind
             b == t.form
  <2>1. t = [kind |-> a, form |-> b]
    BY <1>1
  <2> HIDE DEF t, a, b
  <2>2. [t EXCEPT !.form = "canonical"].kind = a
    BY <2>1
  <2> QED BY <2>2 DEF StoredTier, t, a
<1>4. KeyOf(r) = [project |-> r.project, model |-> r.model, tier |-> StoredTier(r.tier)]
  BY <1>2 DEF KeyOf
<1> DEFINE p == r.project
           n == r.model
           u == StoredTier(r.tier)
<1>5. KeyOf(r).project = p /\ KeyOf(r).model = n /\ KeyOf(r).tier = u
  <2> HIDE DEF p, n, u
  <2>1. \A k : k = [project |-> p, model |-> n, tier |-> u] => k.project = p /\ k.model = n /\ k.tier = u
    OBVIOUS
  <2> QED BY <1>4, <2>1, Zenon DEF p, n, u
<1> QED BY <1>3, <1>5 DEF IsIncentivized

\* An entry that is found is one of the catalog.
LEMMA FoundModel ==
  ASSUME NEW name
  PROVE  \/ FindModel(name) = NoEntry
         \/ /\ FindModel(name).group \in Groups
            /\ FindModel(name).enabled \in BOOLEAN /\ FindModel(name).eligible \in BOOLEAN
<1>1. \A m \in Models : m.group \in Groups /\ m.enabled \in BOOLEAN /\ m.eligible \in BOOLEAN
  BY CatalogAssumption, Zenon DEF ValidCatalog
<1>2. CASE name.form = "blanks" \/ Named(name.id) = {}
  BY <1>2 DEF FindModel
<1>3. CASE ~(name.form = "blanks" \/ Named(name.id) = {})
  <2>1. FindModel(name) \in Named(name.id)
    BY <1>3, Zenon DEF FindModel
  <2>2. FindModel(name) \in Models
    BY <2>1, Zenon DEF Named
  <2> QED BY <1>1, <2>2
<1> QED BY <1>2, <1>3

LEMMA NoGroup == IsFiniteSet(Groups) /\ Groups # {} /\ NoEntry.group \notin Groups
<1>1. Groups # {} /\ Groups \subseteq {"standard", "mini"}
  BY CatalogAssumption, Zenon DEF ValidCatalog
<1>2. IsFiniteSet({"standard", "mini"})
  <2>1. IsFiniteSet({} \union {"standard"})
    BY FS_EmptySet, FS_AddElement
  <2>2. IsFiniteSet(({} \union {"standard"}) \union {"mini"})
    BY <2>1, FS_AddElement
  <2>3. ({} \union {"standard"}) \union {"mini"} = {"standard", "mini"}
    OBVIOUS
  <2> QED BY <2>2, <2>3
<1>3. IsFiniteSet(Groups)
  BY <1>1, <1>2, FS_Subset
<1> QED BY <1>1, <1>3 DEF NoEntry

\* The sums of the live summary, by the places they are taken over.
LEMMA LiveSums ==
  ASSUME NEW rs, NEW g \in Groups
  PROVE  /\ Summarize(rs).groups[g] = TokensAt(rs, LiveAt(rs, g))
         /\ Summarize(rs).other = TokensAt(rs, {i \in DOMAIN rs : ~Complimentary(rs[i])})
         /\ DOMAIN Summarize(rs).groups = Groups
         /\ Summarize(rs).groups = [h \in Groups |-> Summarize(rs).groups[h]]
         /\ SumOf(rs, Tokens, LAMBDA r : TRUE) = TokensAt(rs, DOMAIN rs)
         /\ SumOf(rs, Tokens, LAMBDA r : /\ IsIncentivized(r.tier)
                                         /\ FindModel(r.model).group = g
                                         /\ FindModel(r.model).eligible
                                         /\ ~FindModel(r.model).enabled) = TokensAt(rs, OffAt(rs, g))
<1> DEFINE D == DOMAIN rs
<1>1. SumOf(rs, Tokens, LAMBDA r : Complimentary(r) /\ FindModel(r.model).group = g)
        = TokensAt(rs, LiveAt(rs, g))
  <2>1. [i \in D |-> IF Complimentary(rs[i]) /\ FindModel(rs[i].model).group = g THEN Tokens(rs[i]) ELSE 0]
          = [i \in D |-> IF i \in LiveAt(rs, g) THEN Tokens(rs[i]) ELSE 0]
    BY DEF LiveAt
  <2> QED BY <2>1 DEF SumOf, TokensAt
<1>2. SumOf(rs, Tokens, LAMBDA r : ~Complimentary(r))
        = TokensAt(rs, {i \in D : ~Complimentary(rs[i])})
  <2>1. [i \in D |-> IF ~Complimentary(rs[i]) THEN Tokens(rs[i]) ELSE 0]
          = [i \in D |-> IF i \in {j \in D : ~Complimentary(rs[j])} THEN Tokens(rs[i]) ELSE 0]
    OBVIOUS
  <2> QED BY <2>1 DEF SumOf, TokensAt
<1>3. SumOf(rs, Tokens, LAMBDA r : TRUE) = TokensAt(rs, D)
  <2>1. [i \in D |-> IF TRUE THEN Tokens(rs[i]) ELSE 0] = [i \in D |-> IF i \in D THEN Tokens(rs[i]) ELSE 0]
    OBVIOUS
  <2> QED BY <2>1 DEF SumOf, TokensAt
<1>4. SumOf(rs, Tokens, LAMBDA r : /\ IsIncentivized(r.tier)
                                   /\ FindModel(r.model).group = g
                                   /\ FindModel(r.model).eligible
                                   /\ ~FindModel(r.model).enabled) = TokensAt(rs, OffAt(rs, g))
  <2>1. [i \in D |-> IF /\ IsIncentivized(rs[i].tier)
                        /\ FindModel(rs[i].model).group = g
                        /\ FindModel(rs[i].model).eligible
                        /\ ~FindModel(rs[i].model).enabled THEN Tokens(rs[i]) ELSE 0]
          = [i \in D |-> IF i \in OffAt(rs, g) THEN Tokens(rs[i]) ELSE 0]
    BY DEF OffAt
  <2> QED BY <2>1 DEF SumOf, TokensAt
<1>5. /\ Summarize(rs).groups = [h \in Groups |-> SumOf(rs, Tokens,
                                   LAMBDA r : Complimentary(r) /\ FindModel(r.model).group = h)]
      /\ Summarize(rs).other = SumOf(rs, Tokens, LAMBDA r : ~Complimentary(r))
  BY DEF Summarize
<1> QED BY <1>1, <1>2, <1>3, <1>4, <1>5

\* What a rule on a group observes in the stored rows of some projects.
LEMMA Observed ==
  ASSUME NEW rs, ResultList(rs), \A i \in DOMAIN rs : rs[i].model.form # "blanks",
         NEW g \in Groups, NEW P
  PROVE  ObservedTokens(StoredRows(rs), g, P)
           = TokensAt(rs, {i \in LiveAt(rs, g) : rs[i].project \in P})
<1> DEFINE A == {k \in KeysOf(rs) : /\ k.project \in P /\ KeyCounts(k)
                                    /\ FindModel(k.model).enabled /\ FindModel(k.model).group = g}
<1>1. \A row \in StoredRows(rs) : row.key \in KeysOf(rs)
  BY StoredKeys
<1>2. {row \in RowsOf(StoredRows(rs), P) : /\ CountsForDay(row) /\ FindModel(row.key.model).enabled
                                            /\ FindModel(row.key.model).group = g}
        = {row \in StoredRows(rs) : row.key \in A}
  BY <1>1 DEF RowsOf, CountsForDay, KeyCounts
<1>3. OfKeys(rs, A) = {i \in LiveAt(rs, g) : rs[i].project \in P}
  <2>1. ASSUME NEW i \in DOMAIN rs
        PROVE  KeyOf(rs[i]) \in A <=>
                 /\ Complimentary(rs[i]) /\ FindModel(rs[i].model).group = g /\ rs[i].project \in P
    <3> DEFINE k == KeyOf(rs[i])
    <3>1. k \in KeysOf(rs)
      BY DEF KeysOf
    <3>2. /\ k.project = rs[i].project /\ k.model = rs[i].model
          /\ IsIncentivized(k.tier) <=> IsIncentivized(rs[i].tier)
      BY StoredMeansTheSame DEF ResultList
    <3> HIDE DEF k
    <3>3. k \in A <=> /\ Complimentary(rs[i]) /\ FindModel(rs[i].model).group = g
                      /\ rs[i].project \in P
      BY <3>1, <3>2 DEF KeyCounts, Complimentary
    <3> QED BY <3>3 DEF k
  <2> HIDE DEF A
  <2> QED BY <2>1 DEF OfKeys, LiveAt
<1>4. SumRows({row \in StoredRows(rs) : row.key \in A}) = TokensAt(rs, OfKeys(rs, A))
  BY StoredSum
<1> QED BY <1>2, <1>3, <1>4 DEF ObservedTokens

\* The daily history of the stored rows.
LEMMA HistorySums ==
  ASSUME NEW rs, ResultList(rs), \A i \in DOMAIN rs : rs[i].model.form # "blanks", NEW g \in Groups
  PROVE  /\ DailyUsage(StoredRows(rs)).groups[g] = TokensAt(rs, LiveAt(rs, g) \union OffAt(rs, g))
         /\ DailyUsage(StoredRows(rs)).groups = [h \in Groups |-> DailyUsage(StoredRows(rs)).groups[h]]
         /\ DailyUsage(StoredRows(rs)).other
              = TokensAt(rs, {i \in DOMAIN rs : ~KeyCounts(KeyOf(rs[i]))})
<1> DEFINE rows == StoredRows(rs)
           A == {k \in KeysOf(rs) : KeyCounts(k) /\ FindModel(k.model).group = g}
           B == {k \in KeysOf(rs) : ~KeyCounts(k)}
           counted == {row \in rows : CountsForDay(row)}
<1>1. \A row \in rows : row.key \in KeysOf(rs)
  BY StoredKeys
<1>2. {row \in counted : FindModel(row.key.model).group = g} = {row \in rows : row.key \in A}
  <2> HIDE DEF rows
  <2> QED BY <1>1 DEF CountsForDay, KeyCounts
<1>3. rows \ counted = {row \in rows : row.key \in B}
  <2> HIDE DEF rows
  <2> QED BY <1>1 DEF CountsForDay, KeyCounts
<1>4. OfKeys(rs, A) = LiveAt(rs, g) \union OffAt(rs, g)
  <2>1. ASSUME NEW i \in DOMAIN rs
        PROVE  KeyOf(rs[i]) \in A <=> i \in LiveAt(rs, g) \/ i \in OffAt(rs, g)
    <3> DEFINE k == KeyOf(rs[i])
               e == FindModel(rs[i].model)
    <3>1. k \in KeysOf(rs)
      BY DEF KeysOf
    <3>2. k.model = rs[i].model /\ (IsIncentivized(k.tier) <=> IsIncentivized(rs[i].tier))
      BY StoredMeansTheSame DEF ResultList
    <3>3. k \in A <=> IsIncentivized(rs[i].tier) /\ e # NoEntry /\ e.eligible /\ e.group = g
      <4> HIDE DEF k
      <4> QED BY <3>1, <3>2 DEF KeyCounts
    <3>4. i \in LiveAt(rs, g) <=> /\ IsIncentivized(rs[i].tier) /\ e # NoEntry /\ e.enabled
                                  /\ e.eligible /\ e.group = g
      BY DEF LiveAt, Complimentary
    <3>5. i \in OffAt(rs, g) <=> /\ IsIncentivized(rs[i].tier) /\ e.group = g /\ e.eligible /\ ~e.enabled
      BY DEF OffAt
    <3>6. e = NoEntry => e.group # g
      BY NoGroup
    <3>7. k \in A <=> i \in LiveAt(rs, g) \/ i \in OffAt(rs, g)
      <4> HIDE DEF A, k, e
      <4> QED BY <3>3, <3>4, <3>5, <3>6
    <3> QED BY <3>7 DEF k
  <2> HIDE DEF A
  <2> QED BY <2>1 DEF OfKeys, LiveAt, OffAt
<1>5. OfKeys(rs, B) = {i \in DOMAIN rs : ~KeyCounts(KeyOf(rs[i]))}
  BY DEF OfKeys, KeysOf
<1>6. SumRows({row \in rows : row.key \in A}) = TokensAt(rs, OfKeys(rs, A))
      /\ SumRows({row \in rows : row.key \in B}) = TokensAt(rs, OfKeys(rs, B))
  BY StoredSum
<1>7. /\ DailyUsage(rows).groups = [h \in Groups |-> SumRows({row \in counted : FindModel(row.key.model).group = h})]
      /\ DailyUsage(rows).other = SumRows(rows \ counted)
  BY DEF DailyUsage
<1> HIDE DEF A, B, counted
<1> QED BY <1>2, <1>3, <1>4, <1>5, <1>6, <1>7

\* Of whatever results, provided that no name has blanks around it.
LEMMA ResultsAgree ==
  ASSUME NEW rs, ResultList(rs), \A i \in DOMAIN rs : rs[i].model.form # "blanks"
  PROVE  Agreement(rs, Summarize(rs))
<1> DEFINE D == DOMAIN rs
           rows == StoredRows(rs)
           live == Summarize(rs)
           history == DailyUsage(rows)
           projects == ProjectsOf(rows)
<1>1. projects = {rs[i].project : i \in D} /\ IsFiniteSet(projects)
  <2>1. \A i \in D : KeyOf(rs[i]).project = rs[i].project
    BY StoredMeansTheSame DEF ResultList
  <2>2. projects = {k.project : k \in KeysOf(rs)}
    BY StoredKeys DEF ProjectsOf
  <2>3. projects = {rs[i].project : i \in D}
    BY <2>1, <2>2 DEF KeysOf
  <2> QED BY <2>3, KeysFinite
<1>2. ASSUME NEW g \in Groups
      PROVE  live.groups[g] = ObservedTokens(rows, g, projects)
  <2>1. {i \in LiveAt(rs, g) : rs[i].project \in projects} = LiveAt(rs, g)
    BY <1>1 DEF LiveAt
  <2>2. live.groups[g] = TokensAt(rs, LiveAt(rs, g))
    BY LiveSums
  <2>3. ObservedTokens(rows, g, projects) = TokensAt(rs, {i \in LiveAt(rs, g) : rs[i].project \in projects})
    <3> HIDE DEF projects
    <3> QED BY Observed
  <2> QED BY <2>1, <2>2, <2>3
<1>3. ASSUME NEW g \in Groups
      PROVE  live.groups[g] = SumFunction([p \in projects |-> ObservedTokens(rows, g, {p})])
  <2> DEFINE m == [i \in D |-> rs[i].project]
             T == LiveAt(rs, g)
  <2>1. m \in [D -> projects]
    BY <1>1
  <2>2. ASSUME NEW p \in projects
        PROVE  ObservedTokens(rows, g, {p}) = TokensAt(rs, {i \in T : m[i] = p})
    <3>1. {i \in T : rs[i].project \in {p}} = {i \in T : m[i] = p}
      BY DEF LiveAt
    <3>2. ObservedTokens(rows, g, {p}) = TokensAt(rs, {i \in LiveAt(rs, g) : rs[i].project \in {p}})
      <4> HIDE DEF projects
      <4> QED BY Observed
    <3> QED BY <3>1, <3>2
  <2>3. [p \in projects |-> ObservedTokens(rows, g, {p})]
          = [p \in projects |-> TokensAt(rs, {i \in T : m[i] = p})]
    BY <2>2
  <2>4. live.groups[g] = TokensAt(rs, T)
    BY LiveSums
  <2> HIDE DEF m, T, projects, live, rows
  <2>5. SumFunction([p \in projects |-> TokensAt(rs, {i \in T : m[i] = p})]) = TokensAt(rs, T)
    BY <1>1, <2>1, TokensAtParts
  <2> QED BY <2>3, <2>4, <2>5
<1>4. ASSUME NEW g \in Groups
      PROVE  history.groups[g] = live.groups[g] + TokensAt(rs, OffAt(rs, g))
  <2>1. LiveAt(rs, g) \intersect OffAt(rs, g) = {}
    BY DEF LiveAt, OffAt, Complimentary
  <2>2. TokensAt(rs, LiveAt(rs, g) \union OffAt(rs, g)) = TokensAt(rs, LiveAt(rs, g)) + TokensAt(rs, OffAt(rs, g))
    BY <2>1, TokensAtBoth
  <2> QED BY <2>2, LiveSums, HistorySums
<1>5. PICK g0 \in Groups : TRUE
  BY NoGroup
<1>6. live.other + SumFunction(live.groups) = TokensAt(rs, D)
  <2> DEFINE T == {i \in D : Complimentary(rs[i])}
             U == {i \in D : ~Complimentary(rs[i])}
             m == [i \in D |-> IF i \in T THEN FindModel(rs[i].model).group ELSE g0]
  <2>1. m \in [D -> Groups]
    <3>1. \A i \in T : FindModel(rs[i].model).group \in Groups
      BY FoundModel DEF Complimentary
    <3> HIDE DEF T
    <3> QED BY <1>5, <3>1
  <2>2. \A g \in Groups : {i \in T : m[i] = g} = LiveAt(rs, g)
    BY DEF LiveAt
  <2>3. live.groups = [g \in Groups |-> TokensAt(rs, {i \in T : m[i] = g})]
    <3>1. \A g \in Groups : live.groups[g] = TokensAt(rs, LiveAt(rs, g))
      BY LiveSums
    <3>2. live.groups = [g \in Groups |-> live.groups[g]]
      BY <1>5, LiveSums
    <3> HIDE DEF live, T, m
    <3> QED BY <2>2, <3>1, <3>2
  <2>4. live.other = TokensAt(rs, U)
    BY <1>5, LiveSums
  <2>5. T \intersect U \intersect D = {} /\ \A i \in D : i \in D <=> i \in U \union T
    OBVIOUS
  <2> HIDE DEF m, T, U, live
  <2>6. SumFunction([g \in Groups |-> TokensAt(rs, {i \in T : m[i] = g})]) = TokensAt(rs, T)
    BY <2>1, NoGroup, TokensAtParts
  <2>7. TokensAt(rs, D) = TokensAt(rs, U) + TokensAt(rs, T)
    BY <2>5, TokensAtBoth
  <2> QED BY <2>3, <2>4, <2>6, <2>7
<1>7. history.other + SumFunction(history.groups) = TokensAt(rs, D)
  <2> DEFINE T == {i \in D : KeyCounts(KeyOf(rs[i]))}
             U == {i \in D : ~KeyCounts(KeyOf(rs[i]))}
             m == [i \in D |-> IF i \in T THEN FindModel(rs[i].model).group ELSE g0]
  <2>0. \A i \in D : /\ KeyOf(rs[i]).model = rs[i].model
                     /\ IsIncentivized(KeyOf(rs[i]).tier) <=> IsIncentivized(rs[i].tier)
    BY StoredMeansTheSame DEF ResultList
  <2>1. m \in [D -> Groups]
    <3>1. \A i \in T : FindModel(rs[i].model).group \in Groups
      BY <2>0, FoundModel DEF KeyCounts
    <3> HIDE DEF T
    <3> QED BY <1>5, <3>1
  <2>2. ASSUME NEW g \in Groups
        PROVE  {i \in T : m[i] = g} = LiveAt(rs, g) \union OffAt(rs, g)
    <3>1. ASSUME NEW i \in D
          PROVE  i \in T /\ m[i] = g <=> i \in LiveAt(rs, g) \union OffAt(rs, g)
      <4> DEFINE e == FindModel(rs[i].model)
      <4>1. i \in T <=> IsIncentivized(rs[i].tier) /\ e # NoEntry /\ e.eligible
        BY <2>0 DEF KeyCounts
      <4>2. i \in T => m[i] = e.group
        OBVIOUS
      <4>3. i \in LiveAt(rs, g) <=> /\ IsIncentivized(rs[i].tier) /\ e # NoEntry /\ e.enabled
                                    /\ e.eligible /\ e.group = g
        BY DEF LiveAt, Complimentary
      <4>4. i \in OffAt(rs, g) <=> /\ IsIncentivized(rs[i].tier) /\ e.group = g /\ e.eligible /\ ~e.enabled
        BY DEF OffAt
      <4>5. e = NoEntry => e.group # g
        BY NoGroup
      <4> HIDE DEF T, m, e
      <4> QED BY <4>1, <4>2, <4>3, <4>4, <4>5
    <3> HIDE DEF m
    <3> QED BY <3>1 DEF LiveAt, OffAt
  <2>3. history.groups = [g \in Groups |-> TokensAt(rs, {i \in T : m[i] = g})]
    <3>1. \A g \in Groups : history.groups[g] = TokensAt(rs, LiveAt(rs, g) \union OffAt(rs, g))
      BY HistorySums
    <3>2. history.groups = [g \in Groups |-> history.groups[g]]
      BY <1>5, HistorySums
    <3> HIDE DEF history, T, m
    <3> QED BY <2>2, <3>1, <3>2
  <2>4. history.other = TokensAt(rs, U)
    BY <1>5, HistorySums
  <2>5. T \intersect U \intersect D = {} /\ \A i \in D : i \in D <=> i \in U \union T
    OBVIOUS
  <2> HIDE DEF m, T, U, history
  <2>6. SumFunction([g \in Groups |-> TokensAt(rs, {i \in T : m[i] = g})]) = TokensAt(rs, T)
    BY <2>1, NoGroup, TokensAtParts
  <2>7. TokensAt(rs, D) = TokensAt(rs, U) + TokensAt(rs, T)
    BY <2>5, TokensAtBoth
  <2> QED BY <2>3, <2>4, <2>6, <2>7
<1>8. SumFunction([row \in Export(rows, "exclude") |-> row.tokens]) = TokensAt(rs, D)
  <2> DEFINE K == KeysOf(rs)
             E == Export(rows, "exclude")
             m == [k \in K |-> [key |-> k, tokens |-> Tokens(RowOf(rs, k)), shown |-> ""]]
             F == [k \in K |-> TokensAt(rs, OfKeys(rs, {k}))]
             G == [row \in E |-> row.tokens]
  <2>1. E = {m[k] : k \in K}
    <3>1. E = {[key |-> row.key, tokens |-> Tokens(row), shown |-> ""] : row \in rows}
      BY DEF Export
    <3>2. rows = {RowOf(rs, k) : k \in K} /\ \A k : RowOf(rs, k).key = k
      BY StoredKeys
    <3>3. \A k \in K : m[k] = [key |-> RowOf(rs, k).key, tokens |-> Tokens(RowOf(rs, k)), shown |-> ""]
      BY <3>2
    <3> HIDE DEF rows, K, E, m
    <3>4. E = {[key |-> RowOf(rs, k).key, tokens |-> Tokens(RowOf(rs, k)), shown |-> ""] : k \in K}
      BY <3>1, <3>2, Zenon
    <3> QED BY <3>3, <3>4, Zenon
  <2>2. IsFiniteSet(K) /\ IsFiniteSet(E)
    <3>1. IsFiniteSet(K)
      BY KeysFinite
    <3>2. m \in Surjection(K, E)
      BY <2>1 DEF Surjection
    <3> HIDE DEF K, E, m
    <3> QED BY <3>1, <3>2, FS_Surjection
  <2>3. F \in [K -> Int] /\ \A k \in K : F[k] = m[k].tokens
    BY RowTokens, TokensAtTyped
  <2>4. m \in [K -> E] /\ (\A e \in E : \E k \in K : m[k] = e) /\ (\A k \in K : m[k].key = k)
    <3>1. \A k \in K : m[k].key = k
      OBVIOUS
    <3> HIDE DEF K, E
    <3> QED BY <2>1, <3>1
  <2>5. G \in [E -> Int] /\ \A k \in K : F[k] = G[m[k]]
    <3> HIDE DEF K, E, F, m
    <3> QED BY <2>3, <2>4
  <2>6. SumFunction(G) = SumFunction(F)
    <3> HIDE DEF K, E, F, G, m
    <3>1. \A k, l \in K : m[k] = m[l] => k = l
      BY <2>4
    <3> QED BY <2>2, <2>3, <2>4, <2>5, <3>1, SumImage
  <2>7. SumFunction(F) = TokensAt(rs, D)
    <3> DEFINE n == [i \in D |-> KeyOf(rs[i])]
    <3>1. n \in [D -> K]
      BY DEF KeysOf
    <3>2. F = [k \in K |-> TokensAt(rs, {i \in D : n[i] = k})]
      <4>1. \A k \in K : OfKeys(rs, {k}) = {i \in D : n[i] = k}
        BY DEF OfKeys
      <4> QED BY <4>1
    <3> HIDE DEF n, K, F
    <3>3. SumFunction([k \in K |-> TokensAt(rs, {i \in D : n[i] = k})]) = TokensAt(rs, D)
      BY <2>2, <3>1, TokensAtParts
    <3> QED BY <3>2, <3>3
  <2> QED BY <2>6, <2>7
<1>9. /\ SumOf(rs, Tokens, LAMBDA r : TRUE) = TokensAt(rs, D)
      /\ \A g \in Groups :
           SumOf(rs, Tokens, LAMBDA r : /\ IsIncentivized(r.tier)
                                        /\ FindModel(r.model).group = g
                                        /\ FindModel(r.model).eligible
                                        /\ ~FindModel(r.model).enabled) = TokensAt(rs, OffAt(rs, g))
  BY <1>5, LiveSums
<1>10. \A g \in Groups :
         /\ live.groups[g] = ObservedTokens(rows, g, ProjectsOf(rows))
         /\ live.groups[g] = SumFunction([p \in ProjectsOf(rows) |-> ObservedTokens(rows, g, {p})])
         /\ history.groups[g] = live.groups[g]
              + SumOf(rs, Tokens, LAMBDA r : /\ IsIncentivized(r.tier)
                                             /\ FindModel(r.model).group = g
                                             /\ FindModel(r.model).eligible
                                             /\ ~FindModel(r.model).enabled)
  <2> HIDE DEF live, rows
  <2> QED BY <1>2, <1>3, <1>4, <1>9, Zenon
<1>11. /\ live.other + SumFunction(live.groups) = SumOf(rs, Tokens, LAMBDA r : TRUE)
       /\ history.other + SumFunction(history.groups) = SumOf(rs, Tokens, LAMBDA r : TRUE)
       /\ SumFunction([row \in Export(rows, "exclude") |-> row.tokens]) = SumOf(rs, Tokens, LAMBDA r : TRUE)
  <2> HIDE DEF live, rows, history
  <2> QED BY <1>6, <1>7, <1>8, <1>9, Zenon
<1> QED BY <1>10, <1>11, Zenon DEF Agreement

-----------------------------------------------------------------------------
(* The pages of a fetch and the live summary                               *)

\* The results of the pages, in the order of AllResults.
PageList(f) ==
  [i \in 1 .. Cardinality(DOMAIN f.pages) |-> f.pages[SetToSeq(DOMAIN f.pages)[i]].results]

\* The pages that were fetched are finitely many of those the API may answer.
PagesType(f, Pages) ==
  IsFiniteSet(DOMAIN f.pages) /\ \A c \in DOMAIN f.pages : f.pages[c] \in Pages

Result == {r \in UNION {{page.results[i] : i \in DOMAIN page.results} : page \in UsagePages} : IsResult(r)}

LEMMA PageResults ==
  ASSUME NEW page \in UsagePages
  PROVE  page.results \in Seq(Result)
<1> DEFINE S == {page.results[i] : i \in DOMAIN page.results}
<1>1. page.results \in Seq(S) /\ \A r \in S : IsResult(r)
  BY ApiAssumption
<1>2. S \subseteq Result
  BY <1>1 DEF Result
<1> HIDE DEF S
<1> QED BY <1>1, <1>2, SeqMonotonic

\* What has been fetched is a list of results.
LEMMA FetchedResults ==
  ASSUME NEW f, PagesType(f, UsagePages)
  PROVE  AllResults(f) \in Seq(Result) /\ ResultList(AllResults(f))
<1> DEFINE D == DOMAIN f.pages
           n == Cardinality(D)
<1>1. n \in Nat /\ \A i \in 1 .. n : SetToSeq(D)[i] \in D
  BY SetToSeqIn DEF PagesType
<1>2. PageList(f) \in [1 .. n -> Seq(Result)]
  <2>1. \A i \in 1 .. n : f.pages[SetToSeq(D)[i]].results \in Seq(Result)
    BY <1>1, PageResults DEF PagesType
  <2> QED BY <2>1 DEF PageList
<1> HIDE DEF n
<1>3. PageList(f) \in Seq(Seq(Result))
  BY <1>1, <1>2, SeqDef
<1>4. AllResults(f) \in Seq(Result)
  <2>1. AllResults(f) = FlattenSeq(PageList(f))
    BY Zenon DEF AllResults, PageList
  <2> QED BY <1>3, <2>1, FlattenType
<1>5. ASSUME NEW rs \in Seq(Result) PROVE ResultList(rs)
  <2>1. DOMAIN rs = 1 .. Len(rs) /\ Len(rs) \in Nat /\ \A i \in 1 .. Len(rs) : rs[i] \in Result
    BY LenProperties, ElementOfSeq
  <2>2. IsFiniteSet(1 .. Len(rs))
    BY <2>1, FS_Interval
  <2>3. \A r \in Result : IsResult(r)
    BY DEF Result
  <2> QED BY <2>1, <2>2, <2>3 DEF ResultList
<1> QED BY <1>4, <1>5

\* Pages that were visited once are collected once.
LEMMA CollectedOnce ==
  ASSUME NEW f, NEW Pages, PagesType(f, Pages), DOMAIN f.pages = DOMAIN f.visits, Once(f)
  PROVE  Collected(f) = [i \in 1 .. Cardinality(DOMAIN f.pages) |-> f.pages[SetToSeq(DOMAIN f.pages)[i]]]
<1> DEFINE D == DOMAIN f.pages
           n == Cardinality(D)
           e == [i \in 1 .. n |-> f.pages[SetToSeq(D)[i]]]
           ones == [i \in 1 .. n |-> <<e[i]>>]
<1>1. n \in Nat /\ \A i \in 1 .. n : SetToSeq(D)[i] \in D
  BY SetToSeqIn DEF PagesType
<1>2. e \in [1 .. n -> Pages]
  BY <1>1 DEF PagesType
<1>3. Collected(f) = FlattenSeq(ones)
  <2>1. Collected(f) = FlattenSeq([i \in 1 .. n |->
                         [k \in 1 .. f.visits[SetToSeq(D)[i]] |-> f.pages[SetToSeq(D)[i]]]])
    BY Zenon DEF Collected
  <2>2. ASSUME NEW i \in 1 .. n
        PROVE  [k \in 1 .. f.visits[SetToSeq(D)[i]] |-> f.pages[SetToSeq(D)[i]]] = <<e[i]>>
    <3> DEFINE p == f.pages[SetToSeq(D)[i]]
    <3>1. f.visits[SetToSeq(D)[i]] = 1 /\ e[i] = p
      BY <1>1 DEF Once
    <3> HIDE DEF p, e, D
    <3>2. [k \in 1 .. 1 |-> p] = <<p>>
      OBVIOUS
    <3> QED BY <3>1, <3>2 DEF p
  <2>3. [i \in 1 .. n |-> [k \in 1 .. f.visits[SetToSeq(D)[i]] |-> f.pages[SetToSeq(D)[i]]]] = ones
    BY <2>2
  <2> QED BY <2>1, <2>3
<1>4. Collected(f) = e
  <2> HIDE DEF n, e
  <2> QED BY <1>1, <1>2, <1>3, FlattenOnes
<1> QED BY <1>4

\* So are their results, and their amounts.
LEMMA ResultsOnce ==
  ASSUME NEW f, PagesType(f, UsagePages), DOMAIN f.pages = DOMAIN f.visits, Once(f)
  PROVE  Results(Collected(f)) = AllResults(f)
<1> DEFINE D == DOMAIN f.pages
           e == [i \in 1 .. Cardinality(D) |-> f.pages[SetToSeq(D)[i]]]
<1>1. Collected(f) = e
  BY CollectedOnce
<1>2. [i \in DOMAIN e |-> e[i].results] = PageList(f)
  BY DEF PageList
<1>3. Results(e) = FlattenSeq(PageList(f))
  BY <1>2 DEF Results
<1> QED BY <1>1, <1>3, Zenon DEF AllResults, PageList

Billed(f) == SumFunction([c \in DOMAIN f.pages |-> f.pages[c].amount])

LEMMA AmountOnce ==
  ASSUME NEW f, PagesType(f, CostsPages), DOMAIN f.pages = DOMAIN f.visits, Once(f)
  PROVE  Amount(Collected(f)) = Billed(f)
<1> DEFINE D == DOMAIN f.pages
           I == 1 .. Cardinality(D)
           m == SetToSeq(D)
           e == [i \in I |-> f.pages[m[i]]]
           F == [i \in I |-> e[i].amount]
           G == [c \in D |-> f.pages[c].amount]
<1>1. Collected(f) = e
  BY CollectedOnce
<1>2. m \in Bijection(I, D) /\ IsFiniteSet(D) /\ IsFiniteSet(I)
  BY SetToSeqIn, FS_Interval DEF PagesType
<1>3. m \in [I -> D] /\ (\A c \in D : \E i \in I : m[i] = c) /\ \A i, j \in I : m[i] = m[j] => i = j
  <2> HIDE DEF I, D, m
  <2> QED BY <1>2 DEF Bijection, Injection, Surjection, IsInjective
<1>4. G \in [D -> Int]
  BY ApiAssumption DEF PagesType
<1>5. F \in [I -> Int] /\ \A i \in I : F[i] = G[m[i]]
  <2>1. \A i \in I : F[i] = G[m[i]]
    <3> HIDE DEF I, D, m
    <3> QED BY <1>3
  <2> HIDE DEF I, D, m, G, e
  <2> QED BY <1>3, <1>4, <2>1
<1>6. Amount(Collected(f)) = SumFunction(F)
  BY <1>1 DEF Amount
<1>7. SumFunction(G) = SumFunction(F)
  <2> HIDE DEF I, D, m, F, G
  <2> QED BY <1>2, <1>3, <1>4, <1>5, SumImage
<1> QED BY <1>6, <1>7 DEF Billed

\* A visit adds a page of the API.
LEMMA VisitKeepsType ==
  ASSUME NEW f, NEW Pages, FetchType(f), PagesType(f, Pages), NEW page \in Pages, NEW next
  PROVE  PagesType(Visited(f, page), Pages) /\ PagesType(Follow(Visited(f, page), next), Pages)
<1> DEFINE g == Visited(f, page)
           v == With(f.visits, f.cursor, IF f.cursor \in DOMAIN f.visits THEN 2 ELSE 1)
<1>1. g.pages = With(f.pages, f.cursor, page)
  <2> DEFINE e == With(f.pages, f.cursor, page)
  <2>1. g = [f EXCEPT !.pages = e, !.visits = v]
    BY DEF Visited
  <2>2. f = [cursor |-> f.cursor, seen |-> f.seen, pages |-> f.pages, visits |-> f.visits]
    BY DEF FetchType
  <2> HIDE DEF e, g, v
  <2>3. g = [cursor |-> f.cursor, seen |-> f.seen, pages |-> e, visits |-> v]
    BY <2>1, <2>2
  <2> QED BY <2>3 DEF e
<1>2. DOMAIN g.pages = DOMAIN f.pages \union {f.cursor}
      /\ \A c \in DOMAIN g.pages : g.pages[c] = IF c = f.cursor THEN page ELSE f.pages[c]
  BY <1>1 DEF With
<1>3. IsFiniteSet(DOMAIN f.pages \union {f.cursor})
  BY FS_AddElement DEF PagesType
<1> HIDE DEF g
<1>4. PagesType(g, Pages)
  BY <1>2, <1>3 DEF PagesType
<1>5. Follow(g, next).pages = g.pages
  BY DEF Follow
<1> QED BY <1>4, <1>5 DEF PagesType, g

SummaryInv ==
  /\ PagesType(fetch, UsagePages)
  /\ step = "bill" => usage = Summarize(AllResults(fetch))

\* The summary is the one of the pages that were fetched, each of them once:
\* fetch_usage and summarize_usage.
THEOREM SummaryIsOfTheFetchedPages == Spec => []SummaryInv
<1>1. Init => SummaryInv
  <2> SUFFICES ASSUME Init PROVE SummaryInv
    OBVIOUS
  <2>1. DOMAIN fetch.pages = {} /\ step # "bill"
    BY DEF Init, NoFetch
  <2> QED BY <2>1, FS_EmptySet DEF SummaryInv, PagesType
<1>2. FramingInv /\ FetchInv /\ FetchInv' /\ SummaryInv /\ [Next]_vars => SummaryInv'
  <2> SUFFICES ASSUME FramingInv, FetchInv, FetchInv', SummaryInv, [Next]_vars PROVE SummaryInv'
    OBVIOUS
  <2>0. request \in Requests
    BY DEF FramingInv, TypeInv
  <2>1. CASE UsagePage
    <3>1. PICK page \in PagesFor(fetch, UsagePages) :
            LET f == Visited(fetch, page)
            IN \/ UNCHANGED fetch /\ step' = "answered"
               \/ fetch' = Follow(f, page.next) /\ UNCHANGED step
               \/ fetch' = f /\ usage' = Summarize(Results(Collected(f)))
      BY <2>1 DEF UsagePage, Send
    <3>2. step = "usage" /\ FetchType(fetch) /\ GoesOn(fetch) /\ PagesType(fetch, UsagePages)
      BY <2>1 DEF UsagePage, FetchInv, SummaryInv
    <3>3. page \in UsagePages
      BY <3>2 DEF PagesFor, GoesOn
    <3>4. PagesType(Visited(fetch, page), UsagePages) /\ PagesType(Follow(Visited(fetch, page), page.next), UsagePages)
      BY <3>2, <3>3, VisitKeepsType
    <3>5. CASE UNCHANGED fetch /\ step' = "answered"
      BY <3>2, <3>5 DEF SummaryInv
    <3>6. CASE fetch' = Follow(Visited(fetch, page), page.next) /\ UNCHANGED step
      BY <3>2, <3>4, <3>6 DEF SummaryInv
    <3>7. CASE fetch' = Visited(fetch, page) /\ usage' = Summarize(Results(Collected(Visited(fetch, page))))
      <4>1. DOMAIN fetch'.pages = DOMAIN fetch'.visits /\ Once(fetch')
        BY DEF FetchInv, FetchType
      <4>2. PagesType(fetch', UsagePages)
        BY <3>4, <3>7
      <4>3. Results(Collected(fetch')) = AllResults(fetch')
        BY <4>1, <4>2, ResultsOnce
      <4>4. usage' = Summarize(AllResults(fetch'))
        BY <3>7, <4>3
      <4> QED BY <4>2, <4>4 DEF SummaryInv
    <3> QED BY <3>1, <3>5, <3>6, <3>7
  <2>2. ASSUME UNCHANGED fetch, step' # "bill" \/ (step = "bill" /\ UNCHANGED usage)
        PROVE  SummaryInv'
    BY <2>2 DEF SummaryInv
  <2>3. CASE RefuseRequest \/ RefuseLength \/ ReadBody \/ Serve \/ GiveUp
    BY <2>2, <2>3 DEF RefuseRequest, RefuseLength, ReadBody, Serve, GiveUp, Refuse, Send, Untouched
  <2>4. CASE Admit
    <3>1. step' \in {"body", "data", "check", "serve"}
      BY <2>4 DEF Admit
    <3> QED BY <2>2, <2>4, <3>1 DEF Admit, Untouched
  <2>5. CASE BeginData
    <3>1. UNCHANGED fetch /\ step = "data"
      BY <2>5 DEF BeginData, Untouched
    <3>2. step' # "bill"
      <4>1. \A r \in Requests : r.key \in {"valid", "absent", "malformed"}
        BY ApiAssumption
      <4>2. request \in Requests
        BY <2>0
      <4> QED BY <2>5, <4>1, <4>2 DEF BeginData, Send
    <3> QED BY <2>2, <3>1, <3>2
  <2>6. CASE EmptyDay \/ UsageFails \/ CostsFail \/ CostsPage
    BY <2>2, <2>6 DEF EmptyDay, UsageFails, CostsFail, CostsPage, Send, Untouched
  <2>7. CASE CheckUpdate \/ ManifestUnavailable \/ CheckUnavailable
    BY <2>2, <2>7 DEF CheckUpdate, ManifestUnavailable, CheckUnavailable, Refuse, Send, Untouched
  <2>8. CASE UNCHANGED vars
    BY <2>2, <2>8 DEF vars, SummaryInv
  <2> QED BY <2>1, <2>3, <2>4, <2>5, <2>6, <2>7, <2>8 DEF Next, Handle
<1> QED BY <1>1, <1>2, ConnectionInvariant, FetchInvariant, PTL DEF Spec

\* The dashboard, the alert rules, the history and the export tell the same
\* story about one upstream answer, whatever is in it and however it is
\* paged: summarize_usage, reconcile_slice, daily_usage, _build_observations
\* and build_export_records (TotalsAgree).
THEOREM OneStory == Spec => []TotalsAgree
<1>1. SummaryInv => TotalsAgree
  <2> SUFFICES ASSUME SummaryInv, step = "bill",
                      \A i \in DOMAIN AllResults(fetch) : AllResults(fetch)[i].model.form # "blanks"
               PROVE  Agreement(AllResults(fetch), usage)
    BY Zenon DEF TotalsAgree
  <2>1. ResultList(AllResults(fetch)) /\ usage = Summarize(AllResults(fetch))
    BY FetchedResults DEF SummaryInv
  <2> QED BY <2>1, ResultsAgree
<1> QED BY <1>1, SummaryIsOfTheFetchedPages, PTL

CostsInv ==
  /\ PagesType(bill, CostsPages)
  /\ step \notin {"bill", "answered", "waiting"} => bill = NoFetch
  /\ step # "answered" => costs = Unknown
  /\ costs # Unknown /\ costs.available => costs.actual = Billed(bill)

\* The costs that the dashboard shows are the amounts of the pages that were
\* fetched, each of them once: fetch_costs.
THEOREM CostsAreOfTheFetchedPages == Spec => []CostsInv
<1>1. Init => CostsInv
  <2> SUFFICES ASSUME Init PROVE CostsInv
    OBVIOUS
  <2>1. DOMAIN bill.pages = {} /\ costs = Unknown /\ bill = NoFetch
    BY DEF Init, NoFetch
  <2> QED BY <2>1, FS_EmptySet DEF CostsInv, PagesType
<1>2. FetchInv /\ FetchInv' /\ CostsInv /\ [Next]_vars => CostsInv'
  <2> SUFFICES ASSUME FetchInv, FetchInv', CostsInv, [Next]_vars PROVE CostsInv'
    OBVIOUS
  <2>1. CASE CostsPage
    <3>1. PICK page \in PagesFor(bill, CostsPages) :
            LET f == Visited(bill, page)
            IN \/ costs' = NoCosts("costs_response_invalid") /\ UNCHANGED bill /\ step' = "answered"
               \/ bill' = Follow(f, page.next) /\ UNCHANGED <<step, costs>>
               \/ bill' = f /\ step' = "answered"
                  /\ costs' = [available |-> TRUE, actual |-> Amount(Collected(f))]
      BY <2>1 DEF CostsPage, Send
    <3>2. step = "bill" /\ FetchType(bill) /\ GoesOn(bill) /\ PagesType(bill, CostsPages) /\ costs = Unknown
      BY <2>1 DEF CostsPage, FetchInv, CostsInv
    <3>3. page \in CostsPages
      BY <3>2 DEF PagesFor, GoesOn
    <3>4. PagesType(Visited(bill, page), CostsPages) /\ PagesType(Follow(Visited(bill, page), page.next), CostsPages)
      BY <3>2, <3>3, VisitKeepsType
    <3>5. CASE costs' = NoCosts("costs_response_invalid") /\ UNCHANGED bill /\ step' = "answered"
      <4>1. ~costs'.available
        BY <3>5 DEF NoCosts
      <4> QED BY <3>2, <3>5, <4>1 DEF CostsInv
    <3>6. CASE bill' = Follow(Visited(bill, page), page.next) /\ UNCHANGED <<step, costs>>
      BY <3>2, <3>4, <3>6 DEF CostsInv
    <3>7. CASE /\ bill' = Visited(bill, page) /\ step' = "answered"
               /\ costs' = [available |-> TRUE, actual |-> Amount(Collected(Visited(bill, page)))]
      <4>1. DOMAIN bill'.pages = DOMAIN bill'.visits /\ Once(bill')
        BY DEF FetchInv, FetchType
      <4>2. PagesType(bill', CostsPages)
        BY <3>4, <3>7
      <4>3. Amount(Collected(bill')) = Billed(bill')
        BY <4>1, <4>2, AmountOnce
      <4>4. costs'.actual = Billed(bill')
        BY <3>7, <4>3
      <4> QED BY <3>7, <4>2, <4>4 DEF CostsInv
    <3> QED BY <3>1, <3>5, <3>6, <3>7
  <2>2. ASSUME UNCHANGED <<bill, costs>>,
               step \notin {"bill", "answered", "waiting"} \/ step' \in {step, "answered"}
        PROVE  CostsInv'
    BY <2>2 DEF CostsInv
  <2>3. CASE RefuseRequest \/ RefuseLength \/ ReadBody \/ Serve \/ GiveUp
    BY <2>2, <2>3 DEF RefuseRequest, RefuseLength, ReadBody, Serve, GiveUp, Refuse, Send, Untouched
  <2>4. CASE Admit \/ BeginData \/ UsagePage \/ UsageFails
    BY <2>2, <2>4 DEF Admit, BeginData, UsagePage, UsageFails, Send, Untouched
  <2>5. CASE EmptyDay
    <3>1. step = "usage" /\ step' = "answered" /\ bill' = bill /\ costs'.actual = 0
      BY <2>5 DEF EmptyDay, Send
    <3>2. DOMAIN bill.pages = {}
      BY <3>1 DEF CostsInv, NoFetch
    <3>3. Billed(bill) = 0
      <4>1. Billed(bill) = SumFunction([c \in {} |-> 0])
        BY <3>2 DEF Billed
      <4> QED BY <4>1, FS_EmptySet, SumZero
    <3> QED BY <3>1, <3>3 DEF CostsInv
  <2>6. CASE CostsFail
    <3>1. ~costs'.available /\ bill' = bill /\ step' = "answered"
      BY <2>6 DEF CostsFail, NoCosts, Send
    <3> QED BY <3>1 DEF CostsInv
  <2>7. CASE CheckUpdate \/ ManifestUnavailable \/ CheckUnavailable
    BY <2>2, <2>7 DEF CheckUpdate, ManifestUnavailable, CheckUnavailable, Refuse, Send, Untouched
  <2>8. CASE UNCHANGED vars
    BY <2>2, <2>8 DEF vars
  <2> QED BY <2>1, <2>3, <2>4, <2>5, <2>6, <2>7, <2>8 DEF Next, Handle
<1> QED BY <1>1, <1>2, FetchInvariant, PTL DEF Spec
=============================================================================
